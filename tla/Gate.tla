-------------------------------- MODULE Gate --------------------------------
(***************************************************************************)
(* What a request passes before its handler (internal/api/middleware.go,   *)
(* jwks.go): the local token or an Access JWT, whose key is looked up in a *)
(* cache that any request may refresh, and for a mutating route the gates  *)
(* and the limiter.  Requests run concurrently; the cache is read under a  *)
(* read lock, and no lock is held during a fetch.                          *)
(*                                                                         *)
(* External: Cloudflare, which publishes its signing keys and changes them *)
(* when it likes, and whether a fetch succeeds.                            *)
(*                                                                         *)
(* Time is in ticks.  Only ages are kept, up to the point where the code   *)
(* tells them no longer apart; so is the count of a window.                *)
(***************************************************************************)
EXTENDS Naturals

CONSTANTS Slots,            \* requests at a time
          Kids,             \* key ids
          Routes,           \* the mutating routes
          ActionsEnabled,
          PerMinute,        \* calls of a route in a window, 10 in the code
          Minute,           \* a window of the limiter
          FetchTimeout,     \* of the client that fetches keys, 10 s
          MinRefetch,       \* between two fetches, 30 s
          Hour              \* the age from which the cache is stale

ASSUME GateAssumption ==
    /\ ActionsEnabled \in BOOLEAN
    /\ PerMinute \in Nat \ {0} /\ Minute \in Nat \ {0}
    /\ FetchTimeout \in Nat /\ MinRefetch \in Nat /\ Hour \in Nat
    /\ FetchTimeout < MinRefetch /\ MinRefetch < Hour
    /\ "none" \notin Kids
    /\ Slots # {}

VARIABLES
    published,  \* Cloudflare's usable keys
    keys,       \* j.keys
    since,      \* the age of j.lastFetch
    window,     \* window[route]: the limiter's window, its age and count
    pc,         \* the next step of a request
    token,      \* the key id of its token while it waits for the key
    knew,       \* Key found the id in the cache at first (ok)
    doc,        \* the keys its fetch has brought
    dropped,    \* history: its key was not published at some time since then
    past        \* history: past[route][i]: how long ago the last call but i - 1 was let through

cache   == <<keys, since>>
request == <<token, knew, doc, dropped>>
limits  == <<window, past>>
vars    == <<published, cache, limits, pc, request>>

(* The calls of a route that are remembered; Minute stands for any longer ago. *)
Back    == 1 .. 2 * PerMinute + 1
Expired == [age |-> Minute, count |-> 0]

TypeOK ==
    /\ published \subseteq Kids /\ keys \subseteq Kids
    /\ since \in 0 .. Hour + 1
    /\ window \in [Routes -> [age : 0 .. Minute, count : 0 .. PerMinute + 1]]
    /\ pc \in [Slots -> {"idle", "refresh", "fetch", "install", "reread", "unknown", "guard"}]
    /\ token \in [Slots -> Kids \cup {"none"}]
    /\ knew \in [Slots -> BOOLEAN] /\ dropped \in [Slots -> BOOLEAN]
    /\ doc \in [Slots -> SUBSET Kids]
    /\ \A r \in Slots : pc[r] = "install" => doc[r] # {}
    /\ past \in [Routes -> [Back -> 0 .. Minute]]

AtMost(n, bound) == IF n < bound THEN n ELSE bound

Goto(r, step) == pc' = [pc EXCEPT ![r] = step]

(* What has been asked of the cache for a request is of no more use. *)
Clear(r) ==
    /\ token' = [token EXCEPT ![r] = "none"]
    /\ knew' = [knew EXCEPT ![r] = FALSE]
    /\ doc' = [doc EXCEPT ![r] = {}]
    /\ dropped' = [dropped EXCEPT ![r] = FALSE]

(* The request is answered. *)
Answer(r) == Goto(r, "idle") /\ Clear(r)

-----------------------------------------------------------------------------
(* Auth, from the arrival of a request. *)

(* The local token of a loopback peer passes; no token is answered with 401,  *)
(* and 403 is the answer of a server that is not configured.                  *)
Recognise(r) ==
    /\ pc[r] = "idle"
    /\ \/ Goto(r, "guard")
       \/ Goto(r, "idle")
    /\ UNCHANGED <<published, cache, limits, request>>

(* With the key the signature and the claims are checked: 401 if they do not hold. *)
Verified(r) ==
    /\ \/ Goto(r, "guard")
       \/ Goto(r, "idle")
    /\ Clear(r)

(* Key returns an error. *)
NoKey(r) == Goto(r, "unknown") /\ UNCHANGED request

(* A request with a token of key k; Key, under the read lock. *)
LookUp(r, k) ==
    /\ pc[r] = "idle"
    /\ IF k \in keys /\ since <= Hour
       THEN Verified(r)
       ELSE /\ Goto(r, "refresh")
            /\ token' = [token EXCEPT ![r] = k]
            /\ knew' = [knew EXCEPT ![r] = k \in keys]
            /\ dropped' = [dropped EXCEPT ![r] = k \notin published]
            /\ UNCHANGED doc
    /\ UNCHANGED <<published, cache, limits>>

(* A plausible slip: the time of the last fetch is set before it is looked at. *)
RefreshRestarts(r) ==
    /\ pc[r] = "refresh"
    /\ Goto(r, IF since < MinRefetch THEN "reread" ELSE "fetch")
    /\ since' = 0
    /\ UNCHANGED <<published, keys, limits, request>>

(* refresh, under the lock: the fetch is entered in the cache before it is made. *)
Refresh(r) ==
    /\ pc[r] = "refresh"
    /\ \/ since < MinRefetch /\ Goto(r, "reread") /\ UNCHANGED since
       \/ since >= MinRefetch /\ Goto(r, "fetch") /\ since' = 0
    /\ UNCHANGED <<published, keys, limits, request>>

(* A plausible slip: a document without a usable key is as good as another. *)
FetchReadsAny(r) ==
    /\ pc[r] = "fetch"
    /\ Goto(r, "install")
    /\ doc' = [doc EXCEPT ![r] = published]
    /\ UNCHANGED <<published, cache, limits, token, knew, dropped>>

(* Cloudflare answers with the keys of this moment; there must be one. *)
FetchReads(r) ==
    /\ pc[r] = "fetch" /\ published # {}
    /\ Goto(r, "install")
    /\ doc' = [doc EXCEPT ![r] = published]
    /\ UNCHANGED <<published, cache, limits, token, knew, dropped>>

(* A plausible slip: a failed fetch refuses the request whatever the cache holds. *)
FetchFailsHard(r) ==
    /\ pc[r] = "fetch"
    /\ NoKey(r)
    /\ UNCHANGED <<published, cache, limits>>

(* On a failed fetch a key found before is served all the same. *)
FetchFails(r) ==
    /\ pc[r] = "fetch"
    /\ IF knew[r] THEN Verified(r) ELSE NoKey(r)
    /\ UNCHANGED <<published, cache, limits>>

Install(r) ==
    /\ pc[r] = "install"
    /\ keys' = doc[r]
    /\ Goto(r, "reread")
    /\ doc' = [doc EXCEPT ![r] = {}]
    /\ UNCHANGED <<published, since, limits, token, knew, dropped>>

Reread(r) ==
    /\ pc[r] = "reread"
    /\ IF token[r] \in keys THEN Verified(r) ELSE NoKey(r)
    /\ UNCHANGED <<published, cache, limits>>

(* 401. *)
Refuse(r) ==
    /\ pc[r] = "unknown"
    /\ Answer(r)
    /\ UNCHANGED <<published, cache, limits>>

-----------------------------------------------------------------------------
(* MutatingGuard and the limiter. *)

(* A read passes no guard. *)
Read(r) ==
    /\ pc[r] = "guard"
    /\ Answer(r)
    /\ UNCHANGED <<published, cache, limits>>

(* No action allowed at all, no action header or no JSON. *)
Forbidden(r) ==
    /\ pc[r] = "guard"
    /\ Answer(r)
    /\ UNCHANGED <<published, cache, limits>>

(* A plausible slip: the call that opens a window is not counted. *)
AllowFree(route) ==
    IF window[route].age >= Minute
    THEN [age |-> 0, count |-> 0]
    ELSE [window[route] EXCEPT !.count = AtMost(@ + 1, PerMinute + 1)]

(* allow: a call that is refused counts as well. *)
Allow(route) ==
    IF window[route].age >= Minute
    THEN [age |-> 0, count |-> 1]
    ELSE [window[route] EXCEPT !.count = AtMost(@ + 1, PerMinute + 1)]

Act(r, route) ==
    /\ pc[r] = "guard" /\ ActionsEnabled
    /\ window' = [window EXCEPT ![route] = Allow(route)]
    /\ IF Allow(route).count <= PerMinute
       THEN past' = [past EXCEPT ![route] = [i \in Back |-> IF i = 1 THEN 0 ELSE past[route][i - 1]]]
       ELSE UNCHANGED past
    /\ Answer(r)
    /\ UNCHANGED <<published, cache>>

-----------------------------------------------------------------------------
(* The environment. *)

InFlight == {r \in Slots : pc[r] \in {"fetch", "install"}}

(* A fetch in flight is over by its timeout. *)
Tick ==
    /\ InFlight # {} => since < FetchTimeout
    /\ since' = AtMost(since + 1, Hour + 1)
    /\ window' = [q \in Routes |-> IF window[q].age + 1 >= Minute THEN Expired
                                   ELSE [window[q] EXCEPT !.age = @ + 1]]
    /\ past' = [q \in Routes |-> [i \in Back |-> AtMost(past[q][i] + 1, Minute)]]
    /\ UNCHANGED <<published, keys, pc, request>>

Rotate ==
    /\ published' \in SUBSET Kids
    /\ dropped' = [r \in Slots |-> dropped[r] \/ (pc[r] \in {"refresh", "fetch", "install", "reread", "unknown"}
                                                   /\ token[r] \notin published')]
    /\ UNCHANGED <<cache, limits, pc, token, knew, doc>>

Init ==
    /\ published \in SUBSET Kids
    /\ keys = {} /\ since = Hour + 1
    /\ window = [q \in Routes |-> Expired]
    /\ pc = [r \in Slots |-> "idle"]
    /\ token = [r \in Slots |-> "none"]
    /\ knew = [r \in Slots |-> FALSE] /\ dropped = [r \in Slots |-> FALSE]
    /\ doc = [r \in Slots |-> {}]
    /\ past = [q \in Routes |-> [i \in Back |-> Minute]]

Fetched(r) == FetchReads(r) \/ FetchFails(r)

Handle(r) ==
    \/ Refresh(r) \/ Fetched(r) \/ Install(r) \/ Reread(r) \/ Refuse(r)
    \/ Read(r) \/ Forbidden(r) \/ (\E route \in Routes : Act(r, route))

Next ==
    \/ \E r \in Slots : Handle(r)
    \/ \E r \in Slots : Recognise(r) \/ \E k \in Kids : LookUp(r, k)
    \/ Tick
    \/ Rotate

Spec == Init /\ [][Next]_vars

(* A request that is being handled goes on and time passes; people come again *)
(* and again with each key, and fetches do not fail for ever.                 *)
GoesOn(r)      == WF_vars(Handle(r))
TimePasses     == WF_vars(Tick)
Asked(k)       == \E r \in Slots : LookUp(r, k)
AskedAgain(k)  == SF_vars(Asked(k))
AnyRead        == \E r \in Slots : FetchReads(r)
FetchesSucceed == SF_vars(AnyRead)

FairSpec ==
    /\ Spec
    /\ TimePasses
    /\ \A r \in Slots : GoesOn(r)
    /\ FetchesSucceed
    /\ \A k \in Kids : AskedAgain(k)

-----------------------------------------------------------------------------
(* Properties. *)

(* A fixed window lets up to twice its limit through in a minute, around the  *)
(* start of a window, and no more, however many requests race: of one call    *)
(* more than that the first is at least a minute ago                          *)
(* (middleware.go:166-176).                                                   *)
RateBound ==
    \A q \in Routes : past[q][2 * PerMinute + 1] = Minute

(* A request whose key the cache knew when it looked is not refused for want  *)
(* of a key while Cloudflare goes on publishing that key: whether the cache   *)
(* has gone stale, its fetch fails, or another's fetch replaces all the keys  *)
(* meanwhile (jwks.go:42-63, 95-104).                                         *)
KnownKeyHonoured ==
    \A r \in Slots : pc[r] = "unknown" /\ knew[r] => dropped[r]

(* Two requests never fetch at once, although no lock is held during a fetch: *)
(* the one that may is entered in the cache first, and is over by its timeout *)
(* long before the next one may (jwks.go:65-79).                              *)
OneFetch == \A r, s \in InFlight : r = s

(* A request always goes on: no other one, no slow fetch and no interval      *)
(* between fetches keeps it waiting, a request with any key finds the cache    *)
(* to ask, and only a fetch under way holds up the clock (jwks.go:42-79).      *)
NeverStuck ==
    /\ \A r \in Slots : pc[r] # "idle" => ENABLED <<Handle(r)>>_vars
    /\ (\E r \in Slots : pc[r] = "idle") => \A k \in Kids : ENABLED <<Asked(k)>>_vars
    /\ (\E r \in Slots : pc[r] = "fetch") /\ published # {} => ENABLED <<AnyRead>>_vars
    /\ InFlight = {} /\ since <= Hour => ENABLED <<Tick>>_vars

(* A key that Cloudflare publishes from some time on is in the cache from some *)
(* time on, whatever other ids are asked for: the least interval between two   *)
(* fetches delays it, and does not keep it out (jwks.go:65-73); nor is any     *)
(* request held up by it.                                                      *)
RotatedKeyArrives ==
    /\ []NeverStuck
    /\ \A k \in Kids : <>[](k \in published) => <>[](k \in keys)
=============================================================================

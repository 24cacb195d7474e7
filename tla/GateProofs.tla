----------------------------- MODULE GateProofs -----------------------------
(***************************************************************************)
(* Proofs about Gate, for every set of requests, keys and routes, every    *)
(* limit and every choice of times the assumption allows.                  *)
(***************************************************************************)
EXTENDS Gate, TLAPS

USE GateAssumption

-----------------------------------------------------------------------------
(* The limiter. *)

(* The calls that the window in force has let through. *)
Passed(q) == IF window[q].age < Minute THEN AtMost(window[q].count, PerMinute) ELSE 0

(* Calls before those are older than the window, and the window before it let *)
(* through at most a limit's worth: all others are a minute ago.              *)
WindowPart(q) ==
    /\ window[q].age = Minute => window[q].count = 0
    /\ \A i \in Back : i > Passed(q) + PerMinute => past[q][i] = Minute
    /\ window[q].age < Minute => \A i \in Back : i > Passed(q) => past[q][i] >= window[q].age

LimitTyped ==
    /\ window \in [Routes -> [age : 0 .. Minute, count : 0 .. PerMinute + 1]]
    /\ past \in [Routes -> [Back -> 0 .. Minute]]

LimitInv == LimitTyped /\ \A q \in Routes : WindowPart(q)

LEMMA InitLimit == Init => LimitInv
<1> SUFFICES ASSUME Init PROVE LimitInv
  OBVIOUS
<1>1. LimitTyped
  BY DEF Init, LimitTyped, Expired, Back
<1>2. \A q \in Routes : window[q].age = Minute /\ window[q].count = 0
  BY DEF Init, Expired
<1>3. \A q \in Routes : \A i \in Back : past[q][i] = Minute
  BY DEF Init
<1>4. \A q \in Routes : Passed(q) = 0
  BY <1>2 DEF Passed
<1> QED
  BY <1>1, <1>2, <1>3, <1>4 DEF LimitInv, WindowPart

(* A call, let through or refused. *)
LEMMA ActLimit ==
    ASSUME LimitInv, NEW r \in Slots, NEW q \in Routes, Act(r, q) PROVE LimitInv'
<1> DEFINE w == window[q]
           v == Allow(q)
<1>1. /\ w \in [age : 0 .. Minute, count : 0 .. PerMinute + 1] /\ past[q] \in [Back -> 0 .. Minute]
      /\ w.age \in 0 .. Minute /\ w.count \in 0 .. PerMinute + 1
  BY DEF LimitInv, LimitTyped
<1>2. /\ v \in [age : 0 .. Minute, count : 0 .. PerMinute + 1]
      /\ w.age = Minute => v.age = 0 /\ v.count = 1
      /\ w.age < Minute => v.age = w.age
                           /\ v.count = IF w.count + 1 < PerMinute + 1 THEN w.count + 1 ELSE PerMinute + 1
  BY <1>1 DEF Allow, AtMost
<1>3. window' = [window EXCEPT ![q] = v]
  BY DEF Act
<1>4. \A p \in Routes \ {q} : window'[p] = window[p] /\ past'[p] = past[p]
  BY <1>3 DEF Act, LimitInv, LimitTyped
<1>5. window'[q] = v
  BY <1>3 DEF LimitInv, LimitTyped
<1>6. CASE v.count <= PerMinute
  <2>1. past' = [past EXCEPT ![q] = [i \in Back |-> IF i = 1 THEN 0 ELSE past[q][i - 1]]]
    BY <1>6 DEF Act
  <2>2. past'[q] = [i \in Back |-> IF i = 1 THEN 0 ELSE past[q][i - 1]]
    BY <2>1 DEF LimitInv, LimitTyped
  <2>3. past'[q] \in [Back -> 0 .. Minute]
    BY <1>1, <2>2 DEF Back
  <2>4. LimitTyped'
    BY <1>2, <1>3, <2>1, <2>2, <2>3 DEF LimitInv, LimitTyped
  <2>5. Passed(q)' = Passed(q) + 1
    BY <1>1, <1>2, <1>5, <1>6 DEF Passed, AtMost
  <2>6. window'[q].age < Minute /\ window'[q].age \in 0 .. Minute
    BY <1>1, <1>2, <1>5
  <2>7. Passed(q) \in 0 .. PerMinute /\ WindowPart(q)
    BY <1>1 DEF Passed, AtMost, LimitInv
  <2>8. ASSUME NEW i \in Back, i > Passed(q)' + PerMinute PROVE past'[q][i] = Minute
    <3>1. i - 1 \in Back /\ i # 1 /\ i - 1 > Passed(q) + PerMinute
      BY <2>5, <2>7, <2>8 DEF Back
    <3> QED
      BY <2>2, <2>7, <3>1 DEF WindowPart
  <2>9. ASSUME NEW i \in Back, i > Passed(q)' PROVE past'[q][i] >= window'[q].age
    <3>1. i - 1 \in Back /\ i # 1 /\ i - 1 > Passed(q)
      BY <2>5, <2>7, <2>9 DEF Back
    <3>2. past'[q][i] = past[q][i - 1] /\ past[q][i - 1] \in 0 .. Minute
      BY <1>1, <2>2, <3>1
    <3>3. CASE w.age = Minute
      BY <1>2, <1>5, <3>2, <3>3
    <3>4. CASE w.age < Minute
      BY <1>1, <1>2, <1>5, <2>7, <3>1, <3>2, <3>4 DEF WindowPart
    <3> QED
      BY <1>1, <3>3, <3>4
  <2>10. WindowPart(q)'
    BY <2>6, <2>8, <2>9 DEF WindowPart
  <2> QED
    BY <1>4, <2>4, <2>10 DEF LimitInv, WindowPart, Passed
<1>7. CASE v.count > PerMinute
  <2>1. past' = past
    BY <1>2, <1>7 DEF Act
  <2>2. LimitTyped'
    BY <1>2, <1>3, <2>1 DEF LimitInv, LimitTyped
  <2>3. Passed(q)' = Passed(q) /\ v.age = w.age
    BY <1>1, <1>2, <1>5, <1>7 DEF Passed, AtMost
  <2>4. WindowPart(q)'
    BY <1>1, <1>2, <1>5, <1>7, <2>1, <2>3 DEF LimitInv, WindowPart
  <2> QED
    BY <1>4, <2>2, <2>4 DEF LimitInv, WindowPart, Passed
<1> QED
  BY <1>2, <1>6, <1>7

(* Time passes. *)
LEMMA TickLimit == ASSUME LimitInv, Tick PROVE LimitInv'
<1>1. ASSUME NEW q \in Routes
      PROVE  /\ window'[q] \in [age : 0 .. Minute, count : 0 .. PerMinute + 1]
             /\ past'[q] \in [Back -> 0 .. Minute]
             /\ WindowPart(q)'
  <2>1. /\ window[q] \in [age : 0 .. Minute, count : 0 .. PerMinute + 1]
        /\ window[q].age \in 0 .. Minute /\ window[q].count \in 0 .. PerMinute + 1
        /\ past[q] \in [Back -> 0 .. Minute] /\ WindowPart(q)
    BY DEF LimitInv, LimitTyped
  <2>2. past'[q] = [i \in Back |-> AtMost(past[q][i] + 1, Minute)]
    BY DEF Tick
  <2>3. past'[q] \in [Back -> 0 .. Minute] /\ Passed(q) \in 0 .. PerMinute
    BY <2>1, <2>2 DEF AtMost, Passed
  <2>4. CASE window[q].age + 1 >= Minute
    <3>1. window'[q] = [age |-> Minute, count |-> 0]
      BY <2>4 DEF Tick, Expired
    <3>2. Passed(q)' = 0
      BY <3>1 DEF Passed
    <3>3. \A i \in Back : i > PerMinute => past'[q][i] = Minute
      <4> SUFFICES ASSUME NEW i \in Back, i > PerMinute PROVE past'[q][i] = Minute
        OBVIOUS
      <4>1. past[q][i] \in 0 .. Minute /\ past'[q][i] = AtMost(past[q][i] + 1, Minute)
        BY <2>1, <2>2
      <4>2. past[q][i] + 1 >= Minute
        <5>1. CASE window[q].age = Minute
          <6>1. Passed(q) = 0
            BY <5>1 DEF Passed
          <6> QED
            BY <2>1, <6>1 DEF WindowPart, Back
        <5>2. CASE window[q].age < Minute
          <6>1. i > Passed(q)
            BY <2>3 DEF Back
          <6> QED
            BY <2>1, <2>4, <4>1, <5>2, <6>1 DEF WindowPart
        <5> QED
          BY <2>1, <5>1, <5>2
      <4> QED
        BY <4>1, <4>2 DEF AtMost
    <3>4. window'[q].age = Minute /\ window'[q].count = 0
      BY <3>1
    <3>5. WindowPart(q)'
      BY <3>2, <3>3, <3>4 DEF WindowPart, Back
    <3> QED
      BY <2>3, <3>1, <3>5
  <2>5. CASE window[q].age + 1 < Minute
    <3>1. window'[q] = [window[q] EXCEPT !.age = @ + 1]
      BY <2>1, <2>5 DEF Tick
    <3>2. window'[q].age = window[q].age + 1 /\ window'[q].count = window[q].count
      BY <2>1, <3>1
    <3>3. window'[q] \in [age : 0 .. Minute, count : 0 .. PerMinute + 1]
      BY <2>1, <2>5, <3>1
    <3>4. Passed(q)' = Passed(q)
      BY <2>1, <2>5, <3>2 DEF Passed, AtMost
    <3>5. \A i \in Back : past[q][i] = Minute => past'[q][i] = Minute
      BY <2>1, <2>2 DEF AtMost
    <3>6. \A i \in Back : past[q][i] >= window[q].age => past'[q][i] >= window'[q].age
      BY <2>1, <2>2, <2>5, <3>2 DEF AtMost
    <3> QED
      BY <2>1, <2>3, <2>5, <3>2, <3>3, <3>4, <3>5, <3>6 DEF WindowPart
  <2> QED
    BY <2>1, <2>4, <2>5
<1>2. LimitTyped'
  BY <1>1 DEF LimitTyped, Tick
<1> QED
  BY <1>1, <1>2 DEF LimitInv

-----------------------------------------------------------------------------
(* The cache and its requests. *)

Waiting == {"refresh", "fetch", "install", "reread"}

CacheTyped ==
    /\ published \subseteq Kids /\ keys \subseteq Kids
    /\ since \in 0 .. Hour + 1
    /\ pc \in [Slots -> {"idle", "refresh", "fetch", "install", "reread", "unknown", "guard"}]
    /\ token \in [Slots -> Kids \cup {"none"}]
    /\ knew \in [Slots -> BOOLEAN] /\ dropped \in [Slots -> BOOLEAN]
    /\ doc \in [Slots -> SUBSET Kids]
    /\ \A r \in Slots : pc[r] = "install" => doc[r] # {}

(* The key a request found at first is published still and has to be in what  *)
(* the cache holds, and in every key set that is on its way to it.            *)
Held(r) == /\ token[r] \in keys /\ token[r] \in published
           /\ \A q \in Slots : pc[q] = "install" => token[r] \in doc[q]

RequestPart(r) ==
    /\ pc[r] \in Waiting /\ knew[r] /\ ~dropped[r] => Held(r)
    /\ pc[r] = "unknown" /\ knew[r] => dropped[r]

(* A fetch is over long before the cache is stale: whoever finds its key in a *)
(* stale cache comes after it.                                                *)
KeyInv ==
    /\ CacheTyped
    /\ InFlight # {} => since <= FetchTimeout
    /\ \A r \in Slots : RequestPart(r)

LEMMA InitKeys == Init => KeyInv
  BY DEF Init, KeyInv, CacheTyped, InFlight, RequestPart, Waiting

(* A request is answered, passes, or is refused for want of a key.            *)
LEMMA Leaves ==
    ASSUME KeyInv, NEW r \in Slots,
           UNCHANGED <<published, keys>>, since' = since,
           NEW step \in {"idle", "guard", "unknown"}, Goto(r, step),
           \/ Clear(r)
           \/ UNCHANGED request,
           step = "unknown" => UNCHANGED request /\ (knew[r] => dropped[r])
    PROVE  KeyInv'
<1> USE DEF KeyInv
<1>1. /\ pc' = [pc EXCEPT ![r] = step]
      /\ \A q \in Slots \ {r} : /\ pc'[q] = pc[q] /\ token'[q] = token[q] /\ knew'[q] = knew[q]
                                /\ dropped'[q] = dropped[q] /\ doc'[q] = doc[q]
  BY DEF Goto, Clear, CacheTyped, request
<1>2. CacheTyped'
  <2>1. CASE Clear(r)
    BY <1>1, <2>1 DEF Clear, CacheTyped
  <2>2. CASE UNCHANGED request
    BY <1>1, <2>2 DEF CacheTyped, request
  <2> QED
    BY <2>1, <2>2
<1>3. (InFlight # {} => since <= FetchTimeout)'
  BY <1>1 DEF InFlight, CacheTyped
<1>4. RequestPart(r)'
  BY <1>1 DEF RequestPart, CacheTyped, Waiting, request
<1>5. \A q \in Slots \ {r} : RequestPart(q)'
  BY <1>1 DEF RequestPart, CacheTyped, Held
<1> QED
  BY <1>2, <1>3, <1>4, <1>5

(* Key looks in the cache.                                                    *)
LEMMA LookUpKeys ==
    ASSUME KeyInv, NEW r \in Slots, NEW k \in Kids, LookUp(r, k) PROVE KeyInv'
<1> USE DEF KeyInv
<1>1. CASE k \in keys /\ since <= Hour
  BY <1>1, Leaves DEF LookUp, Verified, cache
<1>2. CASE ~(k \in keys /\ since <= Hour)
  <2>1. /\ pc' = [pc EXCEPT ![r] = "refresh"]
        /\ token' = [token EXCEPT ![r] = k]
        /\ knew' = [knew EXCEPT ![r] = k \in keys]
        /\ dropped' = [dropped EXCEPT ![r] = k \notin published]
        /\ UNCHANGED <<published, keys, since, doc>>
        /\ pc[r] = "idle"
    BY <1>2 DEF LookUp, Goto, cache
  <2>2. CacheTyped'
    BY <2>1 DEF CacheTyped
  <2>3. (InFlight # {} => since <= FetchTimeout)'
    BY <2>1 DEF InFlight, CacheTyped
  <2>4. RequestPart(r)'
    <3>1. k \in keys => InFlight = {}
      BY <1>2 DEF CacheTyped
    <3>2. \A q \in Slots : pc'[q] = "install" => q \in InFlight
      BY <2>1 DEF InFlight, CacheTyped
    <3> QED
      BY <2>1, <3>1, <3>2 DEF RequestPart, Held, CacheTyped
  <2>5. \A q \in Slots \ {r} : RequestPart(q)'
    BY <2>1 DEF RequestPart, CacheTyped, Held
  <2> QED
    BY <2>2, <2>3, <2>4, <2>5
<1> QED
  BY <1>1, <1>2

(* It asks for the keys, or finds that it is too early for that.              *)
LEMMA RefreshKeys ==
    ASSUME KeyInv, NEW r \in Slots, Refresh(r) PROVE KeyInv'
<1> USE DEF KeyInv
<1>1. PICK step \in {"reread", "fetch"} :
          /\ pc' = [pc EXCEPT ![r] = step] /\ pc[r] = "refresh"
          /\ since' \in {since, 0} /\ (step = "fetch" => since' = 0)
          /\ UNCHANGED <<published, keys, request>>
  BY DEF Refresh, Goto
<1>2. CacheTyped'
  BY <1>1 DEF CacheTyped, request
<1>3. (InFlight # {} => since <= FetchTimeout)'
  <2>1. CASE since' = 0
    BY <2>1
  <2>2. CASE since' = since /\ step = "reread"
    BY <1>1, <2>2 DEF InFlight, CacheTyped
  <2> QED
    BY <1>1, <2>1, <2>2
<1>4. \A q \in Slots : RequestPart(q)'
  BY <1>1 DEF RequestPart, CacheTyped, Held, request, Waiting
<1> QED
  BY <1>2, <1>3, <1>4

(* The keys come.                                                             *)
LEMMA FetchReadsKeys ==
    ASSUME KeyInv, NEW r \in Slots, FetchReads(r) PROVE KeyInv'
<1> USE DEF KeyInv
<1>1. /\ pc[r] = "fetch" /\ published # {} /\ pc' = [pc EXCEPT ![r] = "install"]
      /\ doc' = [doc EXCEPT ![r] = published]
      /\ UNCHANGED <<published, keys, since, token, knew, dropped>>
  BY DEF FetchReads, Goto, cache
<1>2. CacheTyped'
  BY <1>1 DEF CacheTyped
<1>3. (InFlight # {} => since <= FetchTimeout)'
  BY <1>1 DEF InFlight, CacheTyped
<1>4. \A q \in Slots : RequestPart(q)'
  <2> SUFFICES ASSUME NEW q \in Slots PROVE RequestPart(q)'
    OBVIOUS
  <2>1. pc'[q] \in Waiting <=> pc[q] \in Waiting
    BY <1>1 DEF CacheTyped, Waiting
  <2>2. Held(q) => Held(q)'
    BY <1>1 DEF Held, CacheTyped
  <2> QED
    BY <1>1, <2>1, <2>2 DEF RequestPart, CacheTyped
<1> QED
  BY <1>2, <1>3, <1>4

(* All of them replace the old ones.                                          *)
LEMMA InstallKeys ==
    ASSUME KeyInv, NEW r \in Slots, Install(r) PROVE KeyInv'
<1> USE DEF KeyInv
<1>1. /\ pc[r] = "install" /\ pc' = [pc EXCEPT ![r] = "reread"]
      /\ keys' = doc[r] /\ doc' = [doc EXCEPT ![r] = {}]
      /\ UNCHANGED <<published, since, token, knew, dropped>>
  BY DEF Install, Goto
<1>2. CacheTyped'
  BY <1>1 DEF CacheTyped
<1>3. (InFlight # {} => since <= FetchTimeout)'
  BY <1>1 DEF InFlight, CacheTyped
<1>4. \A q \in Slots : RequestPart(q)'
  <2> SUFFICES ASSUME NEW q \in Slots PROVE RequestPart(q)'
    OBVIOUS
  <2>1. pc'[q] \in Waiting <=> pc[q] \in Waiting
    BY <1>1 DEF CacheTyped, Waiting
  <2>2. Held(q) => Held(q)'
    BY <1>1 DEF Held, CacheTyped
  <2> QED
    BY <1>1, <2>1, <2>2 DEF RequestPart, CacheTyped
<1> QED
  BY <1>2, <1>3, <1>4

(* The outcome of a fetch that failed, and of the second look.                *)
LEMMA OutcomeKeys ==
    ASSUME KeyInv, NEW r \in Slots, FetchFails(r) \/ Reread(r) PROVE KeyInv'
<1>1. UNCHANGED <<published, keys, since>> /\ pc[r] \in Waiting
  BY DEF FetchFails, Reread, cache, Waiting
<1>2. CASE Verified(r)
  BY <1>1, <1>2, Leaves DEF Verified
<1>3. CASE NoKey(r) /\ (knew[r] => dropped[r])
  BY <1>1, <1>3, Leaves DEF NoKey
<1>4. Verified(r) \/ (NoKey(r) /\ (knew[r] => dropped[r]))
  <2>1. CASE FetchFails(r)
    BY <2>1 DEF FetchFails
  <2>2. CASE Reread(r)
    BY <1>1, <2>2 DEF Reread, KeyInv, RequestPart, Held
  <2> QED
    BY <2>1, <2>2
<1> QED
  BY <1>2, <1>3, <1>4

LEMMA AnswerKeys ==
    ASSUME KeyInv, NEW r \in Slots,
           Recognise(r) \/ Refuse(r) \/ Read(r) \/ Forbidden(r) \/ (\E q \in Routes : Act(r, q))
    PROVE  KeyInv'
<1>1. UNCHANGED <<published, keys, since>>
  BY DEF Recognise, Refuse, Read, Forbidden, Act, cache
<1>2. CASE Recognise(r)
  BY <1>1, <1>2, Leaves DEF Recognise
<1>3. CASE Answer(r)
  BY <1>1, <1>3, Leaves DEF Answer
<1> QED
  BY <1>2, <1>3 DEF Refuse, Read, Forbidden, Act

LEMMA TickKeys == ASSUME KeyInv, Tick PROVE KeyInv'
<1> USE DEF KeyInv
<1>1. /\ InFlight # {} => since < FetchTimeout
      /\ since' = AtMost(since + 1, Hour + 1)
      /\ UNCHANGED <<published, keys, pc, request>>
  BY DEF Tick
<1>2. CacheTyped'
  BY <1>1 DEF CacheTyped, request, AtMost
<1>3. (InFlight # {} => since <= FetchTimeout)'
  BY <1>1 DEF InFlight, CacheTyped, AtMost
<1>4. \A q \in Slots : RequestPart(q)'
  BY <1>1 DEF RequestPart, Held, request
<1> QED
  BY <1>2, <1>3, <1>4

LEMMA RotateKeys == ASSUME KeyInv, Rotate PROVE KeyInv'
<1> USE DEF KeyInv
<1>1. /\ published' \subseteq Kids
      /\ dropped' = [r \in Slots |-> dropped[r] \/ (pc[r] \in Waiting \cup {"unknown"}
                                                      /\ token[r] \notin published')]
      /\ UNCHANGED <<keys, since, pc, token, knew, doc>>
  BY DEF Rotate, Waiting, cache
<1>2. CacheTyped'
  BY <1>1 DEF CacheTyped
<1>3. (InFlight # {} => since <= FetchTimeout)'
  BY <1>1 DEF InFlight
<1>4. \A q \in Slots : RequestPart(q)'
  BY <1>1 DEF RequestPart, Held
<1> QED
  BY <1>2, <1>3, <1>4

-----------------------------------------------------------------------------
LEMMA NextKeys == KeyInv /\ [Next]_vars => KeyInv'
<1> SUFFICES ASSUME KeyInv, [Next]_vars PROVE KeyInv'
  OBVIOUS
<1>1. ASSUME NEW r \in Slots, Handle(r) PROVE KeyInv'
  BY <1>1, RefreshKeys, FetchReadsKeys, InstallKeys, OutcomeKeys, AnswerKeys DEF Handle, Fetched
<1>2. ASSUME NEW r \in Slots, Recognise(r) PROVE KeyInv'
  BY <1>2, AnswerKeys
<1>3. ASSUME NEW r \in Slots, NEW k \in Kids, LookUp(r, k) PROVE KeyInv'
  BY <1>3, LookUpKeys
<1>4. CASE UNCHANGED vars
  BY <1>4 DEF KeyInv, CacheTyped, InFlight, RequestPart, Held, vars, cache, request
<1> QED
  BY <1>1, <1>2, <1>3, <1>4, TickKeys, RotateKeys DEF Next

LEMMA NextLimit == LimitInv /\ [Next]_vars => LimitInv'
<1> SUFFICES ASSUME LimitInv, [Next]_vars PROVE LimitInv'
  OBVIOUS
<1>1. ASSUME NEW r \in Slots, NEW q \in Routes, Act(r, q) PROVE LimitInv'
  BY <1>1, ActLimit
<1>2. CASE UNCHANGED limits
  BY <1>2 DEF LimitInv, LimitTyped, WindowPart, Passed, limits
<1>3. ASSUME NEW r \in Slots,
             \/ Refresh(r) \/ Fetched(r) \/ Install(r) \/ Reread(r) \/ Refuse(r)
             \/ Read(r) \/ Forbidden(r) \/ Recognise(r) \/ (\E k \in Kids : LookUp(r, k))
      PROVE  UNCHANGED limits
  BY <1>3 DEF Refresh, Fetched, FetchReads, FetchFails, Install, Reread, Refuse, Read, Forbidden,
              Recognise, LookUp
<1>4. CASE Rotate \/ UNCHANGED vars
  BY <1>2, <1>4 DEF Rotate, vars, limits
<1> QED
  BY <1>1, <1>2, <1>3, <1>4, TickLimit DEF Next, Handle

(* Requests, cache, windows and histories keep their types; a key set that is *)
(* to be installed is never empty (jwks.go:65-104).                           *)
THEOREM GateTypeCorrect == Spec => []TypeOK
<1>1. KeyInv /\ LimitInv => TypeOK
  BY DEF KeyInv, CacheTyped, LimitInv, LimitTyped, TypeOK
<1> QED
  BY <1>1, InitKeys, NextKeys, InitLimit, NextLimit, PTL DEF Spec

(* For any limit and any length of a minute the window lets through at most   *)
(* twice the limit in a minute (middleware.go:166-176).                       *)
THEOREM TwiceTheLimit == Spec => []RateBound
<1>1. LimitInv => RateBound
  <2> SUFFICES ASSUME LimitInv, NEW q \in Routes PROVE past[q][2 * PerMinute + 1] = Minute
    BY DEF RateBound
  <2>1. Passed(q) <= PerMinute /\ Passed(q) \in Nat
    BY DEF LimitInv, LimitTyped, Passed, AtMost
  <2>2. 2 * PerMinute + 1 \in Back /\ 2 * PerMinute + 1 > Passed(q) + PerMinute
    BY <2>1 DEF Back
  <2> QED
    BY <2>2 DEF LimitInv, WindowPart
<1> QED
  BY <1>1, InitLimit, NextLimit, PTL DEF Spec

(* No request is refused for want of a key that the cache knew and Cloudflare *)
(* still publishes, for any number of requests and keys: a fetch ends before  *)
(* the cache is stale, so whatever is installed while the request waits was   *)
(* read after the request had come (jwks.go:42-63, 95-104).                   *)
THEOREM KnownKeysHonoured == Spec => []KnownKeyHonoured
<1>1. KeyInv => KnownKeyHonoured
  BY DEF KeyInv, RequestPart, KnownKeyHonoured
<1> QED
  BY <1>1, InitKeys, NextKeys, PTL DEF Spec

-----------------------------------------------------------------------------
(* One fetch at a time. *)

(* Which step of a request may be followed by which.                          *)
Follows(s, t) ==
    \/ s = "idle" /\ t \in {"guard", "refresh"}
    \/ s = "refresh" /\ t \in {"reread", "fetch"}
    \/ s = "fetch" /\ t \in {"install", "guard", "idle", "unknown"}
    \/ s = "install" /\ t = "reread"
    \/ s = "reread" /\ t \in {"guard", "idle", "unknown"}
    \/ s \in {"unknown", "guard"} /\ t = "idle"

(* What a step does to a request, as far as fetches go.                       *)
Moved(r) ==
    /\ pc'[r] = pc[r] \/ Follows(pc[r], pc'[r])
    /\ pc[r] = "refresh" /\ pc'[r] = "fetch" => since >= MinRefetch
    /\ pc[r] = "refresh" /\ pc'[r] = "reread" => since < MinRefetch
    /\ pc[r] = "install" /\ pc'[r] = "install" => doc'[r] = doc[r]
    /\ pc[r] = "install" /\ pc'[r] # "install" => keys' = doc[r]
    /\ pc[r] # "install" /\ pc'[r] = "install" => doc'[r] = published

(* Requests move one at a time; keys change in an installation, and the clock *)
(* is set back where a fetch begins.                                          *)
OneMoves(q) ==
    /\ \A r \in Slots : Moved(r)
    /\ \A r \in Slots \ {q} : pc'[r] = pc[r]
    /\ keys' # keys => pc[q] = "install" /\ pc'[q] # "install"
    /\ ~(since' >= since) => pc[q] = "refresh" /\ pc'[q] = "fetch"

LEMMA HandleMoves ==
    ASSUME KeyInv, NEW q \in Slots, Handle(q)
    PROVE  OneMoves(q) /\ Follows(pc[q], pc'[q])
<1> USE DEF KeyInv, CacheTyped, OneMoves, Moved, Follows, Goto, Clear, Answer, cache, request
<1>1. CASE Refresh(q)
  BY <1>1 DEF Refresh
<1>2. CASE FetchReads(q)
  BY <1>2 DEF FetchReads
<1>3. CASE FetchFails(q) \/ Reread(q)
  BY <1>3 DEF FetchFails, Reread, Verified, NoKey
<1>4. CASE Install(q)
  BY <1>4 DEF Install
<1>5. CASE Refuse(q) \/ Read(q) \/ Forbidden(q) \/ (\E route \in Routes : Act(q, route))
  BY <1>5 DEF Refuse, Read, Forbidden, Act
<1> QED
  BY <1>1, <1>2, <1>3, <1>4, <1>5 DEF Handle, Fetched

LEMMA StepMoves == KeyInv /\ [Next]_vars => \E q \in Slots : OneMoves(q)
<1> SUFFICES ASSUME KeyInv, [Next]_vars PROVE \E q \in Slots : OneMoves(q)
  OBVIOUS
<1> USE DEF KeyInv, CacheTyped, OneMoves, Moved, Follows, Goto, cache, request
<1>1. ASSUME NEW q \in Slots, NEW k \in Kids, Recognise(q) \/ LookUp(q, k) PROVE OneMoves(q)
  BY <1>1 DEF Recognise, LookUp, Verified, Clear
<1>2. CASE Tick
  <2>1. since' >= since
    BY <1>2 DEF Tick, AtMost
  <2> QED
    BY <1>2, <2>1 DEF Tick
<1>3. CASE Rotate \/ UNCHANGED vars
  BY <1>3 DEF Rotate, vars
<1>4. ASSUME NEW q \in Slots, Recognise(q) PROVE OneMoves(q)
  BY <1>4 DEF Recognise
<1> QED
  BY <1>1, <1>2, <1>3, <1>4, HandleMoves DEF Next

(* A fetch begins when none can still be under way.                           *)
LEMMA OneStep == KeyInv /\ OneFetch /\ [Next]_vars => OneFetch'
<1> SUFFICES ASSUME KeyInv, OneFetch, [Next]_vars PROVE OneFetch'
  OBVIOUS
<1>1. PICK q \in Slots : OneMoves(q)
  BY StepMoves
<1>2. \A r \in InFlight' : r = q \/ r \in InFlight
  BY <1>1 DEF OneMoves, InFlight
<1>3. q \in InFlight' => q \in InFlight \/ InFlight = {}
  BY <1>1 DEF OneMoves, Moved, Follows, InFlight, KeyInv, CacheTyped
<1> QED
  BY <1>2, <1>3 DEF OneFetch, InFlight

(* However many requests race, one at a time fetches (jwks.go:65-79).         *)
THEOREM FetchAlone == Spec => []OneFetch
<1>1. Init => OneFetch
  BY DEF Init, OneFetch, InFlight
<1> QED
  BY <1>1, OneStep, InitKeys, NextKeys, PTL DEF Spec

-----------------------------------------------------------------------------
(* A key that is published arrives.  Two things the provers cannot supply are *)
(* hypotheses here: that a request is never stuck, a fact about ENABLED that  *)
(* is an invariant of the run, and an instance of the induction on numbers.   *)

(* A clock that is never set back and is set forward again and again passes   *)
(* every bound: true of any number, by induction.                             *)
ClockPasses ==
    ~ (/\ <>[](since < MinRefetch)
       /\ <>[][since' >= since]_since
       /\ []<><<since' # since>>_since)

RequestsGoOn == \A r \in Slots : GoesOn(r)
Running == /\ [][Next]_vars /\ []KeyInv /\ []OneFetch /\ []NeverStuck
           /\ []RequestsGoOn

LEMMA StartsRunning == FairSpec /\ []NeverStuck => Running
<1>1. (\A r \in Slots : GoesOn(r)) => []RequestsGoOn
  <2>1. ASSUME NEW r \in Slots PROVE GoesOn(r) => []GoesOn(r)
    BY PTL DEF GoesOn
  <2>2. (\A r \in Slots : GoesOn(r)) => \A r \in Slots : []GoesOn(r)
    BY <2>1
  <2>3. (\A r \in Slots : []GoesOn(r)) => [](\A r \in Slots : GoesOn(r))
    OBVIOUS
  <2> QED
    BY <2>2, <2>3 DEF RequestsGoOn
<1>2. Spec => []KeyInv /\ []OneFetch
  BY InitKeys, NextKeys, FetchAlone, PTL DEF Spec
<1> QED
  BY <1>1, <1>2, PTL DEF FairSpec, Spec, Running

AnyAt(step) == \E r \in Slots : pc[r] = step

(* Every key set on its way to the cache has key k.                           *)
Clean(k) == \A r \in Slots : pc[r] = "install" => k \in doc[r]

(* A request leaves the step it is at, to one of those that follow.           *)
Passes(r, s) == pc[r] = s ~> Follows(s, pc[r])

LEMMA RequestPasses ==
    ASSUME NEW r \in Slots, NEW s \in {"refresh", "fetch", "install", "reread", "unknown", "guard"}
    PROVE  Running => Passes(r, s)
<1>1. KeyInv /\ pc[r] = s /\ [Next]_vars => (pc[r] = s)' \/ Follows(s, pc[r])'
  BY StepMoves DEF OneMoves, Moved, Follows
<1>2. KeyInv /\ pc[r] = s /\ <<Handle(r)>>_vars => Follows(s, pc[r])'
  BY HandleMoves DEF Follows
<1>3. NeverStuck /\ pc[r] = s => ENABLED <<Handle(r)>>_vars
  BY DEF NeverStuck
<1>4. RequestsGoOn => GoesOn(r)
  BY DEF RequestsGoOn
<1> QED
  BY <1>1, <1>2, <1>3, <1>4, PTL DEF Running, GoesOn, Passes

(* What is on its way lacks key k only if it was read before k was published: *)
(* there is one such key set at most, and it is installed.                    *)
LEMMA StaleInstalled ==
    ASSUME NEW k \in Kids
    PROVE  Running /\ [](k \in published) => <>[]Clean(k)
<1> DEFINE Inv      == KeyInv /\ OneFetch
           Return   == \A r \in Slots : pc[r] = "install" => <>Clean(k)
<1>1. ASSUME NEW r \in Slots, Inv, pc[r] = "install", [Next]_vars, pc'[r] # "install"
      PROVE  Clean(k)'
  <2>1. PICK q \in Slots : OneMoves(q)
    BY <1>1, StepMoves
  <2>2. \A p \in Slots \ {r} : pc'[p] # "install"
    BY <1>1, <2>1 DEF OneMoves, OneFetch, InFlight
  <2> QED
    BY <1>1, <2>2 DEF Clean
<1>2. Inv /\ Clean(k) /\ k \in published /\ [Next]_vars => Clean(k)'
  BY StepMoves DEF OneMoves, Moved, Clean
<1>3. ASSUME NEW r \in Slots PROVE Running => [](pc[r] = "install" => <>Clean(k))
  <2>1. Inv /\ pc[r] = "install" /\ [Next]_vars => (pc[r] = "install")' \/ Clean(k)'
    BY <1>1
  <2>2. ~Follows("install", "install")
    BY DEF Follows
  <2>3. pc[r] = "install" /\ Follows("install", pc[r]) => FALSE
    BY <2>2
  <2>4. Running => Passes(r, "install")
    BY RequestPasses
  <2> QED
    BY <2>1, <2>3, <2>4, PTL DEF Running, Passes
<1>4. Running => []Return
  <2>1. Running => \A r \in Slots : [](pc[r] = "install" => <>Clean(k))
    BY <1>3
  <2>2. (\A r \in Slots : [](pc[r] = "install" => <>Clean(k))) => []Return
    OBVIOUS
  <2> QED
    BY <2>1, <2>2
<1>5. Return => (AnyAt("install") => <>Clean(k))
  BY DEF AnyAt
<1>6. AnyAt("install") \/ Clean(k)
  BY DEF AnyAt, Clean
<1> QED
  BY <1>2, <1>4, <1>5, <1>6, PTL DEF Running

(* Then it is no longer lost.                                                 *)
LEMMA KeyStays ==
    ASSUME NEW k \in Kids
    PROVE  KeyInv /\ Clean(k) /\ k \in keys /\ [Next]_vars => (k \in keys)'
  BY StepMoves DEF OneMoves, Moved, Clean

(* As long as the key stays out: a key set that comes brings it, so none is on *)
(* its way, none is read, and from some time on no fetch begins.               *)
Unseen(k) == Running /\ [](k \in published) /\ []Clean(k) /\ []~(k \in keys)

LEMMA NoneOnItsWay ==
    ASSUME NEW k \in Kids
    PROVE  Unseen(k) => []~AnyAt("install")
<1> DEFINE Return == \A r \in Slots : pc[r] = "install" => <>(k \in keys)
<1>1. ASSUME NEW r \in Slots PROVE Unseen(k) => [](pc[r] = "install" => <>(k \in keys))
  <2>1. KeyInv /\ Clean(k) /\ pc[r] = "install" /\ [Next]_vars
          => (pc[r] = "install")' \/ (k \in keys)'
    BY StepMoves DEF OneMoves, Moved, Clean
  <2>2. pc[r] = "install" /\ Follows("install", pc[r]) => FALSE
    BY DEF Follows
  <2>3. Running => Passes(r, "install")
    BY RequestPasses
  <2> QED
    BY <2>1, <2>2, <2>3, PTL DEF Running, Passes, Unseen
<1>2. Unseen(k) => []Return
  <2>1. Unseen(k) => \A r \in Slots : [](pc[r] = "install" => <>(k \in keys))
    BY <1>1
  <2>2. (\A r \in Slots : [](pc[r] = "install" => <>(k \in keys))) => []Return
    OBVIOUS
  <2> QED
    BY <2>1, <2>2
<1>3. Return => (AnyAt("install") => <>(k \in keys))
  BY DEF AnyAt
<1> QED
  BY <1>2, <1>3, PTL DEF Unseen

LEMMA NoneReads ==
    ASSUME NEW k \in Kids
    PROVE  Unseen(k) /\ FetchesSucceed => <>[]~AnyAt("fetch")
<1>1. NeverStuck /\ AnyAt("fetch") /\ k \in published => ENABLED <<AnyRead>>_vars
  BY DEF NeverStuck, AnyAt
<1>2. KeyInv /\ <<AnyRead>>_vars => AnyAt("install")'
  BY DEF AnyRead, FetchReads, Goto, AnyAt, KeyInv, CacheTyped
<1> QED
  BY <1>1, <1>2, NoneOnItsWay, PTL DEF Unseen, Running, FetchesSucceed

(* Then the clock is not set back, and the next fetch comes due.               *)
LEMMA FetchComesDue ==
    ASSUME NEW k \in Kids
    PROVE  Unseen(k) /\ FetchesSucceed /\ TimePasses /\ ClockPasses => <>[](since >= MinRefetch)
<1>1. KeyInv /\ ~AnyAt("fetch")' /\ [Next]_vars => [since' >= since]_since
  <2> SUFFICES ASSUME KeyInv, ~AnyAt("fetch")', [Next]_vars PROVE since' >= since
    OBVIOUS
  <2> QED
    BY StepMoves DEF OneMoves, AnyAt
<1>2. KeyInv => (since < MinRefetch \/ since >= MinRefetch)
  BY DEF KeyInv, CacheTyped
<1>3. KeyInv /\ KeyInv' /\ since >= MinRefetch /\ [since' >= since]_since => (since >= MinRefetch)'
  BY DEF KeyInv, CacheTyped
<1>4. KeyInv /\ ~AnyAt("fetch") /\ ~AnyAt("install") /\ since < MinRefetch /\ NeverStuck
        => ENABLED <<Tick>>_vars
  BY DEF NeverStuck, InFlight, AnyAt, KeyInv, CacheTyped
<1>5. KeyInv /\ since < MinRefetch /\ <<Tick>>_vars => <<since' # since>>_since
  BY DEF Tick, AtMost, KeyInv, CacheTyped
<1>6. Unseen(k) => []~AnyAt("install")
  BY NoneOnItsWay
<1>7. Unseen(k) /\ FetchesSucceed => <>[]~AnyAt("fetch")
  BY NoneReads
<1> QED
  BY <1>1, <1>2, <1>3, <1>4, <1>5, <1>6, <1>7, PTL DEF Unseen, Running, TimePasses, ClockPasses

(* A request that looks for a fetch when one is due makes it.                  *)
LEMMA DueIsFetched ==
    ASSUME NEW k \in Kids
    PROVE  Unseen(k) /\ [](since >= MinRefetch) => [](AnyAt("refresh") => <>AnyAt("fetch"))
<1> DEFINE Due    == Unseen(k) /\ [](since >= MinRefetch)
           Return == \A r \in Slots : pc[r] = "refresh" => <>AnyAt("fetch")
<1>1. ASSUME NEW r \in Slots PROVE Due => [](pc[r] = "refresh" => <>AnyAt("fetch"))
  <2>1. KeyInv /\ since >= MinRefetch /\ pc[r] = "refresh" /\ [Next]_vars
          => (pc[r] = "refresh")' \/ AnyAt("fetch")'
    BY StepMoves DEF OneMoves, Moved, Follows, AnyAt, KeyInv, CacheTyped
  <2>2. pc[r] = "refresh" /\ Follows("refresh", pc[r]) => FALSE
    BY DEF Follows
  <2>3. Running => Passes(r, "refresh")
    BY RequestPasses
  <2> QED
    BY <2>1, <2>2, <2>3, PTL DEF Running, Passes, Unseen
<1>2. Due => []Return
  <2>1. Due => \A r \in Slots : [](pc[r] = "refresh" => <>AnyAt("fetch"))
    BY <1>1
  <2>2. (\A r \in Slots : [](pc[r] = "refresh" => <>AnyAt("fetch"))) => []Return
    OBVIOUS
  <2> QED
    BY <2>1, <2>2
<1>3. Return => (AnyAt("refresh") => <>AnyAt("fetch"))
  BY DEF AnyAt
<1> QED
  BY <1>2, <1>3, PTL

(* There is again and again a request that can ask for the key.                *)
LEMMA IdleAgain == Running => []<>AnyAt("idle")
<1>1. PICK r \in Slots : TRUE
  OBVIOUS
<1>2. Running => /\ Passes(r, "refresh") /\ Passes(r, "fetch") /\ Passes(r, "install")
                 /\ Passes(r, "reread") /\ Passes(r, "unknown") /\ Passes(r, "guard")
  BY RequestPasses
<1>3. /\ Follows("refresh", pc[r]) => pc[r] = "reread" \/ pc[r] = "fetch"
      /\ Follows("fetch", pc[r])
           => pc[r] = "install" \/ pc[r] = "guard" \/ pc[r] = "unknown" \/ pc[r] = "idle"
      /\ Follows("install", pc[r]) => pc[r] = "reread"
      /\ Follows("reread", pc[r]) => pc[r] = "guard" \/ pc[r] = "unknown" \/ pc[r] = "idle"
      /\ Follows("unknown", pc[r]) => pc[r] = "idle"
      /\ Follows("guard", pc[r]) => pc[r] = "idle"
  BY DEF Follows
<1>4. KeyInv => \/ pc[r] = "idle" \/ pc[r] = "refresh" \/ pc[r] = "fetch" \/ pc[r] = "install"
                \/ pc[r] = "reread" \/ pc[r] = "unknown" \/ pc[r] = "guard"
  BY DEF KeyInv, CacheTyped
<1>5. pc[r] = "idle" => AnyAt("idle")
  BY DEF AnyAt
<1> QED
  BY <1>2, <1>3, <1>4, <1>5, PTL DEF Running, Passes

(* So it does not stay out.                                                    *)
LEMMA KeyComes ==
    ASSUME NEW k \in Kids
    PROVE  /\ Running /\ [](k \in published) /\ []Clean(k)
           /\ TimePasses /\ FetchesSucceed /\ AskedAgain(k) /\ ClockPasses
           => <>(k \in keys)
<1>1. NeverStuck /\ AnyAt("idle") => ENABLED <<Asked(k)>>_vars
  BY DEF NeverStuck, AnyAt
<1>2. KeyInv /\ ~(k \in keys) /\ <<Asked(k)>>_vars => AnyAt("refresh")'
  BY DEF Asked, LookUp, Goto, AnyAt, KeyInv, CacheTyped
<1>3. Unseen(k) /\ FetchesSucceed /\ TimePasses /\ ClockPasses => <>[](since >= MinRefetch)
  BY FetchComesDue
<1>4. Unseen(k) /\ [](since >= MinRefetch) => [](AnyAt("refresh") => <>AnyAt("fetch"))
  BY DueIsFetched
<1>5. Unseen(k) /\ FetchesSucceed => <>[]~AnyAt("fetch")
  BY NoneReads
<1> QED
  BY <1>1, <1>2, <1>3, <1>4, <1>5, IdleAgain, PTL DEF Unseen, Running, AskedAgain

(* A key that stays published stays in the cache from some time on, for any    *)
(* number of requests and keys (jwks.go:42-104): the document that was read    *)
(* too early is put in once and no more; as long as the key is not there,      *)
(* those that ask for it ask for a fetch, the interval cannot be put off, and  *)
(* a fetch that succeeds brings it.                                            *)
THEOREM RotatedKeyComes == FairSpec /\ []NeverStuck /\ []ClockPasses => RotatedKeyArrives
<1> SUFFICES ASSUME NEW k \in Kids
             PROVE  FairSpec /\ []NeverStuck /\ []ClockPasses
                       => (<>[](k \in published) => <>[](k \in keys))
  BY DEF RotatedKeyArrives
<1>1. FairSpec => TimePasses /\ FetchesSucceed /\ AskedAgain(k)
  BY DEF FairSpec
<1>2. Running /\ [](k \in published) => <>[]Clean(k)
  BY StaleInstalled
<1>3. /\ Running /\ [](k \in published) /\ []Clean(k)
      /\ TimePasses /\ FetchesSucceed /\ AskedAgain(k) /\ ClockPasses
      => <>(k \in keys)
  BY KeyComes
<1>4. KeyInv /\ Clean(k) /\ k \in keys /\ [Next]_vars => (k \in keys)'
  BY KeyStays
<1> QED
  BY <1>1, <1>2, <1>3, <1>4, StartsRunning, PTL
     DEF Running, TimePasses, FetchesSucceed, AskedAgain

=============================================================================

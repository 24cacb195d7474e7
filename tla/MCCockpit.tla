----------------------------- MODULE MCCockpit -----------------------------
(* Instances of Cockpit for TLC. *)
EXTENDS Cockpit

S(key, state) == [key |-> key, state |-> state, waiting |-> FALSE, id |-> TRUE, pane |-> FALSE,
                  transcript |-> TRUE, kind |-> "background"]
Bare(key) == [S(key, "idle") EXCEPT !.kind = "interactive", !.id = FALSE]

(* Two blocked sessions change places; one works, one is bare; nobody. *)
MCSnaps == {<< << <<S("a", "blocked")>>, <<S("b", "working")>> >> >>,
            << << <<S("b", "blocked"), S("a", "blocked")>> >> >>,
            << << <<Bare("a")>> >>, << <<S("b", "stopped")>> >> >>,
            <<>>}

MCHits  == [q |-> {"b"}]
MCQueries == {"all", "q"}
MCSizes == {[wide |-> TRUE, body |-> 9], [wide |-> FALSE, body |-> 5]}
=============================================================================

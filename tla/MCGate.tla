------------------------------- MODULE MCGate -------------------------------
(* Instances of Gate for TLC. *)
EXTENDS Gate

MCSlots == {"r1", "r2"}
MCKids  == {"old", "new"}
=============================================================================

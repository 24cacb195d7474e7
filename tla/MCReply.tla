------------------------------ MODULE MCReply ------------------------------
(* Instances of Reply for TLC. *)
EXTENDS Reply

MCLens == {"short", "long"}
=============================================================================

------------------------------ MODULE MCDRLink ------------------------------
(* Instances of DRLink for TLC. *)
EXTENDS DRLink

CONSTANT Equal  \* priority of routers that tie

AllEqual == [r \in Rtr |-> Equal]
=============================================================================

----------------------------- MODULE MCFlooding -----------------------------
(* Instances of Flooding for TLC. *)
EXTENDS Flooding

CONSTANTS n1, n2
=============================================================================

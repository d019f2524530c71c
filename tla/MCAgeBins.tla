------------------------------ MODULE MCAgeBins ------------------------------
(* Instances of AgeBins for TLC. *)
EXTENDS AgeBins
=============================================================================

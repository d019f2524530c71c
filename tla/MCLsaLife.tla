------------------------------ MODULE MCLsaLife ------------------------------
(* Instances of LsaLife for TLC. *)
EXTENDS LsaLife
=============================================================================

------------------------------ MODULE MCTable ------------------------------
(* Instances of Table for TLC. *)
EXTENDS Table
=============================================================================

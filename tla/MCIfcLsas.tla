----------------------------- MODULE MCIfcLsas -----------------------------
(* Instances of IfcLsas for TLC. *)
EXTENDS IfcLsas
=============================================================================

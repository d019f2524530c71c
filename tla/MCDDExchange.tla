---------------------------- MODULE MCDDExchange ----------------------------
(* Instances of DDExchange for TLC. *)
EXTENDS DDExchange

CONSTANTS A, B

\* The first LSA is the master's, the second the slave's.
OwnOne == [r \in Router |-> IF r = Master THEN {1} ELSE {2}]
=============================================================================

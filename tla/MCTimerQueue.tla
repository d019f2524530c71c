---------------------------- MODULE MCTimerQueue ----------------------------
(* Instances of TimerQueue for TLC. *)
EXTENDS TimerQueue, TLC

CONSTANTS a, b, x, y

\* In half seconds: a second more or less 500 ms.
PeriodDef == a :> 2 @@ b :> 3 @@ x :> 1 @@ y :> 3
JitterDef == {-1, 0}
=============================================================================

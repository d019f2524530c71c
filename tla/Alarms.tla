------------------------------- MODULE Alarms -------------------------------
(***************************************************************************)
(* What the timers promise (Timer.h): a set of alarms.  An alarm that is set  *)
(* rings when its time has come and not before, the earliest first, once if  *)
(* it is one of Single and again after each of its periods otherwise; none   *)
(* rings that has been stopped, and none is late when time passes.           *)
(***************************************************************************)
EXTENDS Integers

CONSTANTS
    Single,     \* alarms that ring once
    Repeated,   \* alarms that ring periodically
    Period,     \* Period[a]: the time between two rings of a
    Delays(_),  \* Delays(a): after how long a may ring when it is set
    MaxStep     \* the most that passes at once

CONSTANT None       \* no alarm

VARIABLES
    left,       \* a function: how long until an alarm rings, for those that are set
    ringing     \* the alarm that rings

Set == DOMAIN left

Init == left = <<>> /\ ringing = None

Put(a, d) == left' = [b \in Set \cup {a} |-> IF b = a THEN d ELSE left[b]]

Off(a) == left' = [b \in Set \ {a} |-> left[b]]

Ring(a) ==
    /\ ringing = None /\ ringing' = a
    /\ a \in Set /\ left[a] <= 0
    /\ \A b \in Set : left[a] <= left[b]
    /\ IF a \in Single THEN Off(a) ELSE Put(a, left[a] + Period[a])

Change(a) ==
    /\ \/ a \in Set /\ Off(a)
       \/ \E d \in Delays(a) : Put(a, d)
    /\ UNCHANGED ringing

Answered ==
    /\ ringing # None /\ ringing' = None
    /\ UNCHANGED left

Pass ==
    /\ ringing = None /\ \A a \in Set : left[a] > 0
    /\ \E d \in 1..MaxStep : left' = [a \in Set |-> left[a] - d]
    /\ UNCHANGED ringing

Next ==
    \/ Pass \/ Answered
    \/ \E a \in Single \cup Repeated : Ring(a) \/ Change(a)

Spec == Init /\ [][Next]_<<left, ringing>>
=============================================================================

--------------------------------- MODULE Ages ---------------------------------
(***************************************************************************)
(* What the rest of THospf relies on about the ages of LSAs: each has been    *)
(* received with an age, a number of seconds have passed since, and one that  *)
(* ages never gets past MaxAge without being flooded again at that age.       *)
(***************************************************************************)
EXTENDS Integers

CONSTANTS Lsa, MaxAge, DoNotAge, NoLsa

VARIABLES
    present,    \* the LSAs of the database
    rcvd,       \* rcvd[x]: the age it was received with, 0 if it is absent
    since       \* since[x]: the seconds that passed since then

ageVars == <<present, rcvd, since>>

Ageing(x) == x \in present /\ rcvd[x] \notin {MaxAge, DoNotAge}

AgesInit ==
    /\ present = {}
    /\ rcvd = [x \in Lsa |-> 0]
    /\ since = [x \in Lsa |-> 0]

\* The LSA in y, of age a, is installed in place of x, in the same object or
\* in another; x is NoLsa if it is new.
Install(x, y, a) ==
    /\ x \in present \cup {NoLsa}
    /\ y = x \/ y \notin present
    /\ present' = (present \ {x}) \cup {y}
    /\ rcvd' = [z \in Lsa |-> IF z = y THEN a ELSE IF z = x THEN 0 ELSE rcvd[z]]
    /\ since' = [z \in Lsa |-> IF z \in {x, y} THEN 0 ELSE since[z]]

Remove(x) ==
    /\ x \in present
    /\ present' = present \ {x}
    /\ rcvd' = [rcvd EXCEPT ![x] = 0]
    /\ since' = [since EXCEPT ![x] = 0]

\* A second passes for all of them at once, and not before those that reached
\* MaxAge have been installed again at that age.  For an LSA that does not age
\* the seconds start again after MaxAge.
Second ==
    /\ \A x \in Lsa : Ageing(x) => rcvd[x] + since[x] < MaxAge
    /\ since' = [x \in Lsa |-> IF x \notin present THEN 0
                               ELSE IF since[x] = MaxAge THEN 0 ELSE since[x] + 1]
    /\ UNCHANGED <<present, rcvd>>

AgesNext ==
    \/ \E x \in Lsa \cup {NoLsa}, y \in Lsa, a \in (0..MaxAge) \cup {DoNotAge} :
          Install(x, y, a)
    \/ \E x \in Lsa : Remove(x)
    \/ Second

AgesSpec == AgesInit /\ [][AgesNext]_ageVars

=============================================================================

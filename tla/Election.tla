------------------------------ MODULE Election ------------------------------
(***************************************************************************)
(* The election of the Designated Router and its Backup on one interface        *)
(* (InterfaceFSM.cpp, Interface::ifa_elect), as an operator on what the           *)
(* interface knows.  A router's address stands for its id too, and addresses      *)
(* are ordered as ids are.                                                        *)
(***************************************************************************)
EXTENDS Integers, Sequences, FiniteSets, SequencesExt

CONSTANTS
    Rtr,        \* routers, which are positive numbers
    MaxPri      \* bound of the priorities

ASSUME ElectionAssumption == Rtr \subseteq Nat \ {0} /\ MaxPri \in Nat

UnknownAddr == 0
Addr == Rtr \cup {UnknownAddr}

\* A neighbour: state "2Way" is 2-Way or above, dr and bdr are declared_dr() and
\* declared_bdr(), the comparison of n_dr and n_bdr with its own address.
Nbrs == [state : {"Down", "Init", "2Way"}, prior : 0..MaxPri, dr : BOOLEAN, bdr : BOOLEAN]

Unheard == [state |-> "Down", prior |-> 0, dr |-> FALSE, bdr |-> FALSE]

MULTI == {"Other", "Backup", "DR"}      \* IFS_MULTI

Ifcs == [addr : Rtr, pri : 0..MaxPri, state : MULTI \cup {"Down", "Wait"},
         dr : Addr, bdr : Addr, nbr : [Rtr -> Nbrs]]

-----------------------------------------------------------------------------
(* Candidates: the interface's own address, its neighbours, or none. *)

Eligible(i, n) == n # i.addr /\ i.nbr[n].state = "2Way" /\ i.nbr[n].prior # 0

priority(i, a) ==
    CASE a = UnknownAddr -> 0
      [] a = i.addr -> i.pri
      [] OTHER -> i.nbr[a].prior

DeclaredBdr(i, a) ==
    IF a = i.addr THEN i.bdr = a ELSE a # UnknownAddr /\ i.nbr[a].bdr

Lower(i, a, b) ==
    \/ priority(i, a) < priority(i, b)
    \/ priority(i, a) = priority(i, b) /\ a < b

\* Mutant: the priority decides even if only one of the two declares itself Backup.
ElectBdrByPriority(i, list) ==
    LET Takes(c, n) == Eligible(i, n) /\ ~i.nbr[n].dr /\ ~Lower(i, n, c)
    IN  FoldLeft(LAMBDA c, n : IF Takes(c, n) THEN n ELSE c,
                 IF i.dr # i.addr /\ i.pri # 0 THEN i.addr ELSE UnknownAddr, list)

\* In the loop that elects the Backup, neighbour n takes the place of c, the best so far.
TakesBdr(i, c, n) ==
    /\ Eligible(i, n) /\ ~i.nbr[n].dr
    /\ DeclaredBdr(i, c) => i.nbr[n].bdr
    /\ (DeclaredBdr(i, c) \/ ~i.nbr[n].bdr) => ~Lower(i, n, c)

FirstBdr(i) == IF i.dr # i.addr /\ i.pri # 0 THEN i.addr ELSE UnknownAddr

ElectBdr(i, list) ==
    FoldLeft(LAMBDA c, n : IF TakesBdr(i, c, n) THEN n ELSE c, FirstBdr(i), list)

\* Mutant: without a Designated Router everybody is a candidate for it.
ElectDrAnew(i, list, bdr) ==
    LET Takes(c, n) == Eligible(i, n) /\ ~Lower(i, n, c)
        dr == FoldLeft(LAMBDA c, n : IF i.nbr[n].dr /\ Takes(c, n) THEN n ELSE c,
                 IF i.dr = i.addr /\ i.pri # 0 THEN i.addr ELSE UnknownAddr, list)
    IN  IF dr # UnknownAddr THEN dr
        ELSE FoldLeft(LAMBDA c, n : IF Takes(c, n) THEN n ELSE c,
                      IF i.pri # 0 THEN i.addr ELSE UnknownAddr, list)

\* The same for the Designated Router.
TakesDr(i, c, n) == Eligible(i, n) /\ i.nbr[n].dr /\ ~Lower(i, n, c)

FirstDr(i) == IF i.dr = i.addr /\ i.pri # 0 THEN i.addr ELSE UnknownAddr

DeclaredDr(i, list) ==
    FoldLeft(LAMBDA c, n : IF TakesDr(i, c, n) THEN n ELSE c, FirstDr(i), list)

\* Without a Designated Router the Backup is it.
ElectDr(i, list, bdr) ==
    IF DeclaredDr(i, list) = UnknownAddr THEN bdr ELSE DeclaredDr(i, list)

Pass(i, list) ==
    LET bdr == ElectBdr(i, list)
    IN  [i EXCEPT !.bdr = bdr, !.dr = ElectDr(i, list, bdr)]

\* The router itself has become or ceased to be one of the two.
Again(prev, i) ==
    \/ i.dr # prev.dr /\ i.addr \in {i.dr, prev.dr}
    \/ i.bdr # prev.bdr /\ i.addr \in {i.bdr, prev.bdr}

\* F of x, which is evaluated once however often F refers to it.
Of(F(_), x) == CHOOSE y \in {F(z) : z \in {x}} : TRUE

Role(i) == CASE i.dr = i.addr -> "DR"
             [] i.bdr = i.addr -> "Backup"
             [] OTHER -> "Other"

ifa_elect(i, list) ==
    LET Repeated(once) == IF Again(i, once) THEN Pass(once, list) ELSE once
        Ended(last) == [last EXCEPT !.state = Role(last)]
    IN  Of(Ended, Of(Repeated, Pass(i, list)))

=============================================================================

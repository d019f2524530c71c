-------------------------- MODULE TimerQueueProofs --------------------------
(***************************************************************************)
(* Theorems about the queue of Queue.cpp and about the timers that wait in   *)
(* it.  Every operation of the queue makes a leftist heap of a leftist heap  *)
(* and changes no cost; so, for any timers, periods and bounds, the active   *)
(* timers are in a sound heap, and they are the alarms Alarms describes.     *)
(*                                                                           *)
(* The shape of a heap is a tree whose every subtree is the set of what is   *)
(* in it: the links are followed by following these sets.  A deletion or a   *)
(* merge replaces one subtree by another (Replacement), which spoils the     *)
(* dists above the place only, and adjust repairs them on its way up.        *)
(***************************************************************************)
EXTENDS TimerQueue, FiniteSetTheorems, WellFoundedInduction, TLAPS

-----------------------------------------------------------------------------
(* Finite sets. *)

\* Among sets of parts of a finite set there is a minimal one.
LEMMA MinimalSubset ==
    ASSUME NEW S, IsFiniteSet(S), NEW Bad \in SUBSET (SUBSET S), Bad # {}
    PROVE  \E T \in Bad : \A U \in Bad : U \subseteq T => U = T
<1>1. IsWellFoundedOn(StrictSubsetOrdering(S), SUBSET S)
  BY FS_StrictSubsetOrderingWellFounded, FS_FiniteSubsetsOfFinite
<1>2. \E T \in Bad : \A U \in Bad : ~(<<U, T>> \in StrictSubsetOrdering(S))
  BY <1>1, WFMin
<1>. QED
  BY <1>2 DEF StrictSubsetOrdering

-----------------------------------------------------------------------------
(* Loops. *)

\* Induction on the numbers up to n.
LEMMA UpTo ==
    ASSUME NEW n \in Nat, NEW S, 0 \in S, \A i \in 1..n : i - 1 \in S => i \in S
    PROVE  0..n \subseteq S
<1>. DEFINE Bad == {0..i : i \in (0..n) \ S}
            All == 0..n
<1>. SUFFICES ASSUME Bad # {} PROVE FALSE
  OBVIOUS
<1>1. PICK T \in Bad : \A U \in Bad : U \subseteq T => U = T
  <2>1. IsFiniteSet(All)
    BY FS_Interval
  <2>2. Bad \in SUBSET (SUBSET All)
    OBVIOUS
  <2>. HIDE DEF Bad, All
  <2>. QED
    BY <2>1, <2>2, MinimalSubset
<1>2. PICK i \in (0..n) \ S : T = 0..i
  OBVIOUS
<1>3. i \in 1..n /\ i - 1 \notin S
  BY <1>2
<1>4. 0..(i - 1) \in Bad /\ 0..(i - 1) \subseteq T /\ i \in T /\ i \notin 0..(i - 1)
  BY <1>2, <1>3
<1>. QED
  BY <1>1, <1>4

\* f[i] is what i turns of a loop make of base.
Iterated(f, n, V, base, step) ==
    f \in [0..n -> V] /\ f[0] = base /\ \A i \in 1..n : f[i] = step[f[i - 1]]

\* There is a function that is, at each number up to n, what n turns of a loop make of base.
LEMMA LoopExists ==
    ASSUME NEW n \in Nat, NEW V, NEW base \in V, NEW step \in [V -> V]
    PROVE  \E f : Iterated(f, n, V, base, step)
<1>. DEFINE Loop(f, m) == f \in [0..m -> V] /\ f[0] = base /\ \A i \in 1..m : f[i] = step[f[i - 1]]
            S == {m \in 0..n : \E f : Loop(f, m)}
<1>1. 0 \in S
  <2>1. Loop([i \in 0..0 |-> base], 0)
    OBVIOUS
  <2>. HIDE DEF Loop
  <2>. QED
    BY <2>1
<1>2. ASSUME NEW m \in 1..n, m - 1 \in S
      PROVE  m \in S
  <2>1. PICK f : Loop(f, m - 1)
    BY <1>2
  <2>. DEFINE g == [i \in 0..m |-> IF i = m THEN step[f[m - 1]] ELSE f[i]]
  <2>2. f[m - 1] \in V /\ m - 1 \in 0..(m - 1)
    BY <2>1
  <2>3. g \in [0..m -> V] /\ g[0] = base
    BY <2>1, <2>2
  <2>4. ASSUME NEW i \in 1..m PROVE g[i] = step[g[i - 1]]
    <3>1. g[i - 1] = f[i - 1]
      BY <2>4
    <3>2. CASE i = m
      BY <3>1, <3>2
    <3>3. CASE i # m
      <4>1. i \in 1..(m - 1)
        BY <3>3
      <4>. QED
        BY <2>1, <3>1, <3>3, <4>1
    <3>. QED
      BY <3>2, <3>3
  <2>5. Loop(g, m)
    BY <2>3, <2>4
  <2>. HIDE DEF Loop, g
  <2>6. m \in 0..n /\ \E h : Loop(h, m)
    BY <2>5
  <2>. QED
    BY <2>6
<1>3. n \in S
  <2>. HIDE DEF S
  <2>1. 0..n \subseteq S
    BY <1>1, <1>2, UpTo
  <2>. QED
    BY <2>1
<1>. QED
  BY <1>3 DEF Iterated

-----------------------------------------------------------------------------
(* Trees.  D[e] is the set of what is at e and below it. *)

\* Nothing is below nothing.
Sub(D, k) == IF k = NULL THEN {} ELSE D[k]

\* The elements at e and below are e and two disjoint sets, whose roots know e.
Joint(E, D, e) ==
    LET l == E[e].left
        r == E[e].right
    IN  /\ D[e] = {e} \cup Sub(D, l) \cup Sub(D, r)
        /\ e \notin Sub(D, l) /\ e \notin Sub(D, r)
        /\ Sub(D, l) \cap Sub(D, r) = {}
        /\ l # NULL => E[l].parent = e
        /\ r # NULL => E[r].parent = e

\* The elements T, with r at the top, are linked as a tree.
Tree(E, T, r, D) ==
    /\ IsFiniteSet(T) /\ NULL \notin T
    /\ r \in T /\ D[r] = T
    /\ \A e \in T :
         /\ D[e] \subseteq T
         /\ E[e].left \in T \cup {NULL} /\ E[e].right \in T \cup {NULL}
         /\ Joint(E, D, e)

\* Induction from the leaves: a set that has an element whenever it has its children
\* has all of the tree.
LEMMA FromLeaves ==
    ASSUME NEW E, NEW T, NEW r, NEW D, Tree(E, T, r, D),
           NEW S, \A e \in T : (\A c \in {E[e].left, E[e].right} \ {NULL} : c \in S) => e \in S
    PROVE  T \subseteq S
<1>. DEFINE Bad == {D[e] : e \in T \ S}
<1>. SUFFICES ASSUME Bad # {} PROVE FALSE
  OBVIOUS
<1>1. Bad \in SUBSET (SUBSET T)
  BY DEF Tree
<1>2. PICK U \in Bad : \A W \in Bad : W \subseteq U => W = U
  <2>1. IsFiniteSet(T)
    BY DEF Tree
  <2>. HIDE DEF Bad
  <2>. QED
    BY <1>1, <2>1, MinimalSubset
<1>3. PICK e \in T \ S : U = D[e]
  OBVIOUS
<1>4. PICK c \in {E[e].left, E[e].right} \ {NULL} : c \notin S
  BY <1>3
<1>5. c \in T /\ D[c] \subseteq D[e] /\ e \notin D[c] /\ e \in D[e]
  BY <1>3, <1>4 DEF Tree, Joint, Sub
<1>. QED
  BY <1>2, <1>3, <1>4, <1>5

\* What is below something that is below e is below e,
LEMMA Nested ==
    ASSUME NEW E, NEW T, NEW r, NEW D, Tree(E, T, r, D), NEW e \in T, NEW d \in D[e]
    PROVE  d \in T /\ D[d] \subseteq D[e] /\ d \in D[d]
<1>. DEFINE S == {f \in T : \A g \in D[f] : D[g] \subseteq D[f]}
<1>1. ASSUME NEW f \in T, \A c \in {E[f].left, E[f].right} \ {NULL} : c \in S
      PROVE  f \in S
  BY <1>1 DEF Tree, Joint, Sub
<1>2. T \subseteq S
  <2>. HIDE DEF S
  <2>. QED
    BY <1>1, FromLeaves
<1>. QED
  BY <1>2 DEF Tree, Joint

\* and its parent is, if it is not e itself.
LEMMA Upwards ==
    ASSUME NEW E, NEW T, NEW r, NEW D, Tree(E, T, r, D), NEW e \in T, NEW d \in D[e], d # e
    PROVE  /\ E[d].parent \in D[e]
           /\ d = E[E[d].parent].left \/ d = E[E[d].parent].right
<1>. DEFINE Good(f, g) == /\ E[g].parent \in D[f]
                          /\ g = E[E[g].parent].left \/ g = E[E[g].parent].right
            S == {f \in T : \A g \in D[f] : g # f => Good(f, g)}
<1>1. ASSUME NEW f \in T, \A c \in {E[f].left, E[f].right} \ {NULL} : c \in S
      PROVE  f \in S
  <2>1. f \in D[f] /\ D[f] = {f} \cup Sub(D, E[f].left) \cup Sub(D, E[f].right)
    BY DEF Tree, Joint
  <2>2. ASSUME NEW c \in {E[f].left, E[f].right} \ {NULL}, NEW g \in D[c]
        PROVE  Good(f, g)
    <3>1. D[c] \subseteq D[f] /\ E[c].parent = f
      BY DEF Tree, Joint, Sub
    <3>2. CASE g = c
      BY <2>1, <3>1, <3>2
    <3>3. CASE g # c
      BY <1>1, <2>2, <3>1, <3>3
    <3>. QED
      BY <3>2, <3>3
  <2>3. ASSUME NEW g \in D[f], g # f PROVE Good(f, g)
    <3>. HIDE DEF Good
    <3>1. \E c \in {E[f].left, E[f].right} \ {NULL} : g \in D[c]
      BY <2>1, <2>3 DEF Sub
    <3>. QED
      BY <2>2, <3>1
  <2>. QED
    BY <2>3
<1>2. T \subseteq S
  <2>. HIDE DEF S
  <2>. QED
    BY <1>1, FromLeaves
<1>. QED
  BY <1>2

\* What is below an element is a tree.
LEMMA Subtree ==
    ASSUME NEW E, NEW T, NEW r, NEW D, Tree(E, T, r, D), NEW e \in T
    PROVE  Tree(E, D[e], e, D)
<1>1. D[e] \subseteq T /\ IsFiniteSet(T) /\ NULL \notin T
  BY DEF Tree
<1>2. IsFiniteSet(D[e])
  BY <1>1, FS_Subset
<1>3. ASSUME NEW d \in D[e]
      PROVE  /\ D[d] \subseteq D[e]
             /\ E[d].left \in D[e] \cup {NULL} /\ E[d].right \in D[e] \cup {NULL}
             /\ Joint(E, D, d)
  <2>1. d \in T /\ D[d] \subseteq D[e]
    BY Nested
  <2>2. Joint(E, D, d) /\ \A c \in {E[d].left, E[d].right} \ {NULL} : c \in T /\ c \in D[c]
    <3>1. Joint(E, D, d) /\ \A c \in {E[d].left, E[d].right} \ {NULL} : c \in T
      BY <2>1 DEF Tree
    <3>2. \A c \in T : c \in D[c]
      BY DEF Tree, Joint
    <3>. QED
      BY <3>1, <3>2
  <2>3. \A c \in {E[d].left, E[d].right} \ {NULL} : c \in D[d]
    BY <2>2 DEF Joint, Sub
  <2>. QED
    BY <2>1, <2>2, <2>3
<1>4. e \in D[e]
  BY DEF Tree, Joint
<1>. QED
  BY <1>1, <1>2, <1>3, <1>4 DEF Tree

-----------------------------------------------------------------------------
(* A subtree is replaced by another tree, or by nothing, or put where nothing was. *)

\* From E to F the child x of p is replaced by y.
Replaced(E, F, p, x, y) ==
    \/ F[p].right = y /\ E[p].right = x /\ F[p].left = E[p].left
    \/ F[p].left = y /\ E[p].left = x /\ F[p].right = E[p].right

\* Outside what was at x and below, nothing else changes.
SameLinks(E, F, K, p) ==
    \A e \in K : /\ F[e].parent = E[e].parent
                 /\ e # p => F[e].left = E[e].left /\ F[e].right = E[e].right

\* B is the set of what is at y and below.
Graft(F, B, y, DB, p) ==
    IF y = NULL THEN B = {} ELSE Tree(F, B, y, DB) /\ F[y].parent = p

\* What D becomes when B, as DB has it, comes in the place of what is at x and below.
Grafted(D, T, x, p, B, DB) ==
    [e \in (T \ Sub(D, x)) \cup B |->
       IF e \in B THEN DB[e] ELSE IF p \in D[e] THEN (D[e] \ Sub(D, x)) \cup B ELSE D[e]]

\* What is not above p has nothing to do with what is at x and below.
LEMMA Aside ==
    ASSUME NEW E, NEW T, NEW r, NEW D, Tree(E, T, r, D), NEW p \in T,
           NEW x \in {E[p].left, E[p].right}, NEW e \in T \ Sub(D, x)
    PROVE  /\ p \in D[e] => Sub(D, x) \subseteq D[e]
           /\ p \notin D[e] => D[e] \cap Sub(D, x) = {}
           /\ e # p => \A c \in {E[e].left, E[e].right} \ {NULL} : c \in T \ Sub(D, x)
<1>. DEFINE U == Sub(D, x)
<1>1. U \subseteq D[p] /\ p \notin U /\ p \in D[p] /\ (x # NULL => x \in T /\ E[x].parent = p /\ U = D[x])
  BY DEF Tree, Joint, Sub
<1>2. ASSUME NEW f \in T, f \notin U, NEW c \in {E[f].left, E[f].right} \ {NULL}, c \in U
      PROVE  f = p
  <2>1. x # NULL /\ c \in D[x] /\ x \in T
    BY <1>1, <1>2 DEF Sub
  <2>2. E[c].parent = f
    BY <1>2 DEF Tree, Joint
  <2>3. CASE c = x
    BY <1>1, <2>1, <2>2, <2>3
  <2>4. CASE c # x
    <3>1. E[c].parent \in D[x]
      BY <2>1, <2>4, Upwards
    <3>. QED
      BY <1>1, <1>2, <2>1, <2>2, <3>1
  <2>. QED
    BY <2>3, <2>4
<1>. DEFINE S == {f \in T : D[f] \cap U # {} => f \in U \/ p \in D[f]}
<1>3. ASSUME NEW f \in T, \A c \in {E[f].left, E[f].right} \ {NULL} : c \in S
      PROVE  f \in S
  <2>. SUFFICES ASSUME D[f] \cap U # {}, f \notin U PROVE p \in D[f]
    OBVIOUS
  <2>. HIDE DEF U
  <2>1. f \in D[f] /\ \A c \in {E[f].left, E[f].right} \ {NULL} : D[c] \subseteq D[f]
    BY DEF Tree, Joint, Sub
  <2>2. PICK c \in {E[f].left, E[f].right} \ {NULL} : D[c] \cap U # {}
    BY DEF Tree, Joint, Sub
  <2>3. CASE c \in U
    BY <1>2, <2>1, <2>3
  <2>4. CASE c \notin U
    BY <1>3, <2>1, <2>2, <2>4
  <2>. QED
    BY <2>3, <2>4
<1>4. T \subseteq S
  <2>. HIDE DEF S
  <2>. QED
    BY <1>3, FromLeaves
<1>5. p \in D[e] => U \subseteq D[e]
  BY <1>1, Nested
<1>6. \A c \in {E[e].left, E[e].right} \ {NULL} : c \in T
  BY DEF Tree
<1>. QED
  BY <1>2, <1>4, <1>5, <1>6

\* A tree with another subtree in the place of one of its own is a tree.
LEMMA Replacement ==
    ASSUME NEW E, NEW T, NEW r, NEW D, Tree(E, T, r, D), NEW p \in T, NEW x, NEW y, NEW F,
           Replaced(E, F, p, x, y), SameLinks(E, F, T \ Sub(D, x), p),
           NEW B, NEW DB, Graft(F, B, y, DB, p), B \cap (T \ Sub(D, x)) = {}
    PROVE  Tree(F, (T \ Sub(D, x)) \cup B, r, Grafted(D, T, x, p, B, DB))
<1>. DEFINE U == Sub(D, x)
            K == T \ U
            G == Grafted(D, T, x, p, B, DB)
<1>1. x \in {E[p].left, E[p].right}
  BY DEF Replaced
<1>2. p \in K /\ U \subseteq D[p] /\ U \subseteq T /\ D[p] \subseteq T
  BY <1>1 DEF Tree, Joint, Sub
<1>3. r \in K
  <2>1. r \in T /\ D[r] = T
    BY DEF Tree
  <2>2. ASSUME r \in U PROVE FALSE
    <3>1. x # NULL /\ r \in D[x] /\ x \in T /\ U = D[x]
      BY <1>1, <2>2 DEF Tree, Sub
    <3>2. D[r] \subseteq D[x]
      BY <3>1, Nested
    <3>. QED
      BY <1>2, <2>1, <3>1, <3>2
  <2>. QED
    BY <2>1, <2>2
<1>4. /\ \A e \in B : G[e] = DB[e]
      /\ \A e \in K : p \in D[e] => G[e] = (D[e] \ U) \cup B
      /\ \A e \in K : p \notin D[e] => G[e] = D[e]
  BY DEF Grafted
<1>5. IsFiniteSet(K \cup B) /\ NULL \notin K \cup B
  <2>1. IsFiniteSet(T) /\ NULL \notin T
    BY DEF Tree
  <2>2. IsFiniteSet(B) /\ NULL \notin B
    BY FS_EmptySet DEF Graft, Tree
  <2>3. IsFiniteSet(K)
    BY <2>1, FS_Subset
  <2>. QED
    BY <2>1, <2>2, <2>3, FS_Union
<1>. HIDE DEF G
<1>6. G[r] = K \cup B
  BY <1>2, <1>3, <1>4 DEF Tree
<1>7. ASSUME NEW e \in B
      PROVE  /\ G[e] \subseteq B
             /\ F[e].left \in B \cup {NULL} /\ F[e].right \in B \cup {NULL}
             /\ Joint(F, G, e)
  <2>1. y # NULL /\ Tree(F, B, y, DB) /\ NULL \notin B
    BY <1>5 DEF Graft
  <2>2. /\ DB[e] \subseteq B /\ Joint(F, DB, e)
        /\ F[e].left \in B \cup {NULL} /\ F[e].right \in B \cup {NULL}
    BY <2>1 DEF Tree
  <2>3. G[e] = DB[e] /\ Sub(G, F[e].left) = Sub(DB, F[e].left) /\ Sub(G, F[e].right) = Sub(DB, F[e].right)
    BY <1>4, <2>2 DEF Sub
  <2>. QED
    BY <2>2, <2>3 DEF Joint
<1>8. ASSUME NEW e \in K
      PROVE  /\ e \in T /\ Joint(E, D, e) /\ e \in D[e] /\ D[e] \subseteq T
             /\ E[e].left \in T \cup {NULL} /\ E[e].right \in T \cup {NULL}
             /\ p \in D[e] => U \subseteq D[e]
             /\ p \notin D[e] => D[e] \cap U = {}
             /\ e # p => \A c \in {E[e].left, E[e].right} \ {NULL} : c \in K
  <2>1. e \in T /\ Joint(E, D, e) /\ D[e] \subseteq T /\ E[e].left \in T \cup {NULL} /\ E[e].right \in T \cup {NULL}
    BY DEF Tree
  <2>2. e \in D[e]
    BY <2>1 DEF Joint
  <2>. QED
    BY <1>1, <2>1, <2>2, Aside
<1>9. ASSUME NEW e \in K, e # p
      PROVE  /\ G[e] \subseteq K \cup B
             /\ F[e].left \in K \cup {NULL} /\ F[e].right \in K \cup {NULL}
             /\ Joint(F, G, e)
  <2>. DEFINE a == E[e].left
              b == E[e].right
  <2>1. F[e].left = a /\ F[e].right = b
    BY <1>9 DEF SameLinks
  <2>2. a \in K \cup {NULL} /\ b \in K \cup {NULL}
    BY <1>8, <1>9
  <2>3. /\ D[e] = {e} \cup Sub(D, a) \cup Sub(D, b)
        /\ e \notin Sub(D, a) /\ e \notin Sub(D, b) /\ Sub(D, a) \cap Sub(D, b) = {}
        /\ a # NULL => E[a].parent = e
        /\ b # NULL => E[b].parent = e
    BY <1>8 DEF Joint
  <2>4. /\ a # NULL => F[a].parent = e
        /\ b # NULL => F[b].parent = e
    BY <2>2, <2>3 DEF SameLinks
  <2>5. ASSUME NEW c \in K \cup {NULL}
        PROVE  /\ p \in Sub(D, c) => Sub(G, c) = (Sub(D, c) \ U) \cup B
               /\ p \notin Sub(D, c) => Sub(G, c) = Sub(D, c) /\ Sub(D, c) \cap U = {}
               /\ Sub(D, c) \subseteq T
    BY <1>4, <1>5, <1>8 DEF Sub
  <2>6. G[e] = (IF p \in D[e] THEN (D[e] \ U) \cup B ELSE D[e]) /\ G[e] \subseteq K \cup B
    <3>1. CASE p \in D[e]
      BY <1>4, <1>8, <3>1
    <3>2. CASE p \notin D[e]
      BY <1>4, <1>8, <3>2
    <3>. QED
      BY <3>1, <3>2
  <2>. HIDE DEF a, b
  <2>7. /\ G[e] = {e} \cup Sub(G, a) \cup Sub(G, b)
        /\ e \notin Sub(G, a) /\ e \notin Sub(G, b)
        /\ Sub(G, a) \cap Sub(G, b) = {}
    <3>0. e \notin U /\ e \notin B /\ e # p
      BY <1>9
    <3>. HIDE DEF U, K
    <3>1. CASE p \in Sub(D, a)
      <4>1. p \notin Sub(D, b) /\ p \in D[e]
        BY <2>3, <3>1
      <4>2. Sub(G, a) = (Sub(D, a) \ U) \cup B /\ Sub(G, b) = Sub(D, b) /\ Sub(D, b) \cap U = {}
        BY <2>2, <2>5, <3>1, <4>1
      <4>3. Sub(D, b) \cap B = {}
        BY <2>2, <2>5, <4>2 DEF K, U
      <4>. QED
        BY <2>3, <2>6, <3>0, <4>1, <4>2, <4>3
    <3>2. CASE p \in Sub(D, b)
      <4>1. p \notin Sub(D, a) /\ p \in D[e]
        BY <2>3, <3>2
      <4>2. Sub(G, b) = (Sub(D, b) \ U) \cup B /\ Sub(G, a) = Sub(D, a) /\ Sub(D, a) \cap U = {}
        BY <2>2, <2>5, <3>2, <4>1
      <4>3. Sub(D, a) \cap B = {}
        BY <2>2, <2>5, <4>2 DEF K, U
      <4>. QED
        BY <2>3, <2>6, <3>0, <4>1, <4>2, <4>3
    <3>3. CASE p \notin Sub(D, a) /\ p \notin Sub(D, b)
      <4>1. p \notin D[e]
        BY <2>3, <3>0, <3>3
      <4>2. Sub(G, b) = Sub(D, b) /\ Sub(G, a) = Sub(D, a)
        BY <2>2, <2>5, <3>3
      <4>. QED
        BY <2>3, <2>6, <4>1, <4>2
    <3>. QED
      BY <3>1, <3>2, <3>3
  <2>8. Joint(F, G, e)
    BY <2>1, <2>4, <2>7 DEF Joint
  <2>. QED
    BY <2>1, <2>2, <2>6, <2>8
<1>10. /\ G[p] \subseteq K \cup B
       /\ F[p].left \in K \cup B \cup {NULL} /\ F[p].right \in K \cup B \cup {NULL}
       /\ Joint(F, G, p)
  <2>1. Sub(G, y) = B /\ y \in B \cup {NULL} /\ (y # NULL => F[y].parent = p)
    BY <1>4, <1>5 DEF Graft, Tree, Sub
  <2>2. G[p] = (D[p] \ U) \cup B /\ G[p] \subseteq K \cup B
    BY <1>2, <1>4, <1>8
  <2>3. ASSUME NEW z \in {E[p].left, E[p].right},
               \/ z = E[p].left /\ x = E[p].right
               \/ z = E[p].right /\ x = E[p].left
        PROVE  /\ D[p] = {p} \cup Sub(D, z) \cup U /\ p \notin Sub(D, z) /\ Sub(D, z) \cap U = {}
               /\ z \in K \cup {NULL} /\ Sub(D, z) \subseteq K /\ Sub(G, z) = Sub(D, z)
               /\ z # NULL => F[z].parent = p
    <3>1. /\ D[p] = {p} \cup Sub(D, z) \cup U /\ p \notin Sub(D, z) /\ Sub(D, z) \cap U = {}
          /\ z # NULL => E[z].parent = p
      BY <1>2, <1>8, <2>3 DEF Joint
    <3>2. Sub(D, z) \subseteq K
      BY <1>2, <3>1
    <3>3. z \in K \cup {NULL}
      <4>1. z # NULL => z \in T /\ z \in D[z]
        BY <1>2 DEF Tree, Joint
      <4>. QED
        BY <3>2, <4>1 DEF Sub
    <3>4. Sub(G, z) = Sub(D, z)
      BY <1>4, <3>1, <3>3 DEF Sub
    <3>. QED
      BY <3>1, <3>2, <3>3, <3>4 DEF SameLinks
  <2>. HIDE DEF G, K, U
  <2>4. CASE F[p].right = y /\ E[p].right = x /\ F[p].left = E[p].left
    <3>. DEFINE z == E[p].left
    <3>1. /\ D[p] = {p} \cup Sub(D, z) \cup U /\ p \notin Sub(D, z) /\ Sub(D, z) \cap U = {}
          /\ z \in K \cup {NULL} /\ Sub(D, z) \subseteq K /\ Sub(G, z) = Sub(D, z)
          /\ z # NULL => F[z].parent = p
      BY <2>3, <2>4
    <3>2. p \notin B /\ p \notin U /\ Sub(D, z) \cap B = {}
      BY <1>2, <3>1 DEF K, U
    <3>. HIDE DEF z
    <3>3. G[p] = {p} \cup Sub(G, z) \cup B /\ Sub(G, z) \cap B = {}
      BY <2>2, <3>1, <3>2
    <3>4. Joint(F, G, p)
      BY <2>1, <2>4, <3>1, <3>2, <3>3 DEF Joint, z
    <3>. QED
      BY <2>1, <2>2, <2>4, <3>1, <3>4 DEF z
  <2>5. CASE F[p].left = y /\ E[p].left = x /\ F[p].right = E[p].right
    <3>. DEFINE z == E[p].right
    <3>1. /\ D[p] = {p} \cup Sub(D, z) \cup U /\ p \notin Sub(D, z) /\ Sub(D, z) \cap U = {}
          /\ z \in K \cup {NULL} /\ Sub(D, z) \subseteq K /\ Sub(G, z) = Sub(D, z)
          /\ z # NULL => F[z].parent = p
      BY <2>3, <2>5
    <3>2. p \notin B /\ p \notin U /\ Sub(D, z) \cap B = {}
      BY <1>2, <3>1 DEF K, U
    <3>. HIDE DEF z
    <3>3. G[p] = {p} \cup Sub(G, z) \cup B /\ Sub(G, z) \cap B = {}
      BY <2>2, <3>1, <3>2
    <3>4. Joint(F, G, p)
      BY <2>1, <2>5, <3>1, <3>2, <3>3 DEF Joint, z
    <3>. QED
      BY <2>1, <2>2, <2>5, <3>1, <3>4 DEF z
  <2>. QED
    BY <2>4, <2>5 DEF Replaced
<1>11. ASSUME NEW e \in K \cup B
       PROVE  /\ G[e] \subseteq K \cup B
              /\ F[e].left \in K \cup B \cup {NULL} /\ F[e].right \in K \cup B \cup {NULL}
              /\ Joint(F, G, e)
  <2>. HIDE DEF K
  <2>1. CASE e \in B
    BY <1>7, <2>1
  <2>2. CASE e \in K /\ e # p
    BY <1>9, <2>2
  <2>. QED
    BY <1>10, <2>1, <2>2
<1>. HIDE DEF K
<1>12. Tree(F, K \cup B, r, G)
  BY <1>3, <1>5, <1>6, <1>11 DEF Tree
<1>. QED
  BY <1>12 DEF G, K

-----------------------------------------------------------------------------
(* Heaps. *)

Costs == Int \X Int

\* What the elements X of a queue hold.
Nodes(X) ==
    LET Link == X \cup {NULL}
    IN  [X -> [left : Link, right : Link, parent : Link, dist : Nat, cost : Costs]]

\* What makes a heap of a tree.
Leftist(E, e) ==
    /\ E[e].dist = dist(E, E[e].right) + 1
    /\ dist(E, E[e].left) >= dist(E, E[e].right)

Sorted(E, T) == \A e \in T : \A c \in {E[e].left, E[e].right} \ {NULL} : ~Less(E, c, e)

Heap(E, T, r, D) ==
    Tree(E, T, r, D) /\ Sorted(E, T) /\ (\A e \in T : Leftist(E, e)) /\ E[r].parent = NULL

\* The cost of nothing is changed.
SameCosts(E, F, X) == \A e \in X : F[e].cost = E[e].cost

\* The elements of K are what they were.
Untouched(E, F, K) == \A e \in K : F[e] = E[e]

\* Costs are ordered.
LEMMA CostOrder ==
    ASSUME NEW a \in Costs, NEW b \in Costs, NEW c \in Costs
    PROVE  /\ cmp_cost(a, b) => ~cmp_cost(b, a)
           /\ ~cmp_cost(a, b) /\ ~cmp_cost(b, c) => ~cmp_cost(a, c)
           /\ ~cmp_cost(a, a)
  BY DEF cmp_cost, Costs

\* Whether there is a tree does not depend on the order of children, nor on the parent of
\* the root.
LEMMA TreeDepends ==
    ASSUME NEW E, NEW F, NEW T, NEW r, NEW D, Tree(E, T, r, D),
           \A e \in T : /\ e # r => F[e].parent = E[e].parent
                        /\ \/ F[e].left = E[e].left /\ F[e].right = E[e].right
                           \/ F[e].left = E[e].right /\ F[e].right = E[e].left
    PROVE  Tree(F, T, r, D)
<1>1. ASSUME NEW e \in T
      PROVE  /\ D[e] \subseteq T
             /\ F[e].left \in T \cup {NULL} /\ F[e].right \in T \cup {NULL}
             /\ Joint(F, D, e)
  <2>1. /\ D[e] \subseteq T
        /\ E[e].left \in T \cup {NULL} /\ E[e].right \in T \cup {NULL}
        /\ Joint(E, D, e)
    BY DEF Tree
  <2>2. \A c \in {E[e].left, E[e].right} \ {NULL} : c # r /\ F[c].parent = E[c].parent
    BY <2>1 DEF Joint, Sub, Tree
  <2>3. CASE F[e].left = E[e].left /\ F[e].right = E[e].right
    BY <2>1, <2>2, <2>3 DEF Joint
  <2>4. CASE F[e].left = E[e].right /\ F[e].right = E[e].left
    BY <2>1, <2>2, <2>4 DEF Joint
  <2>. QED
    BY <2>1, <2>3, <2>4
<1>. QED
  BY <1>1 DEF Tree

\* Fixed orders the children of a and changes nothing else but its dist.
LEMMA FixedIs ==
    ASSUME NEW X, NULL \notin X, NEW E \in Nodes(X), NEW a \in X
    PROVE  /\ Fixed(E, a) \in Nodes(X)
           /\ \A e \in X : /\ Fixed(E, a)[e].parent = E[e].parent
                           /\ Fixed(E, a)[e].cost = E[e].cost
                           /\ e # a => Fixed(E, a)[e] = E[e]
           /\ \/ Fixed(E, a)[a].left = E[a].left /\ Fixed(E, a)[a].right = E[a].right
              \/ Fixed(E, a)[a].left = E[a].right /\ Fixed(E, a)[a].right = E[a].left
           /\ Fixed(E, a)[a].dist = dist(E, Fixed(E, a)[a].right) + 1
           /\ dist(E, Fixed(E, a)[a].left) >= dist(E, Fixed(E, a)[a].right)
<1>. DEFINE l == E[a].left
            r == E[a].right
            p == E[a].parent
            k == E[a].dist
            c == E[a].cost
            dl == dist(E, l)
            dr == dist(E, r)
            One == [left : X \cup {NULL}, right : X \cup {NULL}, parent : X \cup {NULL},
                    dist : Nat, cost : Costs]
<1>1. E[a] = [left |-> l, right |-> r, parent |-> p, dist |-> k, cost |-> c]
  BY DEF Nodes
<1>2. l \in X \cup {NULL} /\ r \in X \cup {NULL} /\ p \in X \cup {NULL} /\ c \in Costs
  BY DEF Nodes
<1>3. dl \in Nat /\ dr \in Nat
  BY <1>2 DEF dist, Nodes
<1>4. CASE dl < dr
  <2>. DEFINE d == dl + 1
              n == [left |-> r, right |-> l, parent |-> p, dist |-> d, cost |-> c]
  <2>1. Fixed(E, a) = [E EXCEPT ![a] = n]
    <3>1. n = [E[a] EXCEPT !.left = r, !.right = l, !.dist = d]
      <4>. DEFINE m1 == [E[a] EXCEPT !.left = r]
                  m2 == [m1 EXCEPT !.right = l]
                  m3 == [m2 EXCEPT !.dist = d]
      <4>. HIDE DEF l, r, p, k, c, d
      <4>1. m1 = [left |-> r, right |-> r, parent |-> p, dist |-> k, cost |-> c]
        BY <1>1
      <4>2. m2 = [left |-> r, right |-> l, parent |-> p, dist |-> k, cost |-> c]
        <5>. HIDE DEF m1
        <5>. QED
          BY <4>1
      <4>3. m3 = n
        <5>. HIDE DEF m2
        <5>. QED
          BY <4>2
      <4>4. [E[a] EXCEPT !.left = r, !.right = l, !.dist = d] = m3
        OBVIOUS
      <4>. QED
        BY <4>3, <4>4
    <3>. HIDE DEF n
    <3>. QED
      BY <1>4, <3>1 DEF Fixed
  <2>2. n \in One
    BY <1>2, <1>3
  <2>3. dr >= dl
    BY <1>3, <1>4
  <2>. HIDE DEF dl, dr
  <2>. QED
    BY <2>1, <2>2, <2>3 DEF Nodes, dl, dr
<1>5. CASE ~(dl < dr)
  <2>. DEFINE d == dr + 1
              n == [left |-> l, right |-> r, parent |-> p, dist |-> d, cost |-> c]
  <2>1. Fixed(E, a) = [E EXCEPT ![a] = n]
    <3>1. n = [E[a] EXCEPT !.dist = d]
      <4>. HIDE DEF l, r, p, k, c, d
      <4>. QED
        BY <1>1
    <3>2. Fixed(E, a) = [E EXCEPT ![a] = [E[a] EXCEPT !.dist = dr + 1]]
      BY <1>5 DEF Fixed
    <3>. HIDE DEF n
    <3>. QED
      BY <3>1, <3>2
  <2>2. n \in One
    BY <1>2, <1>3
  <2>3. dl >= dr
    BY <1>3, <1>5
  <2>. HIDE DEF dl, dr
  <2>. QED
    BY <2>1, <2>2, <2>3 DEF Nodes, dl, dr
<1>. QED
  BY <1>4, <1>5

\* The loop of adjust has come to s.a: of the tree T, only s.a may have a wrong dist or its
\* children in the wrong order, or, where the loop does not stop early (cut), what is above it too.
Rising(E, X, T, r, D, cut, s) ==
    /\ s.elt \in Nodes(X) /\ s.a \in T \cup {NULL}
    /\ Tree(s.elt, T, r, D) /\ Sorted(s.elt, T) /\ s.elt[r].parent = NULL
    /\ \A e \in T : ~Leftist(s.elt, e) => s.a # NULL /\ IF cut THEN e = s.a ELSE s.a \in D[e]
    /\ SameCosts(E, s.elt, X)
    /\ Untouched(E, s.elt, X \ T)

\* From s the loop has come to z, where the subtree is larger, or to its end.
RaisedTo(E, X, T, r, D, cut, s, z) ==
    Rising(E, X, T, r, D, cut, z) /\ (z.a # NULL => D[s.a] \subseteq D[z.a] /\ z.a \notin D[s.a])

\* A turn goes on with a larger subtree, or ends the loop.
LEMMA RaisedOnce ==
    ASSUME NEW X, NULL \notin X, NEW T \in SUBSET X, NEW E, NEW r, NEW D, NEW cut \in BOOLEAN, NEW s,
           Rising(E, X, T, r, D, cut, s), s.a # NULL
    PROVE  RaisedTo(E, X, T, r, D, cut, s, Raised(s, cut))
<1>. DEFINE G == s.elt
            a == s.a
            F == Fixed(G, a)
            p == G[a].parent
<1>1. /\ G \in Nodes(X) /\ a \in T /\ Tree(G, T, r, D) /\ Sorted(G, T) /\ G[r].parent = NULL
      /\ \A e \in T : ~Leftist(G, e) => IF cut THEN e = a ELSE a \in D[e]
      /\ SameCosts(E, G, X) /\ Untouched(E, G, X \ T)
  BY DEF Rising
<1>2. /\ F \in Nodes(X)
      /\ \A e \in X : F[e].parent = G[e].parent /\ F[e].cost = G[e].cost /\ (e # a => F[e] = G[e])
      /\ \/ F[a].left = G[a].left /\ F[a].right = G[a].right
         \/ F[a].left = G[a].right /\ F[a].right = G[a].left
      /\ F[a].dist = dist(G, F[a].right) + 1
      /\ dist(G, F[a].left) >= dist(G, F[a].right)
  <2>. HIDE DEF G, a
  <2>. QED
    BY <1>1, FixedIs
<1>3. Raised(s, cut) = [elt |-> F, a |-> IF cut /\ F[a].dist = G[a].dist THEN NULL ELSE p]
  BY DEF Raised
<1>. HIDE DEF G, F, a
<1>4. Tree(F, T, r, D)
  BY <1>1, <1>2, TreeDepends
<1>5. Sorted(F, T)
  BY <1>1, <1>2 DEF Sorted, Less, Tree
<1>6. SameCosts(E, F, X) /\ Untouched(E, F, X \ T) /\ F[r].parent = NULL
  BY <1>1, <1>2 DEF SameCosts, Untouched, Tree
<1>7. Leftist(F, a)
  <2>1. F[a].left # a /\ F[a].right # a /\ F[a].left \in X \cup {NULL} /\ F[a].right \in X \cup {NULL}
    BY <1>1, <1>4 DEF Tree, Joint, Sub
  <2>2. dist(F, F[a].left) = dist(G, F[a].left) /\ dist(F, F[a].right) = dist(G, F[a].right)
    BY <1>2, <2>1 DEF dist
  <2>. QED
    BY <1>2, <2>2 DEF Leftist
<1>8. ASSUME NEW e \in T, e # a, Leftist(G, e), ~Leftist(F, e)
      PROVE  a \in {G[e].left, G[e].right} /\ F[a].dist # G[a].dist
  <2>1. F[e] = G[e] /\ G[e].left \in X \cup {NULL} /\ G[e].right \in X \cup {NULL}
    BY <1>1, <1>2, <1>8 DEF Tree
  <2>2. ASSUME NEW c \in X \cup {NULL}, c # a \/ F[a].dist = G[a].dist
        PROVE  dist(F, c) = dist(G, c)
    BY <1>2, <2>2 DEF dist
  <2>3. ~(dist(F, G[e].left) = dist(G, G[e].left) /\ dist(F, G[e].right) = dist(G, G[e].right))
    BY <1>8, <2>1 DEF Leftist
  <2>. QED
    BY <2>1, <2>2, <2>3
<1>9. a # r => p \in T /\ p \in D[p] /\ a \in D[p] /\ a \in {G[p].left, G[p].right}
  <2>. SUFFICES ASSUME a # r PROVE p \in T /\ p \in D[p] /\ a \in D[p] /\ a \in {G[p].left, G[p].right}
    OBVIOUS
  <2>1. a \in D[r] /\ r \in T /\ D[r] = T
    BY <1>1 DEF Tree
  <2>2. p \in D[r] /\ a \in {G[p].left, G[p].right}
    BY <1>1, <2>1, Upwards
  <2>3. p \in T /\ a # NULL
    BY <1>1, <2>1, <2>2 DEF Tree
  <2>4. p \in D[p] /\ a \in D[a] /\ D[a] \subseteq D[p]
    BY <1>1, <2>2, <2>3 DEF Tree, Joint, Sub
  <2>. QED
    BY <2>2, <2>3, <2>4
<1>10. a = r => p = NULL
  BY <1>1
<1>11. p # NULL => D[a] \subseteq D[p] /\ p \notin D[a]
  <2>. SUFFICES ASSUME p # NULL PROVE D[a] \subseteq D[p] /\ p \notin D[a]
    OBVIOUS
  <2>1. p \in T /\ a \in {G[p].left, G[p].right} /\ a # NULL
    BY <1>1, <1>9, <1>10 DEF Tree
  <2>. QED
    BY <1>1, <2>1 DEF Tree, Joint, Sub
<1>12. ASSUME NEW e \in T, ~Leftist(F, e), ~cut
       PROVE  p # NULL /\ p \in D[e]
  <2>1. e # a
    BY <1>7, <1>12
  <2>2. CASE Leftist(G, e)
    <3>1. a \in {G[e].left, G[e].right} /\ a # NULL /\ e # NULL
      BY <1>1, <1>8, <1>12, <2>1, <2>2 DEF Tree
    <3>2. p = e /\ e \in D[e]
      BY <1>1, <3>1 DEF Tree, Joint
    <3>. QED
      BY <3>1, <3>2
  <2>3. CASE ~Leftist(G, e)
    <3>1. a \in D[e]
      BY <1>1, <1>12, <2>3
    <3>2. p \in D[e]
      BY <1>1, <2>1, <3>1, Upwards
    <3>. QED
      BY <1>1, <3>2 DEF Tree
  <2>. QED
    BY <2>2, <2>3
<1>13. ASSUME NEW e \in T, ~Leftist(F, e), cut
       PROVE  F[a].dist # G[a].dist /\ p # NULL /\ e = p
  <2>1. e # a
    BY <1>7, <1>13
  <2>2. Leftist(G, e)
    BY <1>1, <1>13, <2>1
  <2>3. a \in {G[e].left, G[e].right} /\ a # NULL /\ e # NULL /\ F[a].dist # G[a].dist
    BY <1>1, <1>8, <1>13, <2>1, <2>2 DEF Tree
  <2>4. p = e
    BY <1>1, <2>3 DEF Tree, Joint
  <2>. QED
    BY <2>3, <2>4
<1>14. p \in T \cup {NULL}
  BY <1>9, <1>10
<1>. HIDE DEF p
<1>15. CASE cut /\ F[a].dist = G[a].dist
  <2>1. Raised(s, cut) = [elt |-> F, a |-> NULL]
    BY <1>3, <1>15
  <2>2. \A e \in T : Leftist(F, e)
    BY <1>13, <1>15
  <2>. QED
    BY <1>2, <1>4, <1>5, <1>6, <2>1, <2>2 DEF Rising, RaisedTo
<1>16. CASE ~(cut /\ F[a].dist = G[a].dist)
  <2>1. Raised(s, cut) = [elt |-> F, a |-> p]
    BY <1>3, <1>16
  <2>2. \A e \in T : ~Leftist(F, e) => p # NULL /\ IF cut THEN e = p ELSE p \in D[e]
    BY <1>12, <1>13
  <2>3. Rising(E, X, T, r, D, cut, [elt |-> F, a |-> p])
    BY <1>2, <1>4, <1>5, <1>6, <1>14, <2>2 DEF Rising
  <2>. QED
    BY <1>11, <2>1, <2>3 DEF a, RaisedTo
<1>. QED
  BY <1>15, <1>16

\* A finite set has more elements than a part without one of them.
LEMMA OneMore ==
    ASSUME NEW B, IsFiniteSet(B), NEW A, A \subseteq B, NEW b \in B, b \notin A
    PROVE  Cardinality(A) \in Nat /\ Cardinality(B) \in Nat /\ Cardinality(A) + 1 <= Cardinality(B)
<1>1. IsFiniteSet(A) /\ A \cup {b} \subseteq B
  BY FS_Subset
<1>2. Cardinality(A \cup {b}) = Cardinality(A) + 1
  BY <1>1, FS_AddElement
<1>3. Cardinality(A \cup {b}) <= Cardinality(B)
  BY <1>1, FS_Subset
<1>. QED
  BY <1>1, <1>2, <1>3, FS_CardinalityType

\* adjust makes a heap of such a tree; its loop ends at the root at the latest.
LEMMA AdjustIs ==
    ASSUME NEW X, IsFiniteSet(X), NULL \notin X, NEW T \in SUBSET X, NEW E \in Nodes(X),
           NEW r, NEW D, Tree(E, T, r, D), Sorted(E, T), E[r].parent = NULL,
           NEW a \in T \cup {NULL}, NEW cut \in BOOLEAN,
           \A e \in T : ~Leftist(E, e) => a # NULL /\ IF cut THEN e = a ELSE a \in D[e]
    PROVE  /\ adjust(E, a, cut) \in Nodes(X)
           /\ Heap(adjust(E, a, cut), T, r, D)
           /\ SameCosts(E, adjust(E, a, cut), X)
           /\ Untouched(E, adjust(E, a, cut), X \ T)
<1>. DEFINE N == Cardinality(X)
            V == [elt : Nodes(X), a : X \cup {NULL}]
            base == [elt |-> E, a |-> a]
            step == [s \in V |-> Raised(s, cut)]
            Loop(f) == f = [n \in 0..N |-> IF n = 0 THEN base ELSE Raised(f[n - 1], cut)]
            g == CHOOSE f : Loop(f)
<1>1. Turns(E) = N /\ N \in Nat
  BY FS_CardinalityType DEF Turns, Nodes
<1>2. adjust(E, a, cut) = g[N].elt
  BY <1>1 DEF adjust
<1>3. base \in V /\ step \in [V -> V]
  <2>1. ASSUME NEW s \in V PROVE Raised(s, cut) \in V
    <3>1. CASE s.a = NULL
      BY <3>1 DEF Raised
    <3>2. CASE s.a # NULL
      <4>. DEFINE F == Fixed(s.elt, s.a)
                  b == IF cut /\ F[s.a].dist = s.elt[s.a].dist THEN NULL ELSE s.elt[s.a].parent
      <4>1. F \in Nodes(X)
        BY <3>2, FixedIs
      <4>2. s.elt[s.a].parent \in X \cup {NULL}
        BY <3>2 DEF Nodes
      <4>3. Raised(s, cut) = [elt |-> F, a |-> b]
        BY <3>2 DEF Raised
      <4>. HIDE DEF F
      <4>4. b \in X \cup {NULL}
        BY <4>2
      <4>. HIDE DEF b
      <4>. QED
        BY <4>1, <4>3, <4>4
    <3>. QED
      BY <3>1, <3>2
  <2>. QED
    BY <2>1
<1>4. PICK f : f \in [0..N -> V] /\ f[0] = base /\ \A i \in 1..N : f[i] = step[f[i - 1]]
  <2>1. N \in Nat /\ base \in V /\ step \in [V -> V]
    BY <1>1, <1>3
  <2>. HIDE DEF N, V, base, step
  <2>2. \E f : Iterated(f, N, V, base, step)
    BY <2>1, LoopExists
  <2>. QED
    BY <2>2 DEF Iterated
<1>5. Loop(f)
  <2>. HIDE DEF V, base, N
  <2>1. \A i \in 1..N : i - 1 \in 0..N /\ f[i - 1] \in V
    BY <1>1, <1>4
  <2>2. \A i \in 1..N : f[i] = Raised(f[i - 1], cut)
    BY <1>4, <2>1
  <2>. QED
    BY <1>1, <1>4, <2>2
<1>6. Loop(g)
  <2>. HIDE DEF Loop
  <2>. QED
    BY <1>5
<1>7. g[0] = base /\ \A i \in 1..N : g[i] = Raised(g[i - 1], cut)
  <2>. HIDE DEF g, base, N
  <2>1. \A n \in 0..N : g[n] = IF n = 0 THEN base ELSE Raised(g[n - 1], cut)
    BY <1>6
  <2>2. 0 \in 0..N /\ \A i \in 1..N : i \in 0..N /\ i # 0
    BY <1>1
  <2>. QED
    BY <2>1, <2>2
<1>. DEFINE Ok(n) == /\ Rising(E, X, T, r, D, cut, g[n])
                     /\ g[n].a # NULL => n + 1 <= Cardinality(D[g[n].a])
            S == {n \in 0..N : Ok(n)}
<1>. HIDE DEF g, N
<1>8. IsFiniteSet(T) /\ \A e \in T : e \in D[e] /\ D[e] \subseteq T /\ IsFiniteSet(D[e])
  <2>1. IsFiniteSet(T) /\ \A e \in T : e \in D[e] /\ D[e] \subseteq T
    BY DEF Tree, Joint
  <2>. QED
    BY <2>1, FS_Subset
<1>9. 0 \in S
  <2>1. Rising(E, X, T, r, D, cut, base)
    BY DEF Rising, SameCosts, Untouched
  <2>2. a # NULL => 1 <= Cardinality(D[a])
    <3>1. a # NULL => 0 + 1 <= Cardinality(D[a])
      BY <1>8, OneMore, FS_EmptySet
    <3>. QED
      BY <3>1
  <2>3. g[0].a = a
    BY <1>7
  <2>. HIDE DEF base
  <2>. QED
    BY <1>1, <1>7, <2>1, <2>2, <2>3
<1>10. ASSUME NEW n \in 1..N, n - 1 \in S
       PROVE  n \in S
  <2>. DEFINE s == g[n - 1]
  <2>1. g[n] = Raised(s, cut) /\ Rising(E, X, T, r, D, cut, s)
        /\ (s.a # NULL => n <= Cardinality(D[s.a]))
    BY <1>1, <1>7, <1>10
  <2>. HIDE DEF s
  <2>2. CASE s.a = NULL
    BY <2>1, <2>2 DEF Raised
  <2>3. CASE s.a # NULL
    <3>. DEFINE b == g[n].a
    <3>1. /\ Rising(E, X, T, r, D, cut, g[n])
          /\ b # NULL => D[s.a] \subseteq D[b] /\ b \notin D[s.a]
      <4>1. RaisedTo(E, X, T, r, D, cut, s, Raised(s, cut))
        BY <2>1, <2>3, RaisedOnce
      <4>. QED
        BY <2>1, <4>1 DEF RaisedTo
    <3>2. b \in T \cup {NULL} /\ s.a \in T
      BY <2>1, <2>3, <3>1 DEF Rising
    <3>. HIDE DEF b
    <3>3. b # NULL => /\ Cardinality(D[s.a]) \in Nat /\ Cardinality(D[b]) \in Nat
                      /\ Cardinality(D[s.a]) + 1 <= Cardinality(D[b])
      BY <1>8, <3>1, <3>2, OneMore
    <3>4. b # NULL => n + 1 <= Cardinality(D[b])
      BY <2>1, <2>3, <3>3
    <3>. QED
      BY <1>1, <3>1, <3>4 DEF b
  <2>. QED
    BY <2>2, <2>3
<1>11. Ok(N)
  <2>. HIDE DEF Ok
  <2>1. 0..N \subseteq S
    <3>. HIDE DEF S
    <3>. QED
      BY <1>1, <1>9, <1>10, UpTo
  <2>. QED
    BY <1>1, <2>1
<1>12. g[N].a = NULL
  <2>. DEFINE b == g[N].a
  <2>. SUFFICES ASSUME b # NULL PROVE FALSE
    OBVIOUS
  <2>1. b \in T /\ N + 1 <= Cardinality(D[b])
    BY <1>11 DEF Rising
  <2>2. Cardinality(D[b]) <= Cardinality(X) /\ Cardinality(D[b]) \in Nat
    BY <1>8, <2>1, FS_Subset, FS_CardinalityType
  <2>. QED
    BY <1>1, <2>1, <2>2 DEF N
<1>. QED
  BY <1>2, <1>11, <1>12 DEF Rising, Heap

-----------------------------------------------------------------------------
(* Merge. *)

\* F is E with x as the right child of p.
IsUnder(E, X, p, x, F) ==
    /\ F \in Nodes(X)
    /\ \A e \in X : /\ F[e].left = E[e].left
                    /\ F[e].right = IF e = p THEN x ELSE E[e].right
                    /\ F[e].parent = IF e = x THEN p ELSE E[e].parent
                    /\ F[e].dist = E[e].dist
                    /\ F[e].cost = E[e].cost
                    /\ e \notin {p, x} => F[e] = E[e]

\* That is what Under makes.
LEMMA UnderIs ==
    ASSUME NEW X, NEW E \in Nodes(X), NEW p \in X, NEW x \in X
    PROVE  IsUnder(E, X, p, x, Under(E, p, x))
<1>. DEFINE G == [E EXCEPT ![p].right = x]
            F == [G EXCEPT ![x].parent = p]
            One == [left : X \cup {NULL}, right : X \cup {NULL}, parent : X \cup {NULL},
                    dist : Nat, cost : Costs]
<1>1. /\ G \in Nodes(X)
      /\ \A e \in X : /\ G[e].left = E[e].left
                      /\ G[e].right = IF e = p THEN x ELSE E[e].right
                      /\ G[e].parent = E[e].parent
                      /\ G[e].dist = E[e].dist
                      /\ G[e].cost = E[e].cost
                      /\ e # p => G[e] = E[e]
  <2>. DEFINE n == [E[p] EXCEPT !.right = x]
  <2>1. n \in One /\ n.left = E[p].left /\ n.right = x /\ n.parent = E[p].parent
        /\ n.dist = E[p].dist /\ n.cost = E[p].cost
    BY DEF Nodes
  <2>2. G = [E EXCEPT ![p] = n]
    OBVIOUS
  <2>. HIDE DEF n, G
  <2>. QED
    BY <2>1, <2>2 DEF Nodes
<1>2. /\ F \in Nodes(X)
      /\ \A e \in X : /\ F[e].left = G[e].left
                      /\ F[e].right = G[e].right
                      /\ F[e].parent = IF e = x THEN p ELSE G[e].parent
                      /\ F[e].dist = G[e].dist
                      /\ F[e].cost = G[e].cost
                      /\ e # x => F[e] = G[e]
  <2>. DEFINE n == [G[x] EXCEPT !.parent = p]
  <2>. HIDE DEF G
  <2>1. n \in One /\ n.left = G[x].left /\ n.right = G[x].right /\ n.parent = p
        /\ n.dist = G[x].dist /\ n.cost = G[x].cost
    BY <1>1 DEF Nodes
  <2>2. F = [G EXCEPT ![x] = n]
    OBVIOUS
  <2>. HIDE DEF n, F
  <2>. QED
    BY <1>1, <2>1, <2>2 DEF Nodes
<1>3. Under(E, p, x) = F
  BY DEF Under
<1>. HIDE DEF F, G
<1>4. IsUnder(E, X, p, x, F)
  BY <1>1, <1>2 DEF IsUnder
<1>. QED
  BY <1>3, <1>4

\* What the loop of Merge has before it: the tree of M, with p on its right spine and x at
\* the right of p, and apart from it the tree of W with root y, which belongs under p.  Only
\* what is above p may have a wrong dist.
Sunk(E, X, T, r, s, M, D, W, DW) ==
    /\ s.elt \in Nodes(X)
    /\ M \cup W = T /\ M \cap W = {}
    /\ Tree(s.elt, M, r, D) /\ Sorted(s.elt, M) /\ s.elt[r].parent = NULL
    /\ s.p \in M /\ s.x = s.elt[s.p].right
    /\ Tree(s.elt, W, s.y, DW) /\ Sorted(s.elt, W) /\ (\A e \in W : Leftist(s.elt, e))
    /\ ~Less(s.elt, s.y, s.p)
    /\ \A e \in M : ~Leftist(s.elt, e) => s.p \in D[e]
    /\ SameCosts(E, s.elt, X)
    /\ Untouched(E, s.elt, X \ T)

\* What comes of it when the tree of W takes the place of what is at x and below.
AttachedTo(E, X, T, r, s, M, D, W, DW) ==
    LET U == Sub(D, s.x)
        H == Grafted(D, M, s.x, s.p, W, DW)
        G == Under(s.elt, s.p, s.y)
    IN  /\ G \in Nodes(X)
        /\ Tree(G, (M \ U) \cup W, r, H) /\ Sorted(G, (M \ U) \cup W) /\ G[r].parent = NULL
        /\ \A e \in (M \ U) \cup W : ~Leftist(G, e) => s.p \in H[e] /\ s.y \in H[e]
        /\ \A e \in W : H[e] = DW[e] /\ G[e].left = s.elt[e].left /\ G[e].right = s.elt[e].right
        /\ \A e \in U : G[e] = s.elt[e]
        /\ \A e \in X : G[e].dist = s.elt[e].dist
        /\ SameCosts(E, G, X)
        /\ Untouched(E, G, X \ T)

\* It is a tree again, and what may be wrong in it is above p and y.
LEMMA AttachedIs ==
    ASSUME NEW X, NULL \notin X, NEW T \in SUBSET X, NEW E, NEW r, NEW s, NEW M, NEW D, NEW W, NEW DW,
           Sunk(E, X, T, r, s, M, D, W, DW)
    PROVE  AttachedTo(E, X, T, r, s, M, D, W, DW)
<1>. DEFINE O == s.elt
            p == s.p
            x == s.x
            y == s.y
            U == Sub(D, x)
            K == M \ U
            H == Grafted(D, M, x, p, W, DW)
            G == Under(O, p, y)
<1>1. /\ O \in Nodes(X)
      /\ M \cup W = T /\ M \cap W = {}
      /\ Tree(O, M, r, D) /\ Sorted(O, M) /\ O[r].parent = NULL
      /\ p \in M /\ x = O[p].right
      /\ Tree(O, W, y, DW) /\ Sorted(O, W) /\ (\A e \in W : Leftist(O, e))
      /\ ~Less(O, y, p)
      /\ \A e \in M : ~Leftist(O, e) => p \in D[e]
      /\ SameCosts(E, O, X)
      /\ Untouched(E, O, X \ T)
  BY DEF Sunk
<1>2. y \in W /\ p \in X /\ y \in X /\ y # p /\ y # NULL /\ p # NULL /\ r \in M
  BY <1>1 DEF Tree
<1>. HIDE DEF O, p, x, y
<1>3. /\ G \in Nodes(X)
      /\ \A e \in X : /\ G[e].left = O[e].left
                      /\ G[e].right = IF e = p THEN y ELSE O[e].right
                      /\ G[e].parent = IF e = y THEN p ELSE O[e].parent
                      /\ G[e].dist = O[e].dist
                      /\ G[e].cost = O[e].cost
                      /\ e \notin {p, y} => G[e] = O[e]
  <2>1. IsUnder(O, X, p, y, G)
    BY <1>1, <1>2, UnderIs
  <2>. QED
    BY <2>1 DEF IsUnder
<1>. HIDE DEF G
<1>4. p \notin U /\ U \subseteq M
  BY <1>1 DEF Tree, Joint, Sub
<1>5. Tree(G, W, y, DW)
  <2>1. \A e \in W : (e # y => G[e].parent = O[e].parent) /\ G[e].left = O[e].left /\ G[e].right = O[e].right
    BY <1>1, <1>3
  <2>. QED
    BY <1>1, <2>1, TreeDepends
<1>6. Tree(G, K \cup W, r, H)
  <2>1. Replaced(O, G, p, x, y)
    BY <1>1, <1>2, <1>3 DEF Replaced
  <2>2. SameLinks(O, G, K, p)
    BY <1>1, <1>2, <1>3 DEF SameLinks
  <2>3. Graft(G, W, y, DW, p)
    BY <1>2, <1>3, <1>5 DEF Graft
  <2>4. W \cap K = {}
    BY <1>1
  <2>. QED
    BY <1>1, <2>1, <2>2, <2>3, <2>4, Replacement
<1>7. /\ \A e \in W : H[e] = DW[e]
      /\ \A e \in K : p \in D[e] => H[e] = (D[e] \ U) \cup W
  BY <1>1 DEF Grafted
<1>8. Sorted(G, K \cup W)
  <2>1. ASSUME NEW e \in K \cup W, NEW c \in {G[e].left, G[e].right} \ {NULL}
        PROVE  ~Less(G, c, e)
    <3>1. CASE e = p /\ c = y
      BY <1>1, <1>2, <1>3, <3>1 DEF Less
    <3>2. CASE ~(e = p /\ c = y)
      <4>1. e \in M \cup W /\ e \in X /\ c \in {O[e].left, O[e].right} \ {NULL}
        BY <1>1, <1>2, <1>3, <1>4, <2>1, <3>2
      <4>2. ~Less(O, c, e) /\ c \in M \cup W
        BY <1>1, <4>1 DEF Sorted, Tree
      <4>3. c \in X
        BY <1>1, <4>2
      <4>. QED
        BY <1>3, <4>1, <4>2, <4>3 DEF Less
    <3>. QED
      BY <3>1, <3>2
  <2>. QED
    BY <2>1 DEF Sorted
<1>9. ASSUME NEW c \in X \cup {NULL} PROVE dist(G, c) = dist(O, c)
  BY <1>3 DEF dist
<1>10. ASSUME NEW e \in K \cup W, ~Leftist(G, e)
       PROVE  p \in H[e] /\ y \in H[e]
  <2>1. e \in X /\ O[e].left \in X \cup {NULL} /\ O[e].right \in X \cup {NULL}
    BY <1>1, <1>4 DEF Nodes
  <2>2. CASE e = p
    <3>1. p \in D[p]
      BY <1>1 DEF Tree, Joint
    <3>. QED
      BY <1>1, <1>2, <1>4, <1>7, <2>2, <3>1
  <2>3. CASE e # p
    <3>1. ~Leftist(O, e)
      BY <1>3, <1>9, <1>10, <2>1, <2>3 DEF Leftist
    <3>2. e \in K /\ p \in D[e]
      BY <1>1, <1>10, <3>1
    <3>. QED
      BY <1>2, <1>4, <1>7, <3>2
  <2>. QED
    BY <2>2, <2>3
<1>11. \A e \in U : G[e] = O[e]
  <2>1. \A e \in U : e \notin {p, y} /\ e \in X
    BY <1>1, <1>2, <1>4
  <2>. QED
    BY <1>3, <2>1
<1>12. SameCosts(E, G, X) /\ Untouched(E, G, X \ T) /\ G[r].parent = NULL
  BY <1>1, <1>2, <1>3 DEF SameCosts, Untouched
<1>13. \A e \in W : G[e].left = O[e].left /\ G[e].right = O[e].right
  BY <1>1, <1>2, <1>3
<1>. HIDE DEF U, H
<1>14. /\ G \in Nodes(X)
       /\ Tree(G, K \cup W, r, H) /\ Sorted(G, K \cup W) /\ G[r].parent = NULL
       /\ \A e \in K \cup W : ~Leftist(G, e) => p \in H[e] /\ y \in H[e]
       /\ \A e \in W : H[e] = DW[e] /\ G[e].left = O[e].left /\ G[e].right = O[e].right
       /\ \A e \in U : G[e] = O[e]
       /\ \A e \in X : G[e].dist = O[e].dist
       /\ SameCosts(E, G, X)
       /\ Untouched(E, G, X \ T)
  BY <1>3, <1>6, <1>7, <1>8, <1>10, <1>11, <1>12, <1>13
<1>. QED
  BY <1>14 DEF AttachedTo, O, p, x, y, U, H, G

\* A tree that is not touched stays sorted, with the same dists.
LEMMA SameHeap ==
    ASSUME NEW E, NEW F, NEW T, NEW r, NEW D, Tree(E, T, r, D), \A e \in T : F[e] = E[e]
    PROVE  /\ Tree(F, T, r, D)
           /\ Sorted(E, T) => Sorted(F, T)
           /\ (\A e \in T : Leftist(E, e)) => \A e \in T : Leftist(F, e)
<1>1. Tree(F, T, r, D)
  <2>1. \A e \in T : F[e].parent = E[e].parent /\ F[e].left = E[e].left /\ F[e].right = E[e].right
    OBVIOUS
  <2>. QED
    BY <2>1, TreeDepends
<1>2. ASSUME NEW e \in T
      PROVE  F[e] = E[e] /\ E[e].left \in T \cup {NULL} /\ E[e].right \in T \cup {NULL}
  BY DEF Tree
<1>3. Sorted(E, T) => Sorted(F, T)
  BY <1>2 DEF Sorted, Less
<1>4. \A c \in T \cup {NULL} : dist(F, c) = dist(E, c)
  BY DEF dist
<1>5. (\A e \in T : Leftist(E, e)) => \A e \in T : Leftist(F, e)
  BY <1>2, <1>4 DEF Leftist
<1>. QED
  BY <1>1, <1>3, <1>5

\* The same, with at most k elements in the two trees that are to be merged.
Sinking(E, X, T, r, s, k) ==
    \E M, D, W, DW : /\ Sunk(E, X, T, r, s, M, D, W, DW)
                     /\ Cardinality(Sub(D, s.x) \cup W) <= k

\* A turn leaves one element less.
LEMMA LoweredOnce ==
    ASSUME NEW X, IsFiniteSet(X), NULL \notin X, NEW T \in SUBSET X, NEW E, NEW r, NEW s,
           NEW k \in Nat, Sinking(E, X, T, r, s, k), s.x # NULL
    PROVE  k >= 1 /\ Sinking(E, X, T, r, Lowered(s), k - 1)
<1>1. PICK M, D, W, DW : /\ Sunk(E, X, T, r, s, M, D, W, DW)
                         /\ Cardinality(Sub(D, s.x) \cup W) <= k
  BY DEF Sinking
<1>. DEFINE O == s.elt
            p == s.p
            x == s.x
            y == s.y
            U == Sub(D, x)
            K == M \ U
            H == Grafted(D, M, x, p, W, DW)
            G == Under(O, p, y)
<1>2. /\ O \in Nodes(X)
      /\ M \cup W = T /\ M \cap W = {}
      /\ Tree(O, M, r, D) /\ Sorted(O, M) /\ O[r].parent = NULL
      /\ p \in M /\ x = O[p].right
      /\ Tree(O, W, y, DW) /\ Sorted(O, W) /\ (\A e \in W : Leftist(O, e))
      /\ ~Less(O, y, p)
      /\ \A e \in M : ~Leftist(O, e) => p \in D[e]
      /\ SameCosts(E, O, X)
      /\ Untouched(E, O, X \ T)
  BY <1>1 DEF Sunk
<1>3. /\ G \in Nodes(X)
      /\ Tree(G, K \cup W, r, H) /\ Sorted(G, K \cup W) /\ G[r].parent = NULL
      /\ \A e \in K \cup W : ~Leftist(G, e) => p \in H[e] /\ y \in H[e]
      /\ \A e \in W : H[e] = DW[e] /\ G[e].left = O[e].left /\ G[e].right = O[e].right
      /\ \A e \in U : G[e] = O[e]
      /\ \A e \in X : G[e].dist = O[e].dist
      /\ SameCosts(E, G, X)
      /\ Untouched(E, G, X \ T)
  <2>1. AttachedTo(E, X, T, r, s, M, D, W, DW)
    BY <1>1, AttachedIs
  <2>. QED
    BY <2>1 DEF AttachedTo
<1>4. Cardinality(U \cup W) <= k /\ x # NULL
  BY <1>1
<1>5. /\ Lowered(s) = IF Less(O, y, x)
                      THEN [elt |-> G, p |-> y, x |-> O[y].right, y |-> x]
                      ELSE [elt |-> Under(O, p, x), p |-> x, x |-> O[x].right, y |-> y]
  BY <1>4 DEF Lowered
<1>. HIDE DEF O, p, x, y, G, H
<1>6. /\ x \in M /\ U = D[x] /\ x \in U /\ U \subseteq M /\ p \notin U /\ U \subseteq D[p] /\ O[x].parent = p
      /\ y \in W /\ p \in X /\ x \in X /\ y \in X /\ IsFiniteSet(U \cup W)
  <2>1. x \in M /\ U = D[x] /\ x \in U /\ U \subseteq M /\ p \notin U /\ U \subseteq D[p] /\ O[x].parent = p
    BY <1>2, <1>4 DEF Tree, Joint, Sub
  <2>2. y \in W /\ p \in X /\ x \in X /\ y \in X /\ U \cup W \subseteq X
    BY <1>2, <2>1 DEF Tree
  <2>. QED
    BY <2>1, <2>2, FS_Subset
<1>7. y # x /\ y \notin U /\ x \notin W
  BY <1>2, <1>6
<1>8. ASSUME NEW S, S \subseteq U \cup W, NEW b \in U \cup W, b \notin S
      PROVE  k >= 1 /\ Cardinality(S) <= k - 1
  <2>1. Cardinality(S) \in Nat /\ Cardinality(U \cup W) \in Nat /\ Cardinality(S) + 1 <= Cardinality(U \cup W)
    BY <1>6, <1>8, OneMore
  <2>. QED
    BY <1>4, <2>1
<1>9. CASE Less(O, y, x)
  <2>. DEFINE x2 == O[y].right
              s2 == [elt |-> G, p |-> y, x |-> x2, y |-> x]
  <2>1. K \cup W \cup U = T /\ (K \cup W) \cap U = {}
    BY <1>2, <1>6
  <2>2. Tree(O, U, x, D)
    <3>1. Tree(O, M, r, D) /\ x \in M /\ U = D[x]
      BY <1>2, <1>6
    <3>2. Tree(O, D[x], x, D)
      BY <3>1, Subtree
    <3>. QED
      BY <3>1, <3>2
  <2>3. \A e \in U : Leftist(O, e)
    <3>1. \A e \in U : D[e] \subseteq U
      BY <1>2, <1>6, Nested
    <3>. QED
      BY <1>2, <1>6, <3>1
  <2>4. Sorted(O, U)
    <3>1. Sorted(O, M) /\ U \subseteq M
      BY <1>2, <1>6
    <3>. HIDE DEF U
    <3>. QED
      BY <3>1 DEF Sorted
  <2>5. Tree(G, U, x, D) /\ Sorted(G, U) /\ \A e \in U : Leftist(G, e)
    <3>1. \A e \in U : G[e] = O[e]
      BY <1>3
    <3>. HIDE DEF U
    <3>. QED
      BY <2>2, <2>3, <2>4, <3>1, SameHeap
  <2>6. ~Less(G, x, y)
    <3>1. O[x].cost \in Costs /\ O[y].cost \in Costs
      BY <1>2, <1>6 DEF Nodes
    <3>2. ~Less(O, x, y)
      BY <1>9, <3>1, CostOrder DEF Less
    <3>3. O[x].cost = G[x].cost /\ O[y].cost = G[y].cost
      BY <1>2, <1>3, <1>6 DEF SameCosts
    <3>. QED
      BY <3>2, <3>3 DEF Less
  <2>7. y \in K \cup W /\ x2 = G[y].right
    BY <1>3, <1>6
  <2>8. Sub(H, x2) \subseteq W \ {y} /\ Sub(H, x2) \cup U \subseteq (U \cup W) \ {y}
    <3>1. Sub(DW, x2) \subseteq W /\ y \notin Sub(DW, x2) /\ x2 \in W \cup {NULL}
      BY <1>2, <1>6 DEF Tree, Joint, Sub
    <3>2. Sub(H, x2) = Sub(DW, x2)
      BY <1>3, <3>1 DEF Sub
    <3>. QED
      BY <1>7, <3>1, <3>2
  <2>. HIDE DEF x2, U
  <2>9. Sunk(E, X, T, r, s2, K \cup W, H, U, D)
    <3>. HIDE DEF K
    <3>1. T = (K \cup W) \cup U /\ (K \cup W) \cap U = {}
      BY <2>1
    <3>2. \A e \in K \cup W : ~Leftist(G, e) => y \in H[e]
      BY <1>3
    <3>. DEFINE M2 == K \cup W
    <3>. HIDE DEF M2
    <3>3. /\ G \in Nodes(X) /\ M2 \cup U = T /\ M2 \cap U = {}
          /\ Tree(G, M2, r, H) /\ Sorted(G, M2) /\ G[r].parent = NULL
          /\ y \in M2 /\ x2 = G[y].right
          /\ \A e \in M2 : ~Leftist(G, e) => y \in H[e]
      BY <1>3, <2>7, <3>1, <3>2 DEF M2
    <3>. QED
      BY <1>3, <2>5, <2>6, <3>3 DEF Sunk, M2
  <2>10. k >= 1 /\ Cardinality(Sub(H, x2) \cup U) <= k - 1
    BY <1>6, <1>8, <2>8
  <2>11. Lowered(s) = s2
    BY <1>5, <1>9 DEF x2
  <2>12. s2.x = x2
    OBVIOUS
  <2>. HIDE DEF s2
  <2>13. Sinking(E, X, T, r, s2, k - 1)
    BY <2>9, <2>10, <2>12 DEF Sinking
  <2>. QED
    BY <2>10, <2>11, <2>13
<1>10. CASE ~Less(O, y, x)
  <2>. DEFINE x2 == O[x].right
              s2 == [elt |-> O, p |-> x, x |-> x2, y |-> y]
  <2>1. Under(O, p, x) = O
    <3>1. Under(O, p, x) \in Nodes(X) /\
          \A e \in X : /\ Under(O, p, x)[e].left = O[e].left
                       /\ Under(O, p, x)[e].right = O[e].right
                       /\ Under(O, p, x)[e].parent = O[e].parent
                       /\ Under(O, p, x)[e].dist = O[e].dist
                       /\ Under(O, p, x)[e].cost = O[e].cost
      <4>1. IsUnder(O, X, p, x, Under(O, p, x))
        <5>1. O \in Nodes(X) /\ p \in X /\ x \in X
          BY <1>2, <1>6
        <5>. QED
          BY <5>1, UnderIs
      <4>. QED
        BY <1>2, <1>6, <4>1 DEF IsUnder
    <3>. DEFINE A == Under(O, p, x)
    <3>. HIDE DEF A
    <3>2. ASSUME NEW e \in X PROVE A[e] = O[e]
      <4>1. /\ A[e] = [left |-> A[e].left, right |-> A[e].right, parent |-> A[e].parent,
                       dist |-> A[e].dist, cost |-> A[e].cost]
            /\ O[e] = [left |-> O[e].left, right |-> O[e].right, parent |-> O[e].parent,
                       dist |-> O[e].dist, cost |-> O[e].cost]
        BY <1>2, <3>1 DEF A, Nodes
      <4>. QED
        BY <3>1, <4>1 DEF A
    <3>3. A = O
      BY <1>2, <3>1, <3>2 DEF A, Nodes
    <3>. QED
      BY <3>3 DEF A
  <2>2. x \in D[x] /\ D[x] \subseteq D[p]
    BY <1>6
  <2>3. \A e \in M : ~Leftist(O, e) => x \in D[e]
    <3>1. \A e \in M : p \in D[e] => D[p] \subseteq D[e]
      BY <1>2, Nested
    <3>. QED
      BY <1>2, <2>2, <3>1
  <2>4. Sub(D, x2) \subseteq U \ {x}
    BY <1>2, <1>6 DEF Tree, Joint, Sub
  <2>. HIDE DEF x2, U
  <2>5. Sunk(E, X, T, r, s2, M, D, W, DW)
    <3>1. x2 = O[x].right
      BY DEF x2
    <3>. QED
      BY <1>2, <1>6, <1>10, <2>3, <3>1 DEF Sunk
  <2>6. k >= 1 /\ Cardinality(Sub(D, x2) \cup W) <= k - 1
    <3>1. Sub(D, x2) \cup W \subseteq U \cup W /\ x \in U \cup W /\ x \notin Sub(D, x2) \cup W
      BY <1>6, <1>7, <2>4
    <3>. QED
      BY <1>8, <3>1
  <2>7. Lowered(s) = s2
    BY <1>5, <1>10, <2>1 DEF x2
  <2>8. s2.x = x2
    OBVIOUS
  <2>. HIDE DEF s2
  <2>9. Sinking(E, X, T, r, s2, k - 1)
    BY <2>5, <2>6, <2>8 DEF Sinking
  <2>. QED
    BY <2>6, <2>7, <2>9
<1>. QED
  BY <1>9, <1>10

\* Merge makes one heap of two: y is put in the heap of r, whose root comes first.
LEMMA MergeIs ==
    ASSUME NEW X, IsFiniteSet(X), NULL \notin X, NEW A \in SUBSET X, NEW B \in SUBSET X, A \cap B = {},
           NEW E \in Nodes(X), NEW r, NEW D, Heap(E, A, r, D),
           NEW y, NEW DB, Tree(E, B, y, DB), Sorted(E, B), \A e \in B : Leftist(E, e),
           ~Less(E, y, r)
    PROVE  /\ Merge(E, r, y) \in Nodes(X)
           /\ \E H : Heap(Merge(E, r, y), A \cup B, r, H)
           /\ SameCosts(E, Merge(E, r, y), X)
           /\ Untouched(E, Merge(E, r, y), X \ (A \cup B))
<1>. DEFINE N == Cardinality(X)
            T == A \cup B
            V == [elt : Nodes(X), p : X, x : X \cup {NULL}, y : X]
            base == [elt |-> E, p |-> r, x |-> E[r].right, y |-> y]
            step == [s \in V |-> Lowered(s)]
            Loop(f) == f = [n \in 0..N |-> IF n = 0 THEN base ELSE Lowered(f[n - 1])]
            g == CHOOSE f : Loop(f)
            last == g[N]
<1>1. Turns(E) = N /\ N \in Nat
  BY FS_CardinalityType DEF Turns, Nodes
<1>2. Merge(E, r, y) = adjust(Under(last.elt, last.p, last.y), last.p, FALSE)
  BY <1>1 DEF Merge
<1>3. base \in V /\ step \in [V -> V]
  <2>1. ASSUME NEW s \in V PROVE Lowered(s) \in V
    <3>1. CASE s.x = NULL
      BY <3>1 DEF Lowered
    <3>2. CASE s.x # NULL
      <4>1. s.x \in X /\ s.y \in X /\ s.p \in X /\ s.elt \in Nodes(X)
        BY <3>2
      <4>2. Under(s.elt, s.p, s.y) \in Nodes(X) /\ Under(s.elt, s.p, s.x) \in Nodes(X)
        BY <4>1, UnderIs DEF IsUnder
      <4>3. s.elt[s.y].right \in X \cup {NULL} /\ s.elt[s.x].right \in X \cup {NULL}
        BY <4>1 DEF Nodes
      <4>. QED
        BY <3>2, <4>1, <4>2, <4>3 DEF Lowered
    <3>. QED
      BY <3>1, <3>2
  <2>2. r \in X /\ y \in X /\ E[r].right \in X \cup {NULL}
    BY DEF Heap, Tree, Nodes
  <2>. QED
    BY <2>1, <2>2
<1>4. PICK f : f \in [0..N -> V] /\ f[0] = base /\ \A i \in 1..N : f[i] = step[f[i - 1]]
  <2>1. N \in Nat /\ base \in V /\ step \in [V -> V]
    BY <1>1, <1>3
  <2>. HIDE DEF N, V, base, step
  <2>2. \E f : Iterated(f, N, V, base, step)
    BY <2>1, LoopExists
  <2>. QED
    BY <2>2 DEF Iterated
<1>5. Loop(f)
  <2>. HIDE DEF V, base, N
  <2>1. \A i \in 1..N : i - 1 \in 0..N /\ f[i - 1] \in V
    BY <1>1, <1>4
  <2>2. \A i \in 1..N : f[i] = Lowered(f[i - 1])
    BY <1>4, <2>1
  <2>. QED
    BY <1>1, <1>4, <2>2
<1>6. Loop(g)
  <2>. HIDE DEF Loop
  <2>. QED
    BY <1>5
<1>7. g[0] = base /\ \A i \in 1..N : g[i] = Lowered(g[i - 1])
  <2>. HIDE DEF g, base, N
  <2>1. \A n \in 0..N : g[n] = IF n = 0 THEN base ELSE Lowered(g[n - 1])
    BY <1>6
  <2>2. 0 \in 0..N /\ \A i \in 1..N : i \in 0..N /\ i # 0
    BY <1>1
  <2>. QED
    BY <2>1, <2>2
<1>. DEFINE Ok(n) == \E k \in Nat : Sinking(E, X, T, r, g[n], k) /\ (g[n].x # NULL => k + n <= N)
            S == {n \in 0..N : Ok(n)}
<1>. HIDE DEF g, last, N
<1>8. 0 \in S
  <2>1. ~Less(E, y, r) /\ Tree(E, A, r, D) /\ Sorted(E, A) /\ E[r].parent = NULL /\ \A e \in A : Leftist(E, e)
    BY DEF Heap
  <2>2. r \in A /\ SameCosts(E, E, X) /\ Untouched(E, E, X \ T)
    BY <2>1 DEF Tree, SameCosts, Untouched
  <2>3. Sunk(E, X, T, r, base, A, D, B, DB)
    BY <2>1, <2>2 DEF Sunk
  <2>4. Cardinality(Sub(D, E[r].right) \cup B) <= N
    <3>1. Sub(D, E[r].right) \cup B \subseteq X
      BY <2>1 DEF Tree, Sub
    <3>. QED
      BY <3>1, FS_Subset, FS_CardinalityType DEF N
  <2>5. base.x = E[r].right
    OBVIOUS
  <2>. HIDE DEF base, T
  <2>6. Sinking(E, X, T, r, g[0], N)
    BY <1>7, <2>3, <2>4, <2>5 DEF Sinking
  <2>. QED
    BY <1>1, <2>6
<1>. HIDE DEF base
<1>9. ASSUME NEW n \in 1..N, n - 1 \in S
      PROVE  n \in S
  <2>. DEFINE s == g[n - 1]
  <2>1. PICK k \in Nat : Sinking(E, X, T, r, s, k) /\ (s.x # NULL => k + (n - 1) <= N)
    BY <1>9
  <2>2. g[n] = Lowered(s) /\ n \in 0..N
    BY <1>1, <1>7
  <2>. HIDE DEF s, T
  <2>3. CASE s.x = NULL
    <3>1. g[n] = s
      BY <2>2, <2>3 DEF Lowered
    <3>. QED
      BY <2>1, <2>2, <2>3, <3>1
  <2>4. CASE s.x # NULL
    <3>1. k >= 1 /\ Sinking(E, X, T, r, Lowered(s), k - 1)
      BY <2>1, <2>4, LoweredOnce DEF T
    <3>2. k - 1 \in Nat /\ (k - 1) + n <= N
      BY <1>1, <2>1, <2>4, <3>1
    <3>. QED
      BY <2>2, <3>1, <3>2
  <2>. QED
    BY <2>3, <2>4
<1>10. PICK k \in Nat : Sinking(E, X, T, r, last, k) /\ (last.x # NULL => k + N <= N)
  <2>1. 0..N \subseteq S
    <3>. HIDE DEF S
    <3>. QED
      BY <1>1, <1>8, <1>9, UpTo
  <2>2. N \in S
    <3>. HIDE DEF S
    <3>. QED
      BY <1>1, <2>1
  <2>. HIDE DEF T
  <2>. QED
    BY <2>2 DEF last
<1>11. last.x = NULL
  <2>. SUFFICES ASSUME last.x # NULL PROVE FALSE
    OBVIOUS
  <2>. HIDE DEF T
  <2>1. k >= 1
    BY <1>10, LoweredOnce DEF T
  <2>. QED
    BY <1>1, <1>10, <2>1
<1>12. PICK M, DM, W, DW : Sunk(E, X, T, r, last, M, DM, W, DW)
  BY <1>10 DEF Sinking
<1>. DEFINE G == Under(last.elt, last.p, last.y)
            H == Grafted(DM, M, last.x, last.p, W, DW)
<1>13. /\ G \in Nodes(X)
       /\ Tree(G, T, r, H) /\ Sorted(G, T) /\ G[r].parent = NULL
       /\ \A e \in T : ~Leftist(G, e) => last.p \in H[e]
       /\ SameCosts(E, G, X)
       /\ Untouched(E, G, X \ T)
       /\ last.p \in T /\ last.p # NULL
  <2>. DEFINE U == Sub(DM, last.x)
  <2>1. U = {}
    BY <1>11 DEF Sub
  <2>2. M \cup W = T /\ last.p \in M
    BY <1>12 DEF Sunk
  <2>3. (M \ U) \cup W = T
    BY <2>1, <2>2
  <2>4. /\ G \in Nodes(X)
        /\ Tree(G, (M \ U) \cup W, r, H) /\ Sorted(G, (M \ U) \cup W) /\ G[r].parent = NULL
        /\ \A e \in (M \ U) \cup W : ~Leftist(G, e) => last.p \in H[e] /\ last.y \in H[e]
        /\ SameCosts(E, G, X)
        /\ Untouched(E, G, X \ T)
    <3>1. T \in SUBSET X
      OBVIOUS
    <3>. HIDE DEF T
    <3>2. AttachedTo(E, X, T, r, last, M, DM, W, DW)
      BY <1>12, <3>1, AttachedIs
    <3>. QED
      BY <3>2 DEF AttachedTo
  <2>. HIDE DEF U, G, H
  <2>. QED
    BY <2>2, <2>3, <2>4
<1>. DEFINE F == adjust(G, last.p, FALSE)
<1>. HIDE DEF G, H
<1>14. /\ F \in Nodes(X) /\ Heap(F, T, r, H)
       /\ SameCosts(G, F, X) /\ Untouched(G, F, X \ T)
  <2>1. T \in SUBSET X /\ last.p \in T \cup {NULL} /\ FALSE \in BOOLEAN
    BY <1>13
  <2>2. \A e \in T : ~Leftist(G, e) => last.p # NULL /\ IF FALSE THEN e = last.p ELSE last.p \in H[e]
    BY <1>13
  <2>. HIDE DEF T
  <2>. QED
    BY <1>13, <2>1, <2>2, AdjustIs
<1>15. SameCosts(E, F, X) /\ Untouched(E, F, X \ T)
  BY <1>13, <1>14 DEF SameCosts, Untouched
<1>16. Merge(E, r, y) = F
  BY <1>2 DEF G
<1>. HIDE DEF F
<1>. QED
  BY <1>14, <1>15, <1>16

-----------------------------------------------------------------------------
(* combine. *)

\* The links of T make a leftist heap with root r, whatever the parent of r is.
HeapAt(E, T, r) ==
    IF r = NULL THEN T = {}
    ELSE \E D : Tree(E, T, r, D) /\ Sorted(E, T) /\ \A e \in T : Leftist(E, e)

\* F is E with p as the parent of x.
IsAdopted(E, X, x, p, F) ==
    /\ F \in Nodes(X)
    /\ \A e \in X : /\ F[e].left = E[e].left /\ F[e].right = E[e].right
                    /\ F[e].parent = IF e = x THEN p ELSE E[e].parent
                    /\ F[e].dist = E[e].dist /\ F[e].cost = E[e].cost
                    /\ e # x => F[e] = E[e]

\* That is what Adopt makes.
LEMMA AdoptIs ==
    ASSUME NEW X, NULL \notin X, NEW E \in Nodes(X), NEW x \in X \cup {NULL}, NEW p \in X \cup {NULL}
    PROVE  IsAdopted(E, X, x, p, Adopt(E, x, p))
<1>1. CASE x = NULL
  BY <1>1 DEF Adopt, IsAdopted
<1>2. CASE x # NULL
  <2>. DEFINE n == [E[x] EXCEPT !.parent = p]
              F == [E EXCEPT ![x] = n]
              One == [left : X \cup {NULL}, right : X \cup {NULL}, parent : X \cup {NULL},
                      dist : Nat, cost : Costs]
  <2>1. x \in X
    BY <1>2
  <2>2. n \in One /\ n.left = E[x].left /\ n.right = E[x].right /\ n.parent = p
        /\ n.dist = E[x].dist /\ n.cost = E[x].cost
    BY <2>1 DEF Nodes
  <2>3. Adopt(E, x, p) = F
    BY <1>2 DEF Adopt
  <2>. HIDE DEF n
  <2>4. IsAdopted(E, X, x, p, F)
    BY <2>1, <2>2 DEF Nodes, IsAdopted
  <2>. QED
    BY <2>3, <2>4
<1>. QED
  BY <1>1, <1>2

\* A root that gets another parent is the root of the same heap,
LEMMA AdoptedRoot ==
    ASSUME NEW X, NULL \notin X, NEW T \in SUBSET X, NEW E, NEW F, NEW x, NEW p,
           IsAdopted(E, X, x, p, F), HeapAt(E, T, x)
    PROVE  HeapAt(F, T, x)
<1>1. CASE x = NULL
  BY <1>1 DEF HeapAt
<1>2. CASE x # NULL
  <2>1. PICK D : Tree(E, T, x, D) /\ Sorted(E, T) /\ \A e \in T : Leftist(E, e)
    BY <1>2 DEF HeapAt
  <2>2. \A e \in T : /\ e # x => F[e].parent = E[e].parent
                     /\ F[e].left = E[e].left /\ F[e].right = E[e].right
                     /\ F[e].dist = E[e].dist /\ F[e].cost = E[e].cost
    BY DEF IsAdopted
  <2>3. Tree(F, T, x, D)
    BY <2>1, <2>2, TreeDepends
  <2>4. \A e \in T : E[e].left \in T \cup {NULL} /\ E[e].right \in T \cup {NULL}
    BY <2>1 DEF Tree
  <2>5. Sorted(F, T)
    BY <2>1, <2>2, <2>4 DEF Sorted, Less
  <2>6. \A c \in T \cup {NULL} : dist(F, c) = dist(E, c)
    BY <2>2 DEF dist
  <2>7. \A e \in T : Leftist(F, e)
    BY <2>1, <2>2, <2>4, <2>6 DEF Leftist
  <2>. QED
    BY <1>2, <2>3, <2>5, <2>7 DEF HeapAt
<1>. QED
  BY <1>1, <1>2

\* and other heaps do not notice.
LEMMA SameHeapAt ==
    ASSUME NEW T, NEW E, NEW F, NEW x, \A e \in T : F[e] = E[e], HeapAt(E, T, x)
    PROVE  HeapAt(F, T, x)
<1>1. CASE x = NULL
  BY <1>1 DEF HeapAt
<1>2. CASE x # NULL
  <2>1. PICK D : Tree(E, T, x, D) /\ Sorted(E, T) /\ \A e \in T : Leftist(E, e)
    BY <1>2 DEF HeapAt
  <2>2. Tree(F, T, x, D) /\ Sorted(F, T) /\ \A e \in T : Leftist(F, e)
    BY <2>1, SameHeap
  <2>. QED
    BY <1>2, <2>2 DEF HeapAt
<1>. QED
  BY <1>1, <1>2

\* q is one queue of the heaps of r and s, whose elements are A and B.
IsCombined(E, X, A, B, r, s, q) ==
    /\ q = [root |-> q.root, elt |-> q.elt]
    /\ q.elt \in Nodes(X) /\ q.root \in {r, s}
    /\ HeapAt(q.elt, A \cup B, q.root)
    /\ q.root # NULL => q.elt[q.root].parent = NULL
    /\ SameCosts(E, q.elt, X)
    /\ Untouched(E, q.elt, X \ (A \cup B))

\* That is what combine makes.
LEMMA CombineIs ==
    ASSUME NEW X, IsFiniteSet(X), NULL \notin X, NEW A \in SUBSET X, NEW B \in SUBSET X, A \cap B = {},
           NEW E \in Nodes(X), NEW r \in X \cup {NULL}, NEW s \in X \cup {NULL},
           HeapAt(E, A, r), HeapAt(E, B, s)
    PROVE  IsCombined(E, X, A, B, r, s, combine(E, r, s))
<1>1. CASE NULL \in {r, s}
  <2>. DEFINE root == IF s = NULL THEN r ELSE s
              F == Adopt(E, root, NULL)
  <2>1. combine(E, r, s) = [root |-> root, elt |-> F]
    BY <1>1 DEF combine
  <2>2. HeapAt(E, A \cup B, root)
    BY <1>1 DEF HeapAt
  <2>3. root \in X \cup {NULL} /\ root \in {r, s} /\ (root # NULL => root \in A \cup B)
    BY <2>2 DEF HeapAt, Tree
  <2>. HIDE DEF root
  <2>4. IsAdopted(E, X, root, NULL, F)
    BY <2>3, AdoptIs
  <2>. HIDE DEF F
  <2>5. HeapAt(F, A \cup B, root)
    BY <2>2, <2>4, AdoptedRoot
  <2>6. SameCosts(E, F, X) /\ Untouched(E, F, X \ (A \cup B)) /\ F \in Nodes(X)
        /\ (root # NULL => F[root].parent = NULL)
    BY <2>3, <2>4 DEF IsAdopted, SameCosts, Untouched
  <2>. QED
    BY <2>1, <2>3, <2>5, <2>6 DEF IsCombined
<1>2. CASE NULL \notin {r, s}
  <2>. DEFINE first == IF Less(E, s, r) THEN s ELSE r
              other == IF first = s THEN r ELSE s
              F == Adopt(E, first, NULL)
              G == Merge(F, first, other)
  <2>1. combine(E, r, s) = [root |-> first, elt |-> G]
    BY <1>2 DEF combine
  <2>2. r \in A /\ s \in B /\ r # s /\ r \in X /\ s \in X
    BY <1>2 DEF HeapAt, Tree
  <2>3. E[r].cost \in Costs /\ E[s].cost \in Costs
    BY <2>2 DEF Nodes
  <2>4. PICK A1 \in {A, B}, B1 \in {A, B} :
           /\ A1 \cup B1 = A \cup B /\ A1 \cap B1 = {}
           /\ HeapAt(E, A1, first) /\ HeapAt(E, B1, other)
           /\ first \in A1 /\ other \in B1 /\ first \in {r, s} /\ ~Less(E, other, first)
    <3>1. CASE Less(E, s, r)
      <4>1. ~Less(E, r, s)
        BY <2>3, <3>1, CostOrder DEF Less
      <4>. QED
        BY <2>2, <3>1, <4>1
    <3>2. CASE ~Less(E, s, r)
      BY <2>2, <3>2
    <3>. QED
      BY <3>1, <3>2
  <2>5. first \in X /\ other \in X /\ first # NULL /\ other # NULL /\ A1 \in SUBSET X /\ B1 \in SUBSET X
    BY <1>2, <2>2, <2>4
  <2>. HIDE DEF first, other
  <2>6. IsAdopted(E, X, first, NULL, F)
    BY <2>5, AdoptIs
  <2>. HIDE DEF F
  <2>7. HeapAt(F, A1, first)
    BY <2>4, <2>5, <2>6, AdoptedRoot
  <2>8. HeapAt(F, B1, other)
    <3>1. \A e \in B1 : F[e] = E[e]
      BY <2>4, <2>5, <2>6 DEF IsAdopted
    <3>. QED
      BY <2>4, <3>1, SameHeapAt
  <2>9. F \in Nodes(X) /\ F[first].parent = NULL /\ SameCosts(E, F, X) /\ Untouched(E, F, X \ (A \cup B))
    BY <2>4, <2>5, <2>6 DEF IsAdopted, SameCosts, Untouched
  <2>10. ~Less(F, other, first)
    BY <2>4, <2>5, <2>9 DEF Less, SameCosts
  <2>11. PICK D : Heap(F, A1, first, D)
    BY <2>5, <2>7, <2>9 DEF HeapAt, Heap
  <2>12. PICK DB : Tree(F, B1, other, DB) /\ Sorted(F, B1) /\ \A e \in B1 : Leftist(F, e)
    BY <2>5, <2>8 DEF HeapAt
  <2>13. /\ G \in Nodes(X)
         /\ \E H : Heap(G, A1 \cup B1, first, H)
         /\ SameCosts(F, G, X)
         /\ Untouched(F, G, X \ (A1 \cup B1))
    BY <2>4, <2>5, <2>9, <2>10, <2>11, <2>12, MergeIs
  <2>. HIDE DEF G
  <2>14. HeapAt(G, A \cup B, first) /\ G[first].parent = NULL
    BY <2>4, <2>5, <2>13 DEF Heap, HeapAt
  <2>15. SameCosts(E, G, X) /\ Untouched(E, G, X \ (A \cup B))
    BY <2>4, <2>9, <2>13 DEF SameCosts, Untouched
  <2>. QED
    BY <2>1, <2>4, <2>13, <2>14, <2>15 DEF IsCombined
<1>. QED
  BY <1>1, <1>2

-----------------------------------------------------------------------------
(* The operations. *)

\* q is a queue of the elements X.
IsQueue(q, X) ==
    /\ IsFiniteSet(X) /\ NULL \notin X
    /\ q = [root |-> q.root, elt |-> q.elt]
    /\ q.elt \in Nodes(X)
    /\ HeapAt(q.elt, X, q.root)
    /\ q.root # NULL => q.elt[q.root].parent = NULL

\* The elements of X have their costs in q and in z.
KeepsCosts(q, z, X) == \A x \in X : z.elt[x].cost = q.elt[x].cost

\* The root of a queue is in it, unless it is empty.
LEMMA RootOf ==
    ASSUME NEW q, NEW X, IsQueue(q, X)
    PROVE  /\ q.root \in X \cup {NULL} /\ (q.root = NULL <=> X = {})
           /\ DOMAIN q.elt = X
  BY DEF IsQueue, HeapAt, Tree, Nodes

\* A queue starts empty.
LEMMA EmptyQueue == IsQueue(Empty, {})
<1>1. <<>> \in Nodes({})
  BY DEF Nodes
<1>. QED
  BY <1>1, FS_EmptySet DEF IsQueue, Empty, HeapAt

\* Of a heap without e, what Without leaves out.
LEMMA WithoutIs ==
    ASSUME NEW X, IsFiniteSet(X), NULL \notin X, NEW e \in X, NEW root, NEW E \in Nodes(X),
           HeapAt(E, X \ {e}, root), root # NULL => E[root].parent = NULL
    PROVE  /\ IsQueue(Without([root |-> root, elt |-> E], e), X \ {e})
           /\ KeepsCosts([root |-> root, elt |-> E], Without([root |-> root, elt |-> E], e), X \ {e})
<1>. DEFINE Y == X \ {e}
            F == [x \in Y |-> E[x]]
<1>1. Without([root |-> root, elt |-> E], e) = [root |-> root, elt |-> F]
  <2>1. Elements([root |-> root, elt |-> E]) = X
    BY DEF Elements, Nodes
  <2>. QED
    BY <2>1 DEF Without
<1>2. HeapAt(F, Y, root)
  <2>1. \A x \in Y : F[x] = E[x]
    OBVIOUS
  <2>. HIDE DEF F, Y
  <2>2. HeapAt(E, Y, root)
    BY DEF Y
  <2>. QED
    BY <2>1, <2>2, SameHeapAt
<1>3. ASSUME NEW x \in Y
      PROVE  F[x] \in [left : Y \cup {NULL}, right : Y \cup {NULL}, parent : Y \cup {NULL}, dist : Nat, cost : Costs]
  <2>1. root # NULL
    BY <1>3 DEF HeapAt
  <2>2. PICK D : Tree(E, Y, root, D)
    BY <2>1 DEF HeapAt
  <2>3. E[x].left \in Y \cup {NULL} /\ E[x].right \in Y \cup {NULL} /\ root \in Y /\ D[root] = Y
    BY <1>3, <2>2 DEF Tree
  <2>4. E[x].parent \in Y \cup {NULL}
    <3>1. CASE x = root
      BY <2>1, <3>1
    <3>2. CASE x # root
      <4>. HIDE DEF Y
      <4>1. x \in D[root]
        BY <1>3, <2>3
      <4>. QED
        BY <2>2, <2>3, <3>2, <4>1, Upwards
    <3>. QED
      BY <3>1, <3>2
  <2>. QED
    BY <1>3, <2>3, <2>4 DEF Nodes
<1>4. F \in Nodes(Y)
  BY <1>3 DEF Nodes
<1>5. IsFiniteSet(Y) /\ NULL \notin Y
  BY FS_Subset
<1>6. root # NULL => F[root].parent = NULL
  <2>1. root # NULL => root \in Y
    BY DEF HeapAt, Tree
  <2>. QED
    BY <2>1
<1>. DEFINE q == [root |-> root, elt |-> E]
            z == [root |-> root, elt |-> F]
<1>7. IsQueue(z, Y)
  <2>. HIDE DEF F, Y
  <2>. QED
    BY <1>2, <1>4, <1>5, <1>6 DEF IsQueue
<1>8. KeepsCosts(q, z, Y)
  BY DEF KeepsCosts
<1>. HIDE DEF q, z
<1>. QED
  BY <1>1, <1>7, <1>8 DEF q, z

\* add puts e in the queue with its cost.
LEMMA AddIs ==
    ASSUME NEW X, NEW q, IsQueue(q, X), NEW e, e \notin X, e # NULL, NEW cost \in Costs
    PROVE  /\ IsQueue(add(q, e, cost), X \cup {e})
           /\ KeepsCosts(q, add(q, e, cost), X)
           /\ add(q, e, cost).elt[e].cost = cost
<1>. DEFINE Y == X \cup {e}
            new == [left |-> NULL, right |-> NULL, parent |-> NULL, dist |-> 1, cost |-> cost]
            E == [x \in Y |-> IF x = e THEN new ELSE q.elt[x]]
            z == combine(E, q.root, e)
<1>1. /\ IsFiniteSet(X) /\ NULL \notin X /\ q.elt \in Nodes(X) /\ HeapAt(q.elt, X, q.root)
      /\ q.root \in X \cup {NULL} /\ DOMAIN q.elt = X
  BY RootOf DEF IsQueue
<1>2. add(q, e, cost) = z
  BY <1>1 DEF add, Elements
<1>3. IsFiniteSet(Y) /\ NULL \notin Y
  BY <1>1, FS_AddElement
<1>4. E \in Nodes(Y)
  <2>1. new \in [left : Y \cup {NULL}, right : Y \cup {NULL}, parent : Y \cup {NULL}, dist : Nat, cost : Costs]
    OBVIOUS
  <2>2. \A x \in X : q.elt[x] \in [left : Y \cup {NULL}, right : Y \cup {NULL}, parent : Y \cup {NULL}, dist : Nat, cost : Costs]
    BY <1>1 DEF Nodes
  <2>. HIDE DEF new
  <2>. QED
    BY <2>1, <2>2 DEF Nodes
<1>5. HeapAt(E, X, q.root)
  <2>1. \A x \in X : E[x] = q.elt[x]
    OBVIOUS
  <2>. HIDE DEF E
  <2>. QED
    BY <1>1, <2>1, SameHeapAt
<1>6. HeapAt(E, {e}, e)
  <2>. DEFINE D == [x \in {e} |-> {e}]
  <2>1. E[e] = new /\ E[e].left = NULL /\ E[e].right = NULL /\ E[e].dist = 1
    OBVIOUS
  <2>2. D[e] = {e} /\ IsFiniteSet({e})
    BY FS_Singleton
  <2>. HIDE DEF D, E
  <2>3. Tree(E, {e}, e, D)
    BY <2>1, <2>2 DEF Tree, Joint, Sub
  <2>4. Sorted(E, {e}) /\ \A x \in {e} : Leftist(E, x)
    BY <2>1 DEF Sorted, Leftist, dist
  <2>. QED
    BY <2>3, <2>4 DEF HeapAt
<1>7. IsCombined(E, Y, X, {e}, q.root, e, z)
  <2>1. X \in SUBSET Y /\ {e} \in SUBSET Y /\ X \cap {e} = {} /\ q.root \in Y \cup {NULL} /\ e \in Y \cup {NULL}
    BY <1>1
  <2>. HIDE DEF Y, E
  <2>. QED
    BY <1>3, <1>4, <1>5, <1>6, <2>1, CombineIs
<1>. HIDE DEF z
<1>8. IsQueue(z, Y)
  BY <1>3, <1>7 DEF IsCombined, IsQueue
<1>9. KeepsCosts(q, z, X) /\ z.elt[e].cost = cost
  <2>1. \A x \in Y : z.elt[x].cost = E[x].cost
    BY <1>7 DEF IsCombined, SameCosts
  <2>2. E[e].cost = cost /\ \A x \in X : E[x].cost = q.elt[x].cost
    OBVIOUS
  <2>. QED
    BY <2>1, <2>2 DEF KeepsCosts
<1>. QED
  BY <1>2, <1>8, <1>9

\* rmhead takes out the root.
LEMMA RmheadIs ==
    ASSUME NEW X, NEW q, IsQueue(q, X), q.root # NULL
    PROVE  /\ IsQueue(rmhead(q), X \ {q.root})
           /\ KeepsCosts(q, rmhead(q), X \ {q.root})
<1>. DEFINE E == q.elt
            t == q.root
            l == E[t].left
            r == E[t].right
            z == combine(E, l, r)
<1>1. IsFiniteSet(X) /\ NULL \notin X /\ E \in Nodes(X) /\ t \in X
  BY RootOf DEF IsQueue
<1>2. PICK D : Tree(E, X, t, D) /\ Sorted(E, X) /\ \A e \in X : Leftist(E, e)
  BY DEF IsQueue, HeapAt
<1>. DEFINE A == Sub(D, l)
            B == Sub(D, r)
<1>3. /\ A \in SUBSET X /\ B \in SUBSET X /\ A \cap B = {} /\ A \cup B = X \ {t}
      /\ l \in X \cup {NULL} /\ r \in X \cup {NULL}
  <2>1. t \in X /\ D[t] = X /\ Joint(E, D, t) /\ l \in X \cup {NULL} /\ r \in X \cup {NULL}
        /\ \A e \in X : D[e] \subseteq X
    BY <1>2 DEF Tree
  <2>2. D[t] = {t} \cup A \cup B /\ t \notin A /\ t \notin B /\ A \cap B = {}
    BY <2>1 DEF Joint
  <2>3. A \in SUBSET X /\ B \in SUBSET X
    BY <2>1 DEF Sub
  <2>. HIDE DEF A, B, l, r, t
  <2>. QED
    BY <2>1, <2>2, <2>3
<1>4. HeapAt(E, A, l) /\ HeapAt(E, B, r)
  <2>1. ASSUME NEW c \in X \cup {NULL} PROVE HeapAt(E, Sub(D, c), c)
    <3>1. CASE c = NULL
      BY <3>1 DEF HeapAt, Sub
    <3>2. CASE c # NULL
      <4>1. Tree(E, D[c], c, D) /\ D[c] \subseteq X
        <5>1. c \in X /\ Tree(E, X, t, D) /\ D[c] \subseteq X
          BY <1>2, <3>2 DEF Tree
        <5>. HIDE DEF E, t
        <5>. QED
          BY <5>1, Subtree
      <4>2. Sorted(E, D[c]) /\ \A e \in D[c] : Leftist(E, e)
        BY <1>2, <4>1 DEF Sorted
      <4>. QED
        BY <3>2, <4>1, <4>2 DEF HeapAt, Sub
    <3>. QED
      BY <3>1, <3>2
  <2>. QED
    BY <1>3, <2>1
<1>5. rmhead(q) = Without(z, t)
  BY DEF rmhead
<1>. HIDE DEF A, B, E, t, l, r
<1>6. IsCombined(E, X, A, B, l, r, z)
  BY <1>1, <1>3, <1>4, CombineIs
<1>. HIDE DEF z
<1>7. /\ z = [root |-> z.root, elt |-> z.elt]
      /\ z.elt \in Nodes(X) /\ HeapAt(z.elt, X \ {t}, z.root)
      /\ z.root # NULL => z.elt[z.root].parent = NULL
      /\ SameCosts(E, z.elt, X)
  BY <1>3, <1>6 DEF IsCombined
<1>8. IsQueue(Without(z, t), X \ {t}) /\ KeepsCosts(z, Without(z, t), X \ {t})
  <2>. DEFINE root == z.root
              F == z.elt
  <2>1. /\ IsQueue(Without([root |-> root, elt |-> F], t), X \ {t})
        /\ KeepsCosts([root |-> root, elt |-> F], Without([root |-> root, elt |-> F], t), X \ {t})
    BY <1>1, <1>7, WithoutIs
  <2>. QED
    BY <1>7, <2>1
<1>9. KeepsCosts(q, Without(z, t), X \ {t})
  BY <1>7, <1>8 DEF KeepsCosts, SameCosts, E
<1>. QED
  BY <1>5, <1>8, <1>9 DEF t

\* F is E with y in the place of e among the children of p.
IsSlotted(E, X, p, e, y, F) ==
    /\ F \in Nodes(X)
    /\ \/ E[p].right = e /\ F[p].right = y /\ F[p].left = E[p].left
       \/ E[p].left = e /\ F[p].left = y /\ F[p].right = E[p].right
    /\ \A x \in X : /\ x # p => F[x] = E[x]
                    /\ F[x].parent = E[x].parent /\ F[x].dist = E[x].dist /\ F[x].cost = E[x].cost

\* That is what del makes of the parent of what it takes out.
LEMMA SlottedIs ==
    ASSUME NEW X, NEW E \in Nodes(X), NEW p \in X, NEW e \in {E[p].left, E[p].right},
           NEW y \in X \cup {NULL}
    PROVE  IsSlotted(E, X, p, e, y, IF E[p].right = e THEN [E EXCEPT ![p].right = y]
                                    ELSE [E EXCEPT ![p].left = y])
<1>. DEFINE One == [left : X \cup {NULL}, right : X \cup {NULL}, parent : X \cup {NULL},
                    dist : Nat, cost : Costs]
<1>1. CASE E[p].right = e
  <2>. DEFINE n == [E[p] EXCEPT !.right = y]
              F == [E EXCEPT ![p] = n]
  <2>1. n \in One /\ n.left = E[p].left /\ n.right = y /\ n.parent = E[p].parent
        /\ n.dist = E[p].dist /\ n.cost = E[p].cost
    BY DEF Nodes
  <2>2. [E EXCEPT ![p].right = y] = F
    OBVIOUS
  <2>. HIDE DEF n
  <2>3. IsSlotted(E, X, p, e, y, F)
    BY <1>1, <2>1 DEF Nodes, IsSlotted
  <2>. HIDE DEF F
  <2>. QED
    BY <1>1, <2>2, <2>3
<1>2. CASE E[p].right # e
  <2>. DEFINE n == [E[p] EXCEPT !.left = y]
              F == [E EXCEPT ![p] = n]
  <2>1. n \in One /\ n.left = y /\ n.right = E[p].right /\ n.parent = E[p].parent
        /\ n.dist = E[p].dist /\ n.cost = E[p].cost
    BY DEF Nodes
  <2>2. [E EXCEPT ![p].left = y] = F
    OBVIOUS
  <2>. HIDE DEF n
  <2>3. IsSlotted(E, X, p, e, y, F)
    BY <1>2, <2>1 DEF Nodes, IsSlotted
  <2>. HIDE DEF F
  <2>. QED
    BY <1>2, <2>2, <2>3
<1>. QED
  BY <1>1, <1>2

\* What is below an element is a heap.
LEMMA SubHeap ==
    ASSUME NEW E, NEW X, NEW t, NEW D, Tree(E, X, t, D), Sorted(E, X), \A x \in X : Leftist(E, x),
           NEW c \in X \cup {NULL}
    PROVE  HeapAt(E, Sub(D, c), c)
<1>1. CASE c = NULL
  BY <1>1 DEF HeapAt, Sub
<1>2. CASE c # NULL
  <2>1. Tree(E, D[c], c, D) /\ D[c] \subseteq X
    BY <1>2, Subtree DEF Tree
  <2>2. Sorted(E, D[c]) /\ \A x \in D[c] : Leftist(E, x)
    BY <2>1 DEF Sorted
  <2>. QED
    BY <1>2, <2>1, <2>2 DEF HeapAt, Sub
<1>. QED
  BY <1>1, <1>2

\* del takes e out, wherever it is.
LEMMA DelIs ==
    ASSUME NEW X, NEW q, IsQueue(q, X), NEW e \in X
    PROVE  /\ IsQueue(del(q, e), X \ {e})
           /\ KeepsCosts(q, del(q, e), X \ {e})
<1>. DEFINE O == q.elt
            t == q.root
            p == O[e].parent
            l == O[e].left
            r == O[e].right
            rest == combine(O, r, l)
            y == rest.root
            E == Adopt(rest.elt, y, p)
            F == IF p = NULL THEN E
                 ELSE IF E[p].right = e THEN [E EXCEPT ![p].right = y]
                 ELSE [E EXCEPT ![p].left = y]
            root == IF p = NULL THEN y ELSE t
            G == adjust(F, p, TRUE)
<1>1. del(q, e) = Without([root |-> root, elt |-> G], e)
  BY DEF del
<1>2. IsFiniteSet(X) /\ NULL \notin X /\ O \in Nodes(X) /\ t \in X /\ O[t].parent = NULL /\ e # NULL
  BY RootOf DEF IsQueue
<1>3. PICK D : Tree(O, X, t, D) /\ Sorted(O, X) /\ \A x \in X : Leftist(O, x)
  <2>1. t # NULL
    BY <1>2
  <2>. QED
    BY <2>1 DEF IsQueue, HeapAt
<1>. DEFINE A == Sub(D, r)
            B == Sub(D, l)
            U == D[e]
            K == X \ U
            W == A \cup B
<1>4. /\ l \in X \cup {NULL} /\ r \in X \cup {NULL} /\ p \in X \cup {NULL}
      /\ A \in SUBSET X /\ B \in SUBSET X /\ A \cap B = {} /\ W = U \ {e}
      /\ e \in U /\ U \subseteq X
  <2>1. U \subseteq X /\ Joint(O, D, e) /\ l \in X \cup {NULL} /\ r \in X \cup {NULL}
        /\ \A x \in X : D[x] \subseteq X
    BY <1>3 DEF Tree
  <2>2. U = {e} \cup A \cup B /\ e \notin A /\ e \notin B /\ A \cap B = {}
    BY <2>1 DEF Joint
  <2>3. A \in SUBSET X /\ B \in SUBSET X
    BY <2>1 DEF Sub
  <2>4. p \in X \cup {NULL}
    BY <1>2 DEF Nodes
  <2>. HIDE DEF A, B, U, l, r, p
  <2>. QED
    BY <2>1, <2>2, <2>3, <2>4
<1>5. HeapAt(O, A, r) /\ HeapAt(O, B, l)
  <2>1. r \in X \cup {NULL} /\ l \in X \cup {NULL}
    BY <1>4
  <2>. HIDE DEF O, t, l, r
  <2>. QED
    BY <1>3, <2>1, SubHeap
<1>6. IsCombined(O, X, A, B, r, l, rest)
  <2>. HIDE DEF O, A, B, r, l
  <2>. QED
    BY <1>2, <1>4, <1>5, CombineIs
<1>. DEFINE R == rest.elt
<1>7. /\ R \in Nodes(X) /\ y \in {r, l} /\ y \in X \cup {NULL} /\ HeapAt(R, W, y)
      /\ y # NULL => R[y].parent = NULL
      /\ SameCosts(O, R, X) /\ Untouched(O, R, X \ W)
  BY <1>4, <1>6 DEF IsCombined
<1>. HIDE DEF R, y, A, B
<1>8. IsAdopted(R, X, y, p, E)
  <2>1. E = Adopt(R, y, p)
    BY DEF R
  <2>. QED
    BY <1>2, <1>4, <1>7, <2>1, AdoptIs
<1>9. HeapAt(E, W, y)
  <2>1. W \in SUBSET X
    BY <1>4
  <2>. HIDE DEF W, E
  <2>. QED
    BY <1>2, <1>7, <1>8, <2>1, AdoptedRoot
<1>10. E \in Nodes(X) /\ (y # NULL => E[y].parent = p /\ y \in W)
       /\ SameCosts(O, E, X) /\ Untouched(O, E, X \ W)
  <2>1. y # NULL => y \in W
    BY <1>7 DEF HeapAt, Tree
  <2>2. y \in X => y \in W
    BY <1>2, <2>1
  <2>. HIDE DEF E, W, O
  <2>3. E \in Nodes(X) /\ (y # NULL => E[y].parent = p)
    BY <1>7, <1>8 DEF IsAdopted
  <2>4. SameCosts(O, E, X)
    BY <1>7, <1>8 DEF IsAdopted, SameCosts
  <2>5. Untouched(O, E, X \ W)
    BY <1>7, <1>8, <2>2 DEF IsAdopted, Untouched
  <2>. QED
    BY <2>1, <2>3, <2>4, <2>5
<1>. HIDE DEF E, W
<1>11. ASSUME G \in Nodes(X), HeapAt(G, X \ {e}, root), root # NULL => G[root].parent = NULL, SameCosts(O, G, X)
       PROVE  IsQueue(del(q, e), X \ {e}) /\ KeepsCosts(q, del(q, e), X \ {e})
  <2>. HIDE DEF G, root
  <2>1. /\ IsQueue(Without([root |-> root, elt |-> G], e), X \ {e})
        /\ KeepsCosts([root |-> root, elt |-> G], Without([root |-> root, elt |-> G], e), X \ {e})
    BY <1>2, <1>11, WithoutIs
  <2>. QED
    BY <1>1, <1>11, <2>1 DEF KeepsCosts, SameCosts, O
<1>12. CASE p = NULL
  <2>1. e = t /\ W = X \ {e}
    <3>1. e # t => p \in X
      <4>1. D[t] = X
        BY <1>3 DEF Tree
      <4>. QED
        BY <1>2, <1>3, <4>1, Upwards
    <3>2. D[t] = X
      BY <1>3 DEF Tree
    <3>. QED
      BY <1>2, <1>4, <1>12, <3>1, <3>2
  <2>2. root = y /\ F = E /\ G = adjust(E, NULL, TRUE)
    BY <1>12
  <2>3. CASE y = NULL
    <3>1. W = {} /\ X = {e}
      BY <1>9, <2>1, <2>3 DEF HeapAt
    <3>2. \A x \in X : E[x] = O[x]
      BY <1>10, <3>1 DEF Untouched
    <3>3. Tree(E, X, t, D) /\ Sorted(E, X) /\ (\A x \in X : Leftist(E, x)) /\ E[t].parent = NULL
      BY <1>2, <1>3, <3>2, SameHeap
    <3>4. /\ adjust(E, NULL, TRUE) \in Nodes(X)
          /\ SameCosts(E, adjust(E, NULL, TRUE), X)
      <4>1. X \in SUBSET X /\ NULL \in X \cup {NULL} /\ TRUE \in BOOLEAN
        OBVIOUS
      <4>. QED
        BY <1>2, <1>10, <3>3, <4>1, AdjustIs
    <3>5. HeapAt(G, X \ {e}, root)
      BY <2>2, <2>3, <3>1 DEF HeapAt
    <3>6. SameCosts(O, G, X)
      BY <1>10, <2>2, <3>4 DEF SameCosts
    <3>. HIDE DEF G
    <3>. QED
      BY <1>11, <2>2, <2>3, <3>4, <3>5, <3>6
  <2>4. CASE y # NULL
    <3>1. PICK H : Tree(E, W, y, H) /\ Sorted(E, W) /\ \A x \in W : Leftist(E, x)
      BY <1>9, <2>4 DEF HeapAt
    <3>2. /\ adjust(E, NULL, TRUE) \in Nodes(X)
          /\ Heap(adjust(E, NULL, TRUE), W, y, H)
          /\ SameCosts(E, adjust(E, NULL, TRUE), X)
      <4>1. W \in SUBSET X /\ NULL \in W \cup {NULL} /\ TRUE \in BOOLEAN /\ E[y].parent = NULL
        BY <1>10, <1>12, <2>1, <2>4
      <4>. QED
        BY <1>2, <1>10, <3>1, <4>1, AdjustIs
    <3>3. HeapAt(G, X \ {e}, root) /\ G[root].parent = NULL
      <4>. DEFINE Z == adjust(E, NULL, TRUE)
      <4>. HIDE DEF Z, y, E, W
      <4>1. HeapAt(Z, W, y) /\ Z[y].parent = NULL
        BY <2>4, <3>2 DEF HeapAt, Heap, Z
      <4>2. X \ {e} = W /\ root = y /\ G = Z
        BY <2>1, <2>2 DEF Z
      <4>. HIDE DEF G, root
      <4>. QED
        BY <4>1, <4>2
    <3>4. SameCosts(O, G, X)
      BY <1>10, <2>2, <3>2 DEF SameCosts
    <3>. HIDE DEF G
    <3>. QED
      BY <1>11, <2>2, <3>2, <3>3, <3>4
  <2>. QED
    BY <2>3, <2>4
<1>13. CASE p # NULL
  <2>1. p \in X /\ e # t /\ e \in {O[p].left, O[p].right} /\ p \notin U /\ p # e
    <3>1. p \in X /\ e # t
      BY <1>2, <1>4, <1>13
    <3>2. D[t] = X /\ t \in X
      BY <1>3 DEF Tree
    <3>3. e \in {O[p].left, O[p].right}
      BY <1>3, <3>1, <3>2, Upwards
    <3>4. p \notin U
      BY <1>2, <1>3, <3>1, <3>3 DEF Tree, Joint, Sub
    <3>. QED
      BY <1>4, <3>1, <3>3, <3>4
  <2>2. p \in K /\ E[p] = O[p]
    BY <1>4, <1>10, <2>1 DEF Untouched
  <2>3. IsSlotted(E, X, p, e, y, F)
    <3>1. e \in {E[p].left, E[p].right}
      BY <2>1, <2>2
    <3>2. E \in Nodes(X) /\ p \in X /\ y \in X \cup {NULL}
      BY <1>7, <1>10, <2>1
    <3>3. IsSlotted(E, X, p, e, y, IF E[p].right = e THEN [E EXCEPT ![p].right = y]
                                    ELSE [E EXCEPT ![p].left = y])
      <4>. HIDE DEF p, O, t, E, y
      <4>. QED
        BY <3>1, <3>2, SlottedIs
    <3>. QED
      BY <1>13, <3>3
  <2>. HIDE DEF F, K, U
  <2>4. HeapAt(F, W, y)
    <3>1. \A x \in W : F[x] = E[x]
      BY <1>4, <2>1, <2>3 DEF IsSlotted
    <3>. QED
      BY <1>9, <3>1, SameHeapAt
  <2>5. PICK H : Graft(F, W, y, H, p)
    <3>1. CASE y = NULL
      BY <2>4, <3>1 DEF HeapAt, Graft
    <3>2. CASE y # NULL
      <4>1. F[y].parent = p
        BY <1>7, <1>10, <2>3, <3>2 DEF IsSlotted
      <4>. QED
        BY <2>4, <3>2, <4>1 DEF HeapAt, Graft
    <3>. QED
      BY <3>1, <3>2
  <2>6. \A x \in K : /\ x \in X /\ F[x].parent = O[x].parent /\ F[x].dist = O[x].dist
                     /\ x # p => F[x] = O[x]
    BY <1>4, <1>10, <2>3 DEF IsSlotted, Untouched, K
  <2>7. Replaced(O, F, p, e, y)
    BY <2>2, <2>3 DEF IsSlotted, Replaced
  <2>8. Sub(D, e) = U /\ K = X \ Sub(D, e) /\ K \cup W = X \ {e} /\ W \cap K = {}
    BY <1>2, <1>4 DEF Sub, U, K
  <2>9. SameLinks(O, F, K, p)
    BY <2>6 DEF SameLinks
  <2>. DEFINE J == Grafted(D, X, e, p, W, H)
  <2>10. Tree(F, X \ {e}, t, J)
    <3>1. Tree(F, (X \ Sub(D, e)) \cup W, t, J)
      <4>1. SameLinks(O, F, X \ Sub(D, e), p) /\ W \cap (X \ Sub(D, e)) = {}
        BY <2>8, <2>9
      <4>. HIDE DEF O, t, p
      <4>. QED
        BY <1>3, <2>1, <2>5, <2>7, <4>1, Replacement
    <3>. QED
      BY <2>8, <3>1
  <2>. HIDE DEF J
  <2>11. F \in Nodes(X) /\ SameCosts(O, F, X) /\ F[t].parent = NULL
    <3>1. F \in Nodes(X) /\ \A x \in X : F[x].cost = E[x].cost /\ F[x].parent = E[x].parent
      BY <2>3 DEF IsSlotted
    <3>2. SameCosts(O, F, X)
      BY <1>10, <3>1 DEF SameCosts
    <3>3. t \in K
      <4>1. t \notin U
        <5>1. D[t] = X
          BY <1>3 DEF Tree
        <5>2. t \in U => D[t] \subseteq U
          BY <1>3, Nested DEF U
        <5>. QED
          BY <2>1, <5>1, <5>2
      <4>. QED
        BY <1>2, <4>1 DEF K
    <3>. QED
      BY <1>2, <2>6, <3>1, <3>2, <3>3
  <2>12. \A x \in K : x # p => O[x].left \in K \cup {NULL} /\ O[x].right \in K \cup {NULL}
    <3>1. ASSUME NEW x \in X \ Sub(D, e), x # p
          PROVE  \A c \in {O[x].left, O[x].right} \ {NULL} : c \in X \ Sub(D, e)
      <4>1. Tree(O, X, t, D) /\ p \in X /\ e \in {O[p].left, O[p].right}
        BY <1>3, <2>1
      <4>. HIDE DEF O, t, p
      <4>. QED
        BY <3>1, <4>1, Aside
    <3>2. \A x \in K : x # p => \A c \in {O[x].left, O[x].right} \ {NULL} : c \in K
      BY <2>8, <3>1
    <3>. QED
      BY <3>2
  <2>13. Sorted(F, X \ {e})
    <3>1. ASSUME NEW x \in X \ {e}, NEW c \in {F[x].left, F[x].right} \ {NULL}
          PROVE  ~Less(F, c, x)
      <4>1. c \in X
        BY <1>4, <2>10, <3>1 DEF Tree
      <4>2. CASE x \in W
        <5>1. y # NULL /\ Sorted(F, W)
          BY <2>4, <4>2 DEF HeapAt
        <5>. QED
          BY <3>1, <4>2, <5>1 DEF Sorted
      <4>3. CASE x \in K /\ x # p
        <5>1. ~Less(O, c, x)
          BY <1>3, <2>6, <3>1, <4>3 DEF Sorted
        <5>. QED
          BY <2>11, <3>1, <4>1, <5>1 DEF Less, SameCosts
      <4>4. CASE x = p /\ c # y
        <5>1. c \in {O[p].left, O[p].right}
          BY <2>7, <3>1, <4>4 DEF Replaced
        <5>2. ~Less(O, c, x)
          BY <1>3, <2>1, <3>1, <4>4, <5>1 DEF Sorted
        <5>. QED
          BY <2>11, <3>1, <4>1, <5>2 DEF Less, SameCosts
      <4>5. CASE x = p /\ c = y
        <5>1. ~Less(O, e, p)
          BY <1>2, <1>3, <2>1 DEF Sorted
        <5>2. ~Less(O, y, e)
          BY <1>3, <1>7, <3>1, <4>5 DEF Sorted
        <5>3. O[y].cost \in Costs /\ O[e].cost \in Costs /\ O[p].cost \in Costs
          BY <1>2, <2>1, <4>1, <4>5 DEF Nodes
        <5>4. ~Less(O, y, p)
          <6>. HIDE DEF O, p
          <6>. QED
            BY <5>1, <5>2, <5>3, CostOrder DEF Less
        <5>. QED
          BY <2>1, <2>11, <4>1, <4>5, <5>4 DEF Less, SameCosts
      <4>. QED
        BY <2>8, <3>1, <4>2, <4>3, <4>4, <4>5
    <3>. QED
      BY <3>1 DEF Sorted
  <2>14. ASSUME NEW x \in X \ {e}, ~Leftist(F, x) PROVE x = p
    <3>. SUFFICES ASSUME x # p PROVE FALSE
      OBVIOUS
    <3>1. CASE x \in W
      <4>1. y # NULL /\ \A z \in W : Leftist(F, z)
        BY <2>4, <3>1 DEF HeapAt
      <4>. QED
        BY <2>14, <3>1, <4>1
    <3>2. CASE x \in K
      <4>1. Leftist(O, x) /\ F[x] = O[x]
        BY <1>3, <2>6, <3>2
      <4>2. \A c \in K \cup {NULL} : dist(F, c) = dist(O, c)
        BY <2>6 DEF dist
      <4>3. O[x].left \in K \cup {NULL} /\ O[x].right \in K \cup {NULL}
        BY <2>12, <3>2
      <4>. QED
        BY <2>14, <4>1, <4>2, <4>3 DEF Leftist
    <3>. QED
      BY <2>8, <2>14, <3>1, <3>2
  <2>15. G \in Nodes(X) /\ Heap(G, X \ {e}, t, J) /\ SameCosts(F, G, X)
    <3>. DEFINE T == X \ {e}
    <3>1. T \in SUBSET X /\ p \in T \cup {NULL} /\ TRUE \in BOOLEAN
      BY <2>1
    <3>2. \A x \in T : ~Leftist(F, x) => p # NULL /\ IF TRUE THEN x = p ELSE p \in J[x]
      BY <1>13, <2>14
    <3>3. Tree(F, T, t, J) /\ Sorted(F, T)
      BY <2>10, <2>13
    <3>. HIDE DEF T, t, p
    <3>4. G \in Nodes(X) /\ Heap(G, T, t, J) /\ SameCosts(F, G, X)
      BY <1>2, <2>11, <3>1, <3>2, <3>3, AdjustIs
    <3>. QED
      BY <3>4 DEF T
  <2>. HIDE DEF G
  <2>16. root = t /\ t # NULL
    BY <1>2, <1>13
  <2>17. HeapAt(G, X \ {e}, root) /\ G[root].parent = NULL
    BY <2>15, <2>16 DEF HeapAt, Heap
  <2>18. SameCosts(O, G, X)
    BY <2>11, <2>15 DEF SameCosts
  <2>. QED
    BY <1>11, <2>15, <2>17, <2>18
<1>. QED
  BY <1>12, <1>13

-----------------------------------------------------------------------------
(* What a queue is good for. *)

\* The root of a queue is the least of its elements.
LEMMA RootIsLeast ==
    ASSUME NEW q, NEW X, IsQueue(q, X), NEW e \in X
    PROVE  q.root \in X /\ ~Less(q.elt, e, q.root)
<1>. DEFINE E == q.elt
            t == q.root
<1>1. t \in X /\ t # NULL /\ E \in Nodes(X) /\ NULL \notin X
  BY RootOf DEF IsQueue
<1>2. PICK D : Tree(E, X, t, D) /\ Sorted(E, X)
  BY <1>1 DEF IsQueue, HeapAt
<1>. HIDE DEF E, t
<1>. DEFINE S == {x \in X : \A d \in D[x] : ~Less(E, d, x)}
<1>3. ASSUME NEW x \in X, \A c \in {E[x].left, E[x].right} \ {NULL} : c \in S
      PROVE  x \in S
  <2>1. D[x] = {x} \cup Sub(D, E[x].left) \cup Sub(D, E[x].right) /\ D[x] \subseteq X
    BY <1>2 DEF Tree, Joint
  <2>2. ASSUME NEW c \in {E[x].left, E[x].right} \ {NULL}, NEW d \in D[c]
        PROVE  ~Less(E, d, x)
    <3>1. c \in X /\ ~Less(E, d, c) /\ ~Less(E, c, x) /\ d \in X
      BY <1>2, <1>3, <2>2 DEF Tree, Sorted
    <3>2. E[c].cost \in Costs /\ E[d].cost \in Costs /\ E[x].cost \in Costs
      BY <1>1, <3>1 DEF Nodes
    <3>. QED
      BY <3>1, <3>2, CostOrder DEF Less
  <2>3. ~Less(E, x, x)
    <3>1. E[x].cost \in Costs
      BY <1>1 DEF Nodes
    <3>. QED
      BY <3>1, CostOrder DEF Less
  <2>. QED
    BY <2>1, <2>2, <2>3 DEF Sub
<1>4. X \subseteq S
  <2>. HIDE DEF S
  <2>. QED
    BY <1>2, <1>3, FromLeaves
<1>5. e \in D[t]
  BY <1>2 DEF Tree
<1>. QED
  BY <1>1, <1>4, <1>5 DEF E, t

\* A queue is a leftist heap.
LEMMA QueueIsHeap ==
    ASSUME NEW q, NEW X, IsQueue(q, X)
    PROVE  IsHeap(q) /\ Elements(q) = X
<1>. DEFINE E == q.elt
            t == q.root
<1>1. /\ Elements(q) = X /\ E \in Nodes(X) /\ NULL \notin X
      /\ t \in X \cup {NULL} /\ (t = NULL <=> X = {}) /\ (t # NULL => E[t].parent = NULL)
  BY RootOf DEF IsQueue, Elements
<1>2. CASE X = {}
  BY <1>1, <1>2 DEF IsHeap, IsLinked, IsConnected, IsOrdered, IsLeftist
<1>3. CASE X # {}
  <2>1. PICK D : Tree(E, X, t, D) /\ Sorted(E, X) /\ \A e \in X : Leftist(E, e)
    BY <1>1, <1>3 DEF IsQueue, HeapAt
  <2>2. \A e \in X : e \in D[e] /\ D[e] \subseteq X /\ Joint(E, D, e)
    BY <2>1 DEF Tree, Joint
  <2>3. ASSUME NEW e \in X, e # t
        PROVE  E[e].parent \in X /\ e \in {E[E[e].parent].left, E[E[e].parent].right}
    <3>1. t \in X /\ D[t] = X
      BY <2>1 DEF Tree
    <3>. QED
      BY <2>1, <2>3, <3>1, Upwards
  <2>4. ASSUME NEW e \in X
        PROVE  /\ \A c \in {E[e].left, E[e].right} \ {NULL} : c \in X /\ E[c].parent = e
               /\ E[e].left # E[e].right \/ E[e].left = NULL
    <3>1. \A c \in {E[e].left, E[e].right} \ {NULL} : c \in X /\ E[c].parent = e
      BY <2>1 DEF Tree, Joint
    <3>2. E[e].left # E[e].right \/ E[e].left = NULL
      BY <2>2, <3>1 DEF Joint, Sub
    <3>. QED
      BY <3>1, <3>2
  <2>5. IsLinked(q)
    BY <1>1, <2>3, <2>4 DEF IsLinked
  <2>6. IsOrdered(q)
    BY <1>1, <2>1, <2>3 DEF IsOrdered, Sorted
  <2>7. IsLeftist(q)
    BY <1>1, <2>1 DEF IsLeftist, Leftist
  <2>8. ASSUME NEW S \in SUBSET X, t \in S,
               \A e \in S : {E[e].left, E[e].right} \subseteq S \cup {NULL}
        PROVE  S = X
    <3>. HIDE DEF E, t
    <3>. DEFINE P == {x \in X : x \in S => D[x] \subseteq S}
    <3>1. ASSUME NEW x \in X, \A c \in {E[x].left, E[x].right} \ {NULL} : c \in P
          PROVE  x \in P
      <4>1. D[x] = {x} \cup Sub(D, E[x].left) \cup Sub(D, E[x].right)
        BY <2>2 DEF Joint
      <4>. QED
        BY <2>8, <3>1, <4>1 DEF Sub
    <3>2. X \subseteq P
      <4>. HIDE DEF P
      <4>. QED
        BY <2>1, <3>1, FromLeaves
    <3>3. t \in X /\ D[t] = X
      BY <2>1 DEF Tree
    <3>. QED
      BY <2>8, <3>2, <3>3
  <2>9. IsConnected(q)
    BY <1>1, <2>8 DEF IsConnected
  <2>. QED
    BY <1>1, <2>5, <2>6, <2>7, <2>9 DEF IsHeap
<1>. QED
  BY <1>2, <1>3

\* The queue of Queue.cpp, whatever is in it and in whatever order it came: each operation
\* leaves a leftist heap of the right elements with the costs they had, and the head is the
\* least of them. Candidates of the routing calculation rely on it as the timers do.
THEOREM QueueSound ==
    ASSUME NEW q, NEW X, IsQueue(q, X)
    PROVE  /\ IsHeap(q) /\ Elements(q) = X
           /\ X # {} => gethead(q) \in X /\ \A e \in X : ~Less(q.elt, e, gethead(q))
           /\ \A e, cost : e \notin X \cup {NULL} /\ cost \in Costs =>
                 /\ IsQueue(add(q, e, cost), X \cup {e})
                 /\ KeepsCosts(q, add(q, e, cost), X) /\ add(q, e, cost).elt[e].cost = cost
           /\ X # {} => /\ IsQueue(rmhead(q), X \ {gethead(q)})
                        /\ KeepsCosts(q, rmhead(q), X \ {gethead(q)})
           /\ \A e \in X : IsQueue(del(q, e), X \ {e}) /\ KeepsCosts(q, del(q, e), X \ {e})
<1>1. IsHeap(q) /\ Elements(q) = X
  BY QueueIsHeap
<1>2. X # {} => gethead(q) \in X /\ \A e \in X : ~Less(q.elt, e, gethead(q))
  BY RootIsLeast DEF gethead
<1>3. \A e, cost : e \notin X \cup {NULL} /\ cost \in Costs =>
         /\ IsQueue(add(q, e, cost), X \cup {e})
         /\ KeepsCosts(q, add(q, e, cost), X) /\ add(q, e, cost).elt[e].cost = cost
  BY AddIs
<1>4. X # {} => IsQueue(rmhead(q), X \ {gethead(q)}) /\ KeepsCosts(q, rmhead(q), X \ {gethead(q)})
  BY RootOf, RmheadIs DEF gethead
<1>5. \A e \in X : IsQueue(del(q, e), X \ {e}) /\ KeepsCosts(q, del(q, e), X \ {e})
  BY DelIs
<1>. QED
  BY <1>1, <1>2, <1>3, <1>4, <1>5

-----------------------------------------------------------------------------
(* The timers. *)

\* The types, and with them the invariant.
TypeInv == active \in [Timers -> BOOLEAN] /\ at \in Timers \cup Places

\* The timers that are active are in the queue, each at most a round late, and none
\* is due when the loop waits: that is why the next round cannot make one later.
TimerInv ==
    /\ TypeInv
    /\ IsQueue(timerq, Running)
    /\ \A t \in Running : Due(t) > -MaxStep /\ (at = "select" => Due(t) > 0)

\* An active timer has a time, which is an integer.
LEMMA DueIsInt ==
    ASSUME NEW q, NEW X, IsQueue(q, X), NEW t \in X
    PROVE  /\ q.elt[t].cost \in Costs /\ q.elt[t].cost[1] \in Int
           /\ t # NULL
<1>1. q.elt \in Nodes(X) /\ t # NULL
  BY DEF IsQueue
<1>2. q.elt[t].cost \in Costs
  BY <1>1 DEF Nodes
<1>. QED
  BY <1>1, <1>2 DEF Costs

\* A timer that is started waits for a time to come.
LEMMA DelaysArePositive ==
    ASSUME NEW t \in Timers
    PROVE  Delays(t) \subseteq Nat \ {0} /\ RandomDelays(t) \subseteq Nat \ {0}
<1>1. Period[t] \in Nat \ {0}
  BY TimerQueueAssumption
<1>2. CASE t \in Interval
  BY <1>1, <1>2 DEF Delays, RandomDelays
<1>3. CASE t \notin Interval
  <2>1. t \in OneShot /\ \A j \in Jitter : j \in Int /\ Period[t] + j > 0
    BY <1>3, TimerQueueAssumption DEF Timers
  <2>. QED
    BY <1>1, <1>3, <2>1 DEF Delays, RandomDelays
<1>. QED
  BY <1>2, <1>3

\* The time that passes is taken from all costs.
LEMMA ElapseIs ==
    ASSUME NEW d \in Int, NEW X, IsQueue(timerq, X)
    PROVE  /\ IsQueue(Elapse(d), X)
           /\ \A t \in X : Elapse(d).elt[t].cost[1] = timerq.elt[t].cost[1] - d
<1>. DEFINE E == timerq.elt
            F == [t \in X |-> [E[t] EXCEPT !.cost[1] = @ - d]]
<1>1. E \in Nodes(X) /\ DOMAIN E = X /\ IsFiniteSet(X) /\ NULL \notin X
  BY RootOf DEF IsQueue
<1>2. Elapse(d) = [root |-> timerq.root, elt |-> F]
  BY <1>1 DEF Elapse, Elements, IsQueue
<1>3. ASSUME NEW t \in X
      PROVE  /\ F[t].left = E[t].left /\ F[t].right = E[t].right /\ F[t].parent = E[t].parent
             /\ F[t].dist = E[t].dist /\ F[t].cost = <<E[t].cost[1] - d, E[t].cost[2]>>
             /\ F[t] \in [left : X \cup {NULL}, right : X \cup {NULL}, parent : X \cup {NULL},
                          dist : Nat, cost : Costs]
  <2>. DEFINE c == E[t].cost
  <2>1. E[t] \in [left : X \cup {NULL}, right : X \cup {NULL}, parent : X \cup {NULL},
                  dist : Nat, cost : Costs]
    BY <1>1 DEF Nodes
  <2>2. c \in Costs /\ [c EXCEPT ![1] = @ - d] = <<c[1] - d, c[2]>> /\ <<c[1] - d, c[2]>> \in Costs
    BY <2>1 DEF Costs
  <2>3. F[t] = [E[t] EXCEPT !.cost = <<c[1] - d, c[2]>>]
    BY <2>2
  <2>. QED
    BY <2>1, <2>2, <2>3
<1>4. F \in Nodes(X) /\ \A x \in X : E[x].cost \in Costs
  BY <1>1, <1>3 DEF Nodes
<1>. HIDE DEF E, F
<1>5. \A x, y \in X : Less(F, x, y) <=> Less(E, x, y)
  <2>1. ASSUME NEW a \in Costs, NEW b \in Costs
        PROVE  cmp_cost(<<a[1] - d, a[2]>>, <<b[1] - d, b[2]>>) <=> cmp_cost(a, b)
    BY DEF cmp_cost, Costs
  <2>2. ASSUME NEW x \in X, NEW y \in X
        PROVE  Less(F, x, y) <=> Less(E, x, y)
    <3>1. F[x].cost = <<E[x].cost[1] - d, E[x].cost[2]>> /\ F[y].cost = <<E[y].cost[1] - d, E[y].cost[2]>>
      BY <1>3
    <3>2. cmp_cost(F[x].cost, F[y].cost) <=> cmp_cost(E[x].cost, E[y].cost)
      BY <1>4, <2>1, <3>1
    <3>. QED
      BY <3>2 DEF Less
  <2>. QED
    BY <2>2
<1>6. HeapAt(F, X, timerq.root)
  <2>1. CASE timerq.root = NULL
    BY <2>1 DEF IsQueue, HeapAt
  <2>2. CASE timerq.root # NULL
    <3>1. PICK D : Tree(E, X, timerq.root, D) /\ Sorted(E, X) /\ \A e \in X : Leftist(E, e)
      BY <2>2 DEF IsQueue, HeapAt, E
    <3>2. Tree(F, X, timerq.root, D)
      BY <1>3, <3>1, TreeDepends
    <3>3. \A e \in X : E[e].left \in X \cup {NULL} /\ E[e].right \in X \cup {NULL}
      BY <3>1 DEF Tree
    <3>4. Sorted(F, X)
      BY <1>3, <1>5, <3>1, <3>3 DEF Sorted
    <3>5. \A c \in X \cup {NULL} : dist(F, c) = dist(E, c)
      BY <1>3 DEF dist
    <3>6. \A e \in X : Leftist(F, e)
      BY <1>3, <3>1, <3>3, <3>5 DEF Leftist
    <3>. QED
      BY <2>2, <3>2, <3>4, <3>6 DEF HeapAt
  <2>. QED
    BY <2>1, <2>2
<1>7. timerq.root # NULL => timerq.root \in X /\ E[timerq.root].parent = NULL
  BY RootOf DEF IsQueue, E
<1>8. IsQueue([root |-> timerq.root, elt |-> F], X)
  BY <1>1, <1>3, <1>4, <1>6, <1>7 DEF IsQueue
<1>. QED
  BY <1>2, <1>3, <1>8 DEF E

-----------------------------------------------------------------------------
(* The steps. *)

\* t is put in the queue, to fire after d.
PutIn(t, d) ==
    /\ Running' = Running \cup {t}
    /\ IsQueue(timerq', Running')
    /\ \A u \in Running' : Due(u)' = IF u = t THEN d ELSE Due(u)

\* Or it is taken out.
TakenOut(t) ==
    /\ Running' = Running \ {t}
    /\ IsQueue(timerq', Running')
    /\ \A u \in Running' : Due(u)' = Due(u)

\* z is q with t in it, to fire after d.
IsAdded(q, X, t, d, z) ==
    /\ IsQueue(z, X \cup {t})
    /\ \A u \in X : z.elt[u].cost[1] = q.elt[u].cost[1]
    /\ z.elt[t].cost[1] = d

\* What is added to a queue is put in it.
LEMMA AddedIs ==
    ASSUME NEW q, NEW X, IsQueue(q, X), NEW t \in Timers \ X, NEW d \in Int
    PROVE  IsAdded(q, X, t, d, add(q, t, <<d, 0>>))
<1>. DEFINE cost == <<d, 0>>
<1>1. cost \in Costs /\ cost[1] = d /\ t # NULL /\ t \notin X
  BY TimerQueueAssumption DEF Costs
<1>. HIDE DEF cost
<1>. DEFINE z == add(q, t, cost)
<1>2. add(q, t, <<d, 0>>) = z
  BY DEF cost
<1>3. IsQueue(z, X \cup {t}) /\ KeepsCosts(q, z, X) /\ z.elt[t].cost = cost
  BY <1>1, AddIs
<1>. HIDE DEF z
<1>. QED
  BY <1>1, <1>2, <1>3 DEF KeepsCosts, IsAdded

\* Start puts a timer in,
LEMMA StartIs ==
    ASSUME TimerInv, NEW t \in Timers, Start(t)
    PROVE  TypeInv' /\ \E d \in Delays(t) : PutIn(t, d)
<1>1. active \in [Timers -> BOOLEAN] /\ IsQueue(timerq, Running)
  BY DEF TimerInv, TypeInv
<1>2. t \notin Running /\ Running' = Running \cup {t} /\ TypeInv'
  BY <1>1 DEF Start, InHandler, Running, TimerInv, TypeInv
<1>3. PICK d \in Delays(t) : timerq' = add(timerq, t, <<d, 0>>)
  BY DEF Start
<1>4. d \in Int
  BY DelaysArePositive
<1>5. IsAdded(timerq, Running, t, d, timerq')
  BY <1>1, <1>2, <1>3, <1>4, AddedIs
<1>6. PutIn(t, d)
  BY <1>2, <1>5 DEF IsAdded, PutIn, Due
<1>. QED
  BY <1>2, <1>6

\* Stop takes one out,
LEMMA StopIs ==
    ASSUME TimerInv, NEW t \in Timers, Stop(t)
    PROVE  TypeInv' /\ t \in Running /\ TakenOut(t)
<1>1. active \in [Timers -> BOOLEAN] /\ IsQueue(timerq, Running)
  BY DEF TimerInv, TypeInv
<1>2. t \in Running /\ Running' = Running \ {t} /\ TypeInv' /\ timerq' = del(timerq, t)
  BY <1>1 DEF Stop, InHandler, Running, TimerInv, TypeInv
<1>3. IsQueue(timerq', Running \ {t}) /\ KeepsCosts(timerq, timerq', Running \ {t})
  BY <1>1, <1>2, DelIs
<1>4. TakenOut(t)
  BY <1>2, <1>3 DEF TakenOut, KeepsCosts, Due
<1>. QED
  BY <1>2, <1>4

\* Restart puts one in anew.
LEMMA RestartIs ==
    ASSUME TimerInv, NEW t \in Timers, Restart(t)
    PROVE  TypeInv' /\ \E d \in RandomDelays(t) : PutIn(t, d)
<1>1. active \in [Timers -> BOOLEAN] /\ IsQueue(timerq, Running)
  BY DEF TimerInv, TypeInv
<1>2. t \in Running /\ Running' = Running /\ TypeInv'
  BY <1>1 DEF Restart, InHandler, Running, TimerInv, TypeInv
<1>3. PICK d \in RandomDelays(t) : timerq' = add(del(timerq, t), t, <<d, 0>>)
  BY DEF Restart
<1>4. d \in Int
  BY DelaysArePositive
<1>. DEFINE q == del(timerq, t)
            X == Running \ {t}
<1>5. IsQueue(q, X) /\ KeepsCosts(timerq, q, X)
  BY <1>1, <1>2, DelIs
<1>6. t \in Timers \ X /\ timerq' = add(q, t, <<d, 0>>)
  BY <1>3
<1>7. Running = X \cup {t}
  BY <1>2
<1>. HIDE DEF q, X
<1>8. IsAdded(q, X, t, d, timerq')
  BY <1>4, <1>5, <1>6, AddedIs
<1>9. PutIn(t, d)
  BY <1>2, <1>5, <1>7, <1>8 DEF IsAdded, PutIn, Due, KeepsCosts
<1>. QED
  BY <1>2, <1>9

\* The timer that fires is the one that is due first.
LEMMA FireIs ==
    ASSUME TimerInv, NEW t \in Timers, Fire(t)
    PROVE  /\ TypeInv' /\ at = "tick" /\ at' = t
           /\ t \in Running /\ Due(t) <= 0 /\ \A u \in Running : Due(t) <= Due(u)
           /\ IF t \in OneShot THEN TakenOut(t) ELSE PutIn(t, Due(t) + Period[t])
<1>1. active \in [Timers -> BOOLEAN] /\ IsQueue(timerq, Running) /\ Running \subseteq Timers
  BY DEF TimerInv, TypeInv, Running
<1>2. t = timerq.root /\ t # NULL /\ at = "tick" /\ at' = t /\ Due(t) <= 0
  BY TimerQueueAssumption DEF Fire, gethead
<1>3. t \in Running
  BY <1>1, <1>2, RootOf
<1>4. \A u \in Running : Due(t) <= Due(u)
  <2>1. ASSUME NEW u \in Running PROVE Due(t) <= Due(u)
    <3>1. ~Less(timerq.elt, u, t)
      BY <1>1, <1>2, RootIsLeast
    <3>2. Due(t) \in Int /\ Due(u) \in Int
      BY <1>1, <1>3, DueIsInt DEF Due
    <3>. QED
      BY <3>1, <3>2 DEF Less, cmp_cost, Due
  <2>. QED
    BY <2>1
<1>. DEFINE q == rmhead(timerq)
            X == Running \ {t}
<1>5. IsQueue(q, X) /\ KeepsCosts(timerq, q, X)
  BY <1>1, <1>2, RmheadIs
<1>6. CASE t \in OneShot
  <2>1. Running' = X /\ TypeInv' /\ timerq' = q
    BY <1>1, <1>6 DEF Fire, Running, TypeInv
  <2>2. TakenOut(t)
    BY <1>5, <2>1 DEF TakenOut, KeepsCosts, Due
  <2>. QED
    BY <1>2, <1>3, <1>4, <1>6, <2>1, <2>2
<1>7. CASE t \notin OneShot
  <2>. DEFINE d == Due(t) + Period[t]
  <2>1. timerq' = add(q, t, <<d, 0>>) /\ Running' = X \cup {t} /\ TypeInv' /\ t \in Timers \ X
    BY <1>1, <1>3, <1>7 DEF Fire, Running, TypeInv
  <2>2. d \in Int
    BY <1>1, <1>3, DueIsInt, TimerQueueAssumption DEF Due
  <2>. HIDE DEF q, X, d
  <2>3. IsAdded(q, X, t, d, timerq')
    BY <1>5, <2>1, <2>2, AddedIs
  <2>4. PutIn(t, d)
    <3>1. Running = X \cup {t}
      BY <1>3 DEF X
    <3>. QED
      BY <1>5, <2>1, <2>3, <3>1 DEF IsAdded, PutIn, KeepsCosts, Due
  <2>. QED
    BY <1>2, <1>3, <1>4, <1>7, <2>1, <2>4 DEF d
<1>. QED
  BY <1>6, <1>7

\* When the loop waits, time passes for all timers.
LEMMA SelectIs ==
    ASSUME TimerInv, NEW d \in 0..MaxStep, Select(d)
    PROVE  /\ TypeInv' /\ at = "select" /\ at' \in {"tick", "handler"}
           /\ Running' = Running /\ IsQueue(timerq', Running')
           /\ \A u \in Running : Due(u)' = Due(u) - d
<1>1. active' = active /\ timerq' = Elapse(d) /\ at = "select" /\ at' \in {"tick", "handler"} /\ d \in Int
  BY TimerQueueAssumption DEF Select
<1>2. Running' = Running /\ TypeInv'
  BY <1>1 DEF Running, TimerInv, TypeInv, Places
<1>3. /\ IsQueue(Elapse(d), Running)
      /\ \A u \in Running : Elapse(d).elt[u].cost[1] = timerq.elt[u].cost[1] - d
  BY <1>1, ElapseIs DEF TimerInv
<1>. QED
  BY <1>1, <1>2, <1>3 DEF Due

\* When no timer is due, tick waits.
LEMMA TickIs ==
    ASSUME TimerInv, tick, NEW u \in Running
    PROVE  Due(u) > 0
<1>1. IsQueue(timerq, Running) /\ at = "tick"
  BY DEF TimerInv, tick
<1>2. timerq.root \in Running /\ ~Less(timerq.elt, u, timerq.root) /\ timerq.root # NULL
  BY <1>1, RootIsLeast, DueIsInt
<1>3. Due(timerq.root) > 0
  BY <1>2 DEF tick, gethead
<1>4. Due(u) \in Int /\ Due(timerq.root) \in Int
  BY <1>1, <1>2, DueIsInt DEF Due
<1>. QED
  BY <1>2, <1>3, <1>4 DEF Less, cmp_cost, Due

-----------------------------------------------------------------------------
(* The invariant. *)

\* PutIn and TakenOut keep what TimerInv says of the times.
LEMMA TimesKept ==
    ASSUME TimerInv, TypeInv', NEW t \in Timers,
           \/ \E d \in Int : d > -MaxStep /\ PutIn(t, d)
           \/ TakenOut(t),
           at' # "select"
    PROVE  TimerInv'
<1>1. IsQueue(timerq', Running') /\ \A u \in Running' : Due(u)' > -MaxStep
  <2>1. CASE \E d \in Int : d > -MaxStep /\ PutIn(t, d)
    BY <2>1 DEF PutIn, TimerInv
  <2>2. CASE TakenOut(t)
    BY <2>2 DEF TakenOut, TimerInv
  <2>. QED
    BY <2>1, <2>2
<1>. QED
  BY <1>1 DEF TimerInv

\* A timer that is started is due in the future.
LEMMA InTheFuture ==
    ASSUME NEW t \in Timers, NEW d \in Delays(t) \cup RandomDelays(t)
    PROVE  d \in Int /\ d > -MaxStep
<1>1. d \in Nat \ {0}
  BY DelaysArePositive
<1>. QED
  BY <1>1, TimerQueueAssumption

\* No timer is active at first.
LEMMA TimerInvInit == Init => TimerInv
<1>. SUFFICES ASSUME Init PROVE TimerInv
  OBVIOUS
<1>1. Running = {} /\ TypeInv
  BY DEF Init, Running, TypeInv, Places
<1>2. IsQueue(timerq, {})
  BY EmptyQueue DEF Init
<1>. QED
  BY <1>1, <1>2 DEF TimerInv

\* Every step keeps the invariant.
LEMMA TimerInvNext == TimerInv /\ [Next]_vars => TimerInv'
<1>. SUFFICES ASSUME TimerInv, [Next]_vars PROVE TimerInv'
  OBVIOUS
<1>0. "select" \notin Timers /\ MaxStep \in Nat \ {0}
  BY TimerQueueAssumption
<1>1. ASSUME NEW t \in Timers, Start(t) PROVE TimerInv'
  <2>1. PICK d \in Delays(t) : PutIn(t, d)
    BY <1>1, StartIs
  <2>2. at' # "select" /\ TypeInv'
    BY <1>0, <1>1, StartIs DEF Start, InHandler
  <2>. QED
    BY <2>1, <2>2, InTheFuture, TimesKept
<1>2. ASSUME NEW t \in Timers, Stop(t) PROVE TimerInv'
  <2>1. at' # "select" /\ TypeInv' /\ TakenOut(t)
    BY <1>0, <1>2, StopIs DEF Stop, InHandler
  <2>. QED
    BY <2>1, TimesKept
<1>3. ASSUME NEW t \in Timers, Restart(t) PROVE TimerInv'
  <2>1. PICK d \in RandomDelays(t) : PutIn(t, d)
    BY <1>3, RestartIs
  <2>2. at' # "select" /\ TypeInv'
    BY <1>0, <1>3, RestartIs DEF Restart, InHandler
  <2>. QED
    BY <2>1, <2>2, InTheFuture, TimesKept
<1>4. ASSUME NEW t \in Timers, Fire(t) PROVE TimerInv'
  <2>1. /\ TypeInv' /\ at' # "select" /\ t \in Running
        /\ IF t \in OneShot THEN TakenOut(t) ELSE PutIn(t, Due(t) + Period[t])
    BY <1>0, <1>4, FireIs
  <2>2. Due(t) \in Int /\ Due(t) > -MaxStep /\ Period[t] \in Nat \ {0}
    BY <2>1, DueIsInt, TimerQueueAssumption DEF TimerInv, Due
  <2>3. Due(t) + Period[t] \in Int /\ Due(t) + Period[t] > -MaxStep
    BY <1>0, <2>2
  <2>. QED
    BY <2>1, <2>3, TimesKept
<1>5. CASE Return
  <2>1. timerq' = timerq /\ active' = active /\ at' = "tick"
    BY <1>5 DEF Return
  <2>. QED
    BY <2>1 DEF TimerInv, TypeInv, Running, Due, Places
<1>6. CASE tick
  <2>1. timerq' = timerq /\ active' = active /\ at' = "select"
    BY <1>6 DEF tick
  <2>2. \A u \in Running : Due(u) > 0
    BY <1>6, TickIs
  <2>3. Running' = Running /\ \A u \in Running : Due(u)' = Due(u)
    BY <2>1 DEF Running, Due
  <2>. QED
    BY <2>1, <2>2, <2>3 DEF TimerInv, TypeInv, Places
<1>7. ASSUME NEW d \in 0..MaxStep, Select(d) PROVE TimerInv'
  <2>1. /\ TypeInv' /\ at = "select" /\ at' # "select"
        /\ Running' = Running /\ IsQueue(timerq', Running')
        /\ \A u \in Running : Due(u)' = Due(u) - d
    BY <1>7, SelectIs
  <2>2. ASSUME NEW u \in Running PROVE Due(u)' > -MaxStep
    <3>1. Due(u) \in Int /\ Due(u) > 0
      BY <2>1, DueIsInt DEF TimerInv, Due
    <3>. QED
      BY <1>0, <2>1, <3>1
  <2>. QED
    BY <2>1, <2>2 DEF TimerInv
<1>8. CASE UNCHANGED vars
  BY <1>8 DEF vars, TimerInv, TypeInv, Running, Due
<1>. QED
  BY <1>1, <1>2, <1>3, <1>4, <1>5, <1>6, <1>7, <1>8 DEF Next

\* The invariant holds.
THEOREM TimerInvHolds == Spec => []TimerInv
<1>. QED
  BY TimerInvInit, TimerInvNext, PTL DEF Spec

\* HeapSound: through every start, stop and restart, and through every round of the loop,
\* the timers that are active are the elements of a leftist heap with all its links, and
\* none of them is more than a round late.
THEOREM HeapSoundHolds == Spec => []HeapSound
<1>1. TimerInv => HeapSound
  <2>. SUFFICES ASSUME TimerInv PROVE HeapSound
    OBVIOUS
  <2>1. IsHeap(timerq) /\ Elements(timerq) = Running
    BY QueueIsHeap DEF TimerInv
  <2>. QED
    BY <2>1 DEF HeapSound, TimerInv
<1>. QED
  BY <1>1, TimerInvHolds, PTL

-----------------------------------------------------------------------------
(* The timers are alarms. *)

\* What is put in is an alarm that is set.
LEMMA PutIsSet ==
    ASSUME NEW t, NEW d, PutIn(t, d)
    PROVE  alarms!Put(t, d)
<1>1. DOMAIN left = Running
  BY DEF left
<1>2. left' = [u \in Running' |-> Due(u)']
  BY DEF left
<1>3. \A u \in Running : left[u] = Due(u)
  BY DEF left
<1>. QED
  BY <1>1, <1>2, <1>3 DEF PutIn, alarms!Put, alarms!Set

\* And what is taken out is off.
LEMMA TakenIsOff ==
    ASSUME NEW t, TakenOut(t)
    PROVE  alarms!Off(t)
<1>1. DOMAIN left = Running
  BY DEF left
<1>2. left' = [u \in Running' |-> Due(u)']
  BY DEF left
<1>3. \A u \in Running : left[u] = Due(u)
  BY DEF left
<1>. QED
  BY <1>1, <1>2, <1>3 DEF TakenOut, alarms!Off, alarms!Set

\* At first no alarm is set.
LEMMA AlarmsInit == Init => alarms!Init
<1>. SUFFICES ASSUME Init PROVE alarms!Init
  OBVIOUS
<1>1. Running = {} /\ at \notin Timers
  BY TimerQueueAssumption DEF Init, Running
<1>2. left = <<>>
  BY <1>1 DEF left
<1>. QED
  BY <1>1, <1>2 DEF alarms!Init, ringing

\* Every step of the timers is one of the alarms, or one they do not see.
LEMMA AlarmsNext == TimerInv /\ [Next]_vars => [alarms!Next]_<<left, ringing>>
<1>. SUFFICES ASSUME TimerInv, [Next]_vars PROVE [alarms!Next]_<<left, ringing>>
  OBVIOUS
<1>0. /\ "select" \notin Timers /\ "tick" \notin Timers /\ "none" \notin Timers /\ "handler" \notin Timers
      /\ MaxStep \in Nat \ {0} /\ Timers = OneShot \cup Interval
  BY TimerQueueAssumption DEF Timers
<1>. DEFINE Alarm(t) == t \in OneShot \cup Interval
<1>1. ASSUME NEW t \in Timers, ringing' = ringing,
             \/ \E d \in Delays(t) \cup RandomDelays(t) : PutIn(t, d)
             \/ t \in Running /\ TakenOut(t)
      PROVE  alarms!Next
  <2>1. alarms!Change(t)
    <3>1. CASE \E d \in Delays(t) \cup RandomDelays(t) : PutIn(t, d)
      BY <1>1, <3>1, PutIsSet DEF alarms!Change
    <3>2. CASE t \in Running /\ TakenOut(t)
      <4>1. t \in DOMAIN left
        BY <3>2 DEF left
      <4>. QED
        BY <1>1, <3>2, <4>1, TakenIsOff DEF alarms!Change, alarms!Set
    <3>. QED
      BY <1>1, <3>1, <3>2
  <2>. QED
    BY <1>0, <2>1 DEF alarms!Next
<1>2. ASSUME NEW t \in Timers, Start(t) PROVE alarms!Next
  <2>1. ringing' = ringing
    BY <1>2 DEF Start, InHandler, ringing
  <2>. QED
    BY <1>1, <1>2, <2>1, StartIs
<1>3. ASSUME NEW t \in Timers, Stop(t) PROVE alarms!Next
  <2>1. ringing' = ringing
    BY <1>3 DEF Stop, InHandler, ringing
  <2>. QED
    BY <1>1, <1>3, <2>1, StopIs
<1>4. ASSUME NEW t \in Timers, Restart(t) PROVE alarms!Next
  <2>1. ringing' = ringing
    BY <1>4 DEF Restart, InHandler, ringing
  <2>. QED
    BY <1>1, <1>4, <2>1, RestartIs
<1>5. ASSUME NEW t \in Timers, Fire(t) PROVE alarms!Next
  <2>1. /\ at = "tick" /\ at' = t /\ t \in Running
        /\ Due(t) <= 0 /\ \A u \in Running : Due(t) <= Due(u)
        /\ IF t \in OneShot THEN TakenOut(t) ELSE PutIn(t, Due(t) + Period[t])
    BY <1>5, FireIs
  <2>2. ringing = "none" /\ ringing' = t
    BY <1>0, <2>1 DEF ringing
  <2>3. DOMAIN left = Running /\ \A u \in Running : left[u] = Due(u)
    BY DEF left
  <2>4. IF t \in OneShot THEN alarms!Off(t) ELSE alarms!Put(t, left[t] + Period[t])
    BY <2>1, <2>3, PutIsSet, TakenIsOff
  <2>5. alarms!Ring(t)
    BY <2>1, <2>2, <2>3, <2>4 DEF alarms!Ring, alarms!Set
  <2>. QED
    BY <1>0, <2>5 DEF alarms!Next
<1>6. CASE Return
  <2>1. timerq' = timerq /\ active' = active /\ at \in Timers \cup {"handler"} /\ at' = "tick"
    BY <1>6 DEF Return
  <2>2. left' = left
    BY <2>1 DEF left, Running, Due
  <2>3. CASE at \in Timers
    <3>1. ringing # "none" /\ ringing' = "none"
      BY <1>0, <2>1, <2>3 DEF ringing
    <3>. QED
      BY <2>2, <3>1 DEF alarms!Next, alarms!Answered
  <2>4. CASE at \notin Timers
    BY <1>0, <2>1, <2>2, <2>4 DEF ringing
  <2>. QED
    BY <2>3, <2>4
<1>7. CASE tick
  <2>1. timerq' = timerq /\ active' = active /\ at = "tick" /\ at' = "select"
    BY <1>7 DEF tick
  <2>. QED
    BY <1>0, <2>1 DEF left, Running, Due, ringing
<1>8. ASSUME NEW d \in 0..MaxStep, Select(d) PROVE [alarms!Next]_<<left, ringing>>
  <2>1. /\ at = "select" /\ at' \in {"tick", "handler"} /\ Running' = Running
        /\ \A u \in Running : Due(u)' = Due(u) - d /\ Due(u) > 0
    BY <1>8, SelectIs DEF TimerInv
  <2>2. ringing = "none" /\ ringing' = "none"
    BY <1>0, <2>1 DEF ringing
  <2>3. DOMAIN left = Running /\ \A u \in Running : left[u] = Due(u) /\ Due(u) \in Int
    BY DueIsInt DEF left, TimerInv, Due
  <2>4. left' = [u \in Running |-> left[u] - d]
    <3>1. left' = [u \in Running' |-> Due(u)']
      BY DEF left
    <3>. QED
      BY <2>1, <2>3, <3>1
  <2>5. CASE d = 0
    <3>1. \A u \in Running : left[u] - d = left[u]
      BY <2>3, <2>5
    <3>2. left = [u \in Running |-> left[u]]
      BY DEF left
    <3>. QED
      BY <2>2, <2>4, <3>1, <3>2
  <2>6. CASE d # 0
    <3>1. d \in 1..MaxStep
      BY <1>0, <2>6
    <3>2. alarms!Pass
      BY <2>1, <2>2, <2>3, <2>4, <3>1 DEF alarms!Pass, alarms!Set
    <3>. QED
      BY <3>2 DEF alarms!Next
  <2>. QED
    BY <2>5, <2>6
<1>9. CASE UNCHANGED vars
  BY <1>9 DEF vars, left, Running, Due, ringing
<1>. QED
  BY <1>2, <1>3, <1>4, <1>5, <1>6, <1>7, <1>8, <1>9 DEF Next

\* ImplementsAlarms: the timers are the alarms of Timer.h. None fires before its time,
\* after it was stopped, or before another that is due earlier; an interval timer keeps its
\* rhythm; and no time passes while one is due.
THEOREM TimersAreAlarms == Spec => ImplementsAlarms
<1>. QED
  BY AlarmsInit, AlarmsNext, TimerInvHolds, PTL DEF Spec, ImplementsAlarms, alarms!Spec
=============================================================================

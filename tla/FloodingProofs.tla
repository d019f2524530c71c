--------------------------- MODULE FloodingProofs ---------------------------
(***************************************************************************)
(* Theorems about the retransmission lists: the counters are right and the        *)
(* timer runs while there is something on a list, for any routers and LSAs.       *)
(***************************************************************************)
EXTENDS Flooding, FiniteSetTheorems, SequenceTheorems, WellFoundedInduction, TLAPS

-----------------------------------------------------------------------------
(* Sets of numbers, and recursion over numbers. *)

\* Among sets of parts of a finite set there is a minimal one.
LEMMA MinimalSubset ==
    ASSUME NEW S, IsFiniteSet(S), NEW Bad \in SUBSET (SUBSET S), Bad # {}
    PROVE  \E T \in Bad : \A U \in Bad : U \subseteq T => U = T
<1>1. IsWellFoundedOn(StrictSubsetOrdering(S), SUBSET S)
  BY FS_StrictSubsetOrderingWellFounded, FS_FiniteSubsetsOfFinite
<1>2. \E T \in Bad : \A U \in Bad : ~(<<U, T>> \in StrictSubsetOrdering(S))
  BY <1>1, WFMin
<1>. QED
  BY <1>2 DEF StrictSubsetOrdering

\* A set of numbers has a least one.
LEMMA LeastNat ==
    ASSUME NEW Bad \in SUBSET Nat, Bad # {}
    PROVE  \E n \in Bad : \A m \in Bad : n <= m
<1>1. PICK k \in Bad : TRUE
  OBVIOUS
<1>. DEFINE All == 0..k
            Below == {J \in SUBSET All : \E n \in Bad : n <= k /\ J = 0..n}
<1>2. IsFiniteSet(All)
  BY FS_Interval
<1>3. Below \in SUBSET (SUBSET All)
  OBVIOUS
<1>4. Below # {}
  <2>1. 0..k \in Below
    OBVIOUS
  <2>. QED
    BY <2>1
<1>5. PICK T \in Below : \A U \in Below : U \subseteq T => U = T
  <2>. HIDE DEF Below, All
  <2>. QED
    BY <1>2, <1>3, <1>4, MinimalSubset
<1>6. PICK n \in Bad : n <= k /\ T = 0..n
  OBVIOUS
<1>7. ASSUME NEW m \in Bad PROVE n <= m
  <2>. SUFFICES ASSUME m < n PROVE FALSE
    OBVIOUS
  <2>1. 0..m \in Below
    BY <1>6
  <2>2. 0..m = 0..n
    <3>. 0..m \subseteq T
      BY <1>6
    <3>. QED
      BY <1>5, <1>6, <2>1
  <2>. QED
    BY <2>2
<1>. QED
  BY <1>7

\* A set of numbers that is bounded has a greatest one.
LEMMA GreatestNat ==
    ASSUME NEW n \in Nat, NEW U \in SUBSET (0..n), U # {}
    PROVE  \E k \in U : \A j \in U : j <= k
<1>. DEFINE All == 0..n
            Above == {(k + 1)..n : k \in U}
<1>1. IsFiniteSet(All)
  BY FS_Interval
<1>2. Above \in SUBSET (SUBSET All) /\ Above # {}
  <2>1. \A k \in U : (k + 1)..n \subseteq All
    OBVIOUS
  <2>2. PICK k \in U : TRUE
    OBVIOUS
  <2>3. (k + 1)..n \in Above
    OBVIOUS
  <2>. QED
    BY <2>1, <2>3
<1>3. PICK T \in Above : \A W \in Above : W \subseteq T => W = T
  <2>. HIDE DEF Above, All
  <2>. QED
    BY <1>1, <1>2, MinimalSubset
<1>4. PICK k \in U : T = (k + 1)..n
  OBVIOUS
<1>5. ASSUME NEW j \in U PROVE j <= k
  <2>. SUFFICES ASSUME k < j PROVE FALSE
    OBVIOUS
  <2>1. (j + 1)..n \in Above /\ (j + 1)..n \subseteq T
    BY <1>4
  <2>2. j \in T /\ j \notin (j + 1)..n
    BY <1>4
  <2>. QED
    BY <1>3, <2>1, <2>2
<1>. QED
  BY <1>5

\* Recursion over the numbers up to n: step[i, v] is the value at i when v is the one
\* before it.
Recurs(f, n, V, base, step) ==
    /\ f \in [0..n -> V]
    /\ f[0] = base
    /\ \A i \in 1..n : f[i] = step[<<i, f[i - 1]>>]

Steps(step, n, V) == step \in [(1..n) \X V -> V]

LEMMA RecursionExists ==
    ASSUME NEW n \in Nat, NEW V, NEW base \in V, NEW step, Steps(step, n, V)
    PROVE  \E f : Recurs(f, n, V, base, step)
<1>. USE DEF Recurs, Steps
<1>. DEFINE Rec(f, m) == Recurs(f, m, V, base, step)
            Bad == {m \in 0..n : ~ \E f : Rec(f, m)}
<1>. SUFFICES ASSUME Bad # {} PROVE FALSE
  <2>1. ASSUME Bad = {} PROVE \E f : Rec(f, n)
    <3>1. n \in 0..n
      OBVIOUS
    <3>. QED
      BY <2>1, <3>1
  <2>. QED
    BY <2>1
<1>1. PICK m \in Bad : \A l \in Bad : m <= l
  <2>1. Bad \in SUBSET Nat
    OBVIOUS
  <2>. HIDE DEF Bad
  <2>. QED
    BY <2>1, LeastNat
<1>2. m # 0
  <2>1. Rec([i \in 0..0 |-> base], 0)
    OBVIOUS
  <2>. HIDE DEF Rec
  <2>. QED
    BY <2>1
<1>3. m - 1 \in 0..n /\ m - 1 \notin Bad
  BY <1>1, <1>2
<1>4. PICK f : Rec(f, m - 1)
  BY <1>3
<1>. DEFINE g == [i \in 0..m |-> IF i = m THEN step[<<m, f[m - 1]>>] ELSE f[i]]
<1>5. f[m - 1] \in V /\ m \in 1..n
  BY <1>2, <1>4
<1>6. g \in [0..m -> V] /\ g[0] = base
  <2>1. step[<<m, f[m - 1]>>] \in V
    BY <1>5
  <2>. QED
    BY <1>2, <1>4, <2>1
<1>7. ASSUME NEW i \in 1..m PROVE g[i] = step[<<i, g[i - 1]>>]
  <2>1. g[i - 1] = f[i - 1]
    BY <1>7
  <2>2. CASE i = m
    <3>1. m \in 0..m /\ g[m] = step[<<m, f[m - 1]>>]
      BY <1>5
    <3>. HIDE DEF g
    <3>. QED
      BY <2>1, <2>2, <3>1
  <2>3. CASE i # m
    <3>1. i \in 1..(m - 1)
      BY <2>3
    <3>. QED
      BY <1>4, <2>1, <2>3, <3>1
  <2>. QED
    BY <2>2, <2>3
<1>8. Rec(g, m)
  BY <1>6, <1>7
<1>. QED
  BY <1>8

-----------------------------------------------------------------------------
(* Sequences: what is on them, and nothing twice. *)

LEMMA AppendIs ==
    ASSUME NEW T, NEW t \in Seq(T), NEW x \in T
    PROVE  /\ Append(t, x) \in Seq(T) /\ Len(Append(t, x)) = Len(t) + 1
           /\ Range(Append(t, x)) = Range(t) \cup {x}
           /\ IsInjective(t) /\ x \notin Range(t) => IsInjective(Append(t, x))
<1>. DEFINE u == Append(t, x)
<1>1. u \in Seq(T) /\ Len(u) = Len(t) + 1 /\ DOMAIN u = 1..(Len(t) + 1)
  OBVIOUS
<1>2. DOMAIN t = 1..Len(t) /\ Len(t) \in Nat
  OBVIOUS
<1>3. \A i \in 1..(Len(t) + 1) : u[i] = IF i = Len(t) + 1 THEN x ELSE t[i]
  OBVIOUS
<1>. HIDE DEF u
<1>4. Range(u) = Range(t) \cup {x}
  <2>1. ASSUME NEW y \in Range(u) PROVE y \in Range(t) \cup {x}
    BY <1>1, <1>2, <1>3 DEF Range
  <2>2. ASSUME NEW y \in Range(t) PROVE y \in Range(u)
    BY <1>1, <1>2, <1>3 DEF Range
  <2>3. x \in Range(u)
    <3>1. Len(t) + 1 \in DOMAIN u /\ u[Len(t) + 1] = x
      BY <1>1, <1>2, <1>3
    <3>. QED
      BY <3>1 DEF Range
  <2>. QED
    BY <2>1, <2>2, <2>3
<1>5. ASSUME IsInjective(t), x \notin Range(t) PROVE IsInjective(u)
  <2>. SUFFICES ASSUME NEW i \in DOMAIN u, NEW j \in DOMAIN u, u[i] = u[j], i # j PROVE FALSE
    BY DEF IsInjective
  <2>1. i \in 1..(Len(t) + 1) /\ j \in 1..(Len(t) + 1)
    BY <1>1
  <2>2. \A k \in 1..(Len(t) + 1) : k # Len(t) + 1 => k \in DOMAIN t
    BY <1>2
  <2>. QED
    BY <1>3, <1>5, <2>1, <2>2 DEF IsInjective, Range
<1>. QED
  BY <1>1, <1>4, <1>5 DEF u

LEMMA ConcatIs ==
    ASSUME NEW T, NEW t \in Seq(T), NEW u \in Seq(T)
    PROVE  /\ t \o u \in Seq(T) /\ Len(t \o u) = Len(t) + Len(u)
           /\ Range(t \o u) = Range(t) \cup Range(u)
           /\ IsInjective(t \o u) <=> /\ IsInjective(t) /\ IsInjective(u)
                                      /\ Range(t) \cap Range(u) = {}
<1>. DEFINE v == t \o u
<1>1. v \in Seq(T) /\ Len(v) = Len(t) + Len(u) /\ DOMAIN v = 1..(Len(t) + Len(u))
  OBVIOUS
<1>2. DOMAIN t = 1..Len(t) /\ Len(t) \in Nat /\ DOMAIN u = 1..Len(u) /\ Len(u) \in Nat
  OBVIOUS
<1>3. \A i \in 1..(Len(t) + Len(u)) : v[i] = IF i <= Len(t) THEN t[i] ELSE u[i - Len(t)]
  OBVIOUS
<1>. HIDE DEF v
<1>4. /\ \A i \in DOMAIN t : i \in DOMAIN v /\ v[i] = t[i]
      /\ \A i \in DOMAIN u : i + Len(t) \in DOMAIN v /\ v[i + Len(t)] = u[i]
      /\ \A i \in DOMAIN v : \/ i \in DOMAIN t
                             \/ i - Len(t) \in DOMAIN u /\ i = (i - Len(t)) + Len(t)
  BY <1>1, <1>2, <1>3
<1>5. Range(v) = Range(t) \cup Range(u)
  <2>1. ASSUME NEW y \in Range(v) PROVE y \in Range(t) \cup Range(u)
    <3>1. PICK i \in DOMAIN v : v[i] = y
      BY DEF Range
    <3>. QED
      BY <1>4, <3>1 DEF Range
  <2>2. ASSUME NEW y \in Range(t) PROVE y \in Range(v)
    BY <1>4 DEF Range
  <2>3. ASSUME NEW y \in Range(u) PROVE y \in Range(v)
    <3>1. PICK i \in DOMAIN u : u[i] = y
      BY DEF Range
    <3>. QED
      BY <1>4, <3>1 DEF Range
  <2>. QED
    BY <2>1, <2>2, <2>3
<1>6. ASSUME IsInjective(v)
      PROVE  IsInjective(t) /\ IsInjective(u) /\ Range(t) \cap Range(u) = {}
  <2>1. IsInjective(t)
    BY <1>4, <1>6 DEF IsInjective
  <2>2. IsInjective(u)
    <3>. SUFFICES ASSUME NEW i \in DOMAIN u, NEW j \in DOMAIN u, u[i] = u[j] PROVE i = j
      BY DEF IsInjective
    <3>1. i + Len(t) = j + Len(t)
      BY <1>4, <1>6 DEF IsInjective
    <3>. QED
      BY <1>2, <3>1
  <2>3. ASSUME NEW y \in Range(t), y \in Range(u) PROVE FALSE
    <3>1. PICK i \in DOMAIN t : t[i] = y
      BY DEF Range
    <3>2. PICK j \in DOMAIN u : u[j] = y
      BY <2>3 DEF Range
    <3>3. i = j + Len(t)
      BY <1>4, <1>6, <3>1, <3>2 DEF IsInjective
    <3>. QED
      BY <1>2, <3>3
  <2>. QED
    BY <2>1, <2>2, <2>3
<1>7. ASSUME IsInjective(t), IsInjective(u), Range(t) \cap Range(u) = {}
      PROVE  IsInjective(v)
  <2>. SUFFICES ASSUME NEW i \in DOMAIN v, NEW j \in DOMAIN v, v[i] = v[j] PROVE i = j
    BY DEF IsInjective
  <2>1. CASE i \in DOMAIN t /\ j \in DOMAIN t
    BY <1>4, <1>7, <2>1 DEF IsInjective
  <2>2. CASE i \notin DOMAIN t /\ j \notin DOMAIN t
    <3>1. i - Len(t) \in DOMAIN u /\ i = (i - Len(t)) + Len(t) /\ v[i] = u[i - Len(t)]
      BY <1>4, <2>2
    <3>2. j - Len(t) \in DOMAIN u /\ j = (j - Len(t)) + Len(t) /\ v[j] = u[j - Len(t)]
      BY <1>4, <2>2
    <3>3. i - Len(t) = j - Len(t)
      BY <1>7, <3>1, <3>2 DEF IsInjective
    <3>. QED
      BY <3>1, <3>2, <3>3
  <2>3. CASE ~(i \in DOMAIN t <=> j \in DOMAIN t)
    <3>1. \A k \in DOMAIN v : IF k \in DOMAIN t THEN v[k] \in Range(t) ELSE v[k] \in Range(u)
      <4>. SUFFICES ASSUME NEW k \in DOMAIN v, k \notin DOMAIN t PROVE v[k] \in Range(u)
        BY <1>4 DEF Range
      <4>1. k - Len(t) \in DOMAIN u /\ k = (k - Len(t)) + Len(t)
        BY <1>4
      <4>2. v[k] = u[k - Len(t)]
        BY <1>4, <4>1
      <4>. QED
        BY <4>1, <4>2 DEF Range
    <3>. QED
      BY <1>7, <2>3, <3>1
  <2>. QED
    BY <2>1, <2>2, <2>3
<1>. QED
  BY <1>1, <1>5, <1>6, <1>7 DEF v

\* The length of a list with nothing twice is the number of what is on it.
LEMMA LenIs ==
    ASSUME NEW T, NEW t \in Seq(T), IsInjective(t)
    PROVE  IsFiniteSet(Range(t)) /\ Cardinality(Range(t)) = Len(t)
<1>. DEFINE D == 1..Len(t)
<1>1. Len(t) \in Nat /\ DOMAIN t = D
  OBVIOUS
<1>2. IsFiniteSet(D) /\ Cardinality(D) = Len(t)
  BY <1>1, FS_Interval
<1>3. t \in [D -> Range(t)] /\ \A y \in Range(t) : \E i \in D : t[i] = y
  <2>1. t = [i \in D |-> t[i]]
    BY <1>1
  <2>. QED
    BY <1>1, <2>1 DEF Range
<1>4. t \in Bijection(D, Range(t))
  BY <1>3 DEF Bijection, Injection, Surjection
<1>. HIDE DEF D
<1>5. ExistsBijection(D, Range(t))
  BY <1>4 DEF ExistsBijection
<1>. QED
  BY <1>2, <1>5, FS_Bijection

\* The beginning of a list and the rest.
LEMMA SplitIs ==
    ASSUME NEW T, NEW t \in Seq(T), NEW i \in 0..Len(t)
    PROVE  /\ SubSeq(t, 1, i) \in Seq(T) /\ Len(SubSeq(t, 1, i)) = i
           /\ From(t, i) \in Seq(T) /\ Len(From(t, i)) = Len(t) - i
           /\ t = SubSeq(t, 1, i) \o From(t, i)
<1>1. \A j \in DOMAIN t : t[j] \in T
  OBVIOUS
<1>2. SubSeq(t, 1, i) \in Seq(T) /\ Len(SubSeq(t, 1, i)) = i
  OBVIOUS
<1>3. From(t, i) \in Seq(T) /\ Len(From(t, i)) = Len(t) - i
  BY DEF From
<1>4. t = SubSeq(t, 1, i) \o From(t, i)
  <2>1. SubSeq(t, 1, i) \o SubSeq(t, i + 1, Len(t)) = SubSeq(t, 1, Len(t))
    <3>1. 1 \in 1..(Len(t) + 1) /\ i \in (1 - 1)..Len(t) /\ Len(t) \in i..Len(t)
      OBVIOUS
    <3>. QED
      BY <3>1, ConcatAdjacentSubSeq
  <2>. QED
    BY <2>1, SubSeqFull DEF From
<1>. QED
  BY <1>2, <1>3, <1>4

\* What Among keeps of a list.
LEMMA AmongIs ==
    ASSUME NEW T, NEW t \in Seq(T), NEW S
    PROVE  /\ Among(t, S) \in Seq(T)
           /\ Range(Among(t, S)) = Range(t) \cap S
           /\ IsInjective(t) => IsInjective(Among(t, S))
<1>. DEFINE n == Len(t)
            V == Seq(T)
            step == [p \in (1..n) \X V |-> IF t[p[1]] \in S THEN Append(p[2], t[p[1]]) ELSE p[2]]
            Loop(f) == f = [i \in 0..n |-> IF i = 0 THEN <<>>
                                           ELSE IF t[i] \in S THEN Append(f[i - 1], t[i])
                                           ELSE f[i - 1]]
            g == CHOOSE f : Loop(f)
<1>1. Among(t, S) = g[n]
  BY DEF Among
<1>2. n \in Nat /\ DOMAIN t = 1..n /\ \A i \in 1..n : t[i] \in T
  OBVIOUS
<1>. DEFINE base == <<>>
<1>3. Steps(step, n, V) /\ base \in V
  BY <1>2 DEF Steps
<1>. HIDE DEF n
<1>4. PICK f : f \in [0..n -> V] /\ f[0] = base /\ \A i \in 1..n : f[i] = step[<<i, f[i - 1]>>]
  <2>. HIDE DEF V, step, base
  <2>1. \E f : Recurs(f, n, V, base, step)
    BY <1>2, <1>3, RecursionExists
  <2>. QED
    BY <2>1 DEF Recurs
<1>5. Loop(f)
  <2>1. \A i \in 1..n : i - 1 \in 0..n
    BY <1>2
  <2>2. \A i \in 1..n : f[i - 1] \in V
    BY <1>4, <2>1
  <2>3. ASSUME NEW i \in 1..n
        PROVE  f[i] = IF t[i] \in S THEN Append(f[i - 1], t[i]) ELSE f[i - 1]
    BY <1>4, <2>2
  <2>4. \A i \in 0..n : i = 0 \/ i \in 1..n
    BY <1>2
  <2>5. \A i \in 0..n : f[i] = IF i = 0 THEN <<>>
                              ELSE IF t[i] \in S THEN Append(f[i - 1], t[i])
                              ELSE f[i - 1]
    BY <1>4, <2>3, <2>4
  <2>. QED
    BY <1>4, <2>5
<1>6. Loop(g)
  <2>. HIDE DEF Loop
  <2>. QED
    BY <1>5
<1>. HIDE DEF g
<1>7. g[0] = <<>> /\ \A i \in 1..n : g[i] = IF t[i] \in S THEN Append(g[i - 1], t[i]) ELSE g[i - 1]
  <2>1. \A i \in 0..n : g[i] = IF i = 0 THEN <<>>
                              ELSE IF t[i] \in S THEN Append(g[i - 1], t[i])
                              ELSE g[i - 1]
    BY <1>6
  <2>2. 0 \in 0..n /\ \A i \in 1..n : i \in 0..n /\ i # 0
    BY <1>2
  <2>3. g[0] = <<>>
    BY <2>1, <2>2
  <2>. QED
    BY <2>1, <2>2, <2>3
<1>. DEFINE Good(i) == /\ g[i] \in Seq(T)
                       /\ Range(g[i]) = {t[j] : j \in 1..i} \cap S
                       /\ IsInjective(t) => IsInjective(g[i])
            Bad == {i \in 0..n : ~Good(i)}
<1>8. Bad = {}
  <2>. SUFFICES ASSUME Bad # {} PROVE FALSE
    OBVIOUS
  <2>1. PICK m \in Bad : \A l \in Bad : m <= l
    <3>1. Bad \in SUBSET Nat
      OBVIOUS
    <3>. HIDE DEF Bad
    <3>. QED
      BY <3>1, LeastNat
  <2>2. Good(0)
    BY <1>7 DEF Range, IsInjective
  <2>3. m \in 1..n /\ Good(m - 1)
    <3>1. m # 0
      BY <2>1, <2>2
    <3>2. m \in 1..n /\ m - 1 \in 0..n /\ ~(m <= m - 1)
      BY <1>2, <3>1
    <3>. QED
      BY <2>1, <3>2
  <2>. DEFINE v == g[m - 1]
  <2>4. {t[j] : j \in 1..m} = {t[j] : j \in 1..(m - 1)} \cup {t[m]}
    <3>1. 1..m = 1..(m - 1) \cup {m}
      BY <1>2, <2>3
    <3>. QED
      BY <3>1
  <2>5. IsInjective(t) => t[m] \notin Range(v)
    <3>. SUFFICES ASSUME IsInjective(t), t[m] \in Range(v) PROVE FALSE
      OBVIOUS
    <3>1. PICK j \in 1..(m - 1) : t[j] = t[m]
      BY <2>3
    <3>2. j \in DOMAIN t /\ m \in DOMAIN t /\ j # m
      BY <1>2, <2>3
    <3>. QED
      BY <3>1, <3>2 DEF IsInjective
  <2>6. CASE t[m] \in S
    <3>1. g[m] = Append(v, t[m]) /\ t[m] \in T /\ v \in Seq(T)
      BY <1>2, <1>7, <2>3, <2>6
    <3>. HIDE DEF v
    <3>2. /\ g[m] \in Seq(T) /\ Range(g[m]) = Range(v) \cup {t[m]}
          /\ IsInjective(v) /\ t[m] \notin Range(v) => IsInjective(g[m])
      BY <3>1, AppendIs
    <3>3. Range(g[m]) = {t[j] : j \in 1..m} \cap S
      BY <2>3, <2>4, <2>6, <3>2 DEF v
    <3>4. IsInjective(t) => IsInjective(g[m])
      BY <2>3, <2>5, <3>2 DEF v
    <3>. QED
      BY <2>1, <3>2, <3>3, <3>4
  <2>7. CASE t[m] \notin S
    <3>1. g[m] = v
      BY <1>7, <2>3, <2>7
    <3>2. Range(g[m]) = {t[j] : j \in 1..m} \cap S
      BY <2>3, <2>4, <2>7, <3>1
    <3>. QED
      BY <2>1, <2>3, <3>1, <3>2
  <2>. QED
    BY <2>6, <2>7
<1>9. Good(n)
  <2>1. n \in 0..n
    BY <1>2
  <2>. HIDE DEF Good
  <2>. QED
    BY <1>8, <2>1
<1>. QED
  BY <1>1, <1>2, <1>9 DEF Range

-----------------------------------------------------------------------------
(* The three lists of a neighbour. *)

OnLists(r) == Range(r.retrans) \cup Range(r.pend) \cup Range(r.failed)

\* No LSA is on them twice, and retrans_cnt counts x more than there are.
Sound(r, x) ==
    /\ r \in Neighbours
    /\ IsInjective(r.retrans) /\ IsInjective(r.pend) /\ IsInjective(r.failed)
    /\ Range(r.retrans) \cap Range(r.pend) = {}
    /\ Range(r.retrans) \cap Range(r.failed) = {}
    /\ Range(r.pend) \cap Range(r.failed) = {}
    /\ r.cnt = Len(r.retrans) + Len(r.pend) + Len(r.failed) + x

Timed(r) == r.cnt > 0 => r.lsat

LEMMA EntriesAre ==
    ASSUME NEW r, Sound(r, 0)
    PROVE  /\ Range(Entries(r)) = OnLists(r) /\ IsInjective(Entries(r))
           /\ r.cnt = Len(Entries(r)) /\ Entries(r) \in Seq(Objects)
<1>. DEFINE a == r.retrans \o r.pend
<1>1. r.retrans \in Seq(Objects) /\ r.pend \in Seq(Objects) /\ r.failed \in Seq(Objects)
  BY DEF Sound, Neighbours
<1>2. /\ a \in Seq(Objects) /\ Len(a) = Len(r.retrans) + Len(r.pend)
      /\ Range(a) = Range(r.retrans) \cup Range(r.pend) /\ IsInjective(a)
  BY <1>1, ConcatIs DEF Sound
<1>3. Entries(r) = a \o r.failed
  BY <1>1, ConcatAssociative DEF Entries
<1>. HIDE DEF a
<1>4. Range(a) \cap Range(r.failed) = {} /\ IsInjective(r.failed)
  BY <1>2 DEF Sound
<1>5. /\ a \o r.failed \in Seq(Objects) /\ Len(a \o r.failed) = Len(a) + Len(r.failed)
      /\ Range(a \o r.failed) = Range(a) \cup Range(r.failed)
      /\ IsInjective(a \o r.failed)
  <2>. DEFINE b == r.failed
  <2>1. b \in Seq(Objects) /\ IsInjective(b) /\ Range(a) \cap Range(b) = {}
    BY <1>1, <1>4
  <2>. HIDE DEF b
  <2>2. /\ a \o b \in Seq(Objects) /\ Len(a \o b) = Len(a) + Len(b)
        /\ Range(a \o b) = Range(a) \cup Range(b)
    BY <1>2, <2>1, ConcatIs
  <2>3. IsInjective(a \o b)
    BY <1>2, <2>1, ConcatIs
  <2>. QED
    BY <2>2, <2>3 DEF b
<1>. QED
  BY <1>2, <1>3, <1>5 DEF OnLists, Sound

LEMMA ContainsIs ==
    ASSUME NEW T, NEW t \in Seq(T), NEW o
    PROVE  Contains(t, o) <=> o \in Range(t)
<1>1. DOMAIN t = 1..Len(t)
  OBVIOUS
<1>. QED
  BY <1>1 DEF Contains, Range

LEMMA MaxIs ==
    ASSUME NEW n \in Nat, NEW U \in SUBSET (0..n), U # {}
    PROVE  Max(U) \in U /\ \A j \in U : j <= Max(U)
<1>1. PICK k \in U : \A j \in U : j <= k
  BY GreatestNat
<1>2. \A j \in U : k >= j
  BY <1>1
<1>3. Max(U) \in U /\ \A j \in U : Max(U) >= j
  BY <1>2 DEF Max
<1>. QED
  BY <1>3

\* The beginning of a list, of which the valid LSAs are sent, and the rest, which stays.
LEMMA PartsAre ==
    ASSUME NEW t \in Seq(Objects), IsInjective(t), NEW i \in 0..Len(t)
    PROVE  LET sent == ValidIn(SubSeq(t, 1, i))
               rest == From(t, i)
           IN  /\ sent \in Seq(Objects) /\ IsInjective(sent) /\ Len(sent) \in Nat
               /\ rest \in Seq(Objects) /\ IsInjective(rest) /\ Len(rest) = Len(t) - i
               /\ Range(sent) \cup Range(rest) \subseteq Range(t)
               /\ Range(sent) \cap Range(rest) = {}
               /\ Range(t) \cap db \subseteq Range(sent) \cup Range(rest)
<1>. DEFINE p == SubSeq(t, 1, i)
            q == From(t, i)
<1>1. /\ p \in Seq(Objects) /\ q \in Seq(Objects) /\ Len(q) = Len(t) - i
      /\ t = p \o q
  BY SplitIs
<1>. HIDE DEF p, q
<1>2. /\ Range(t) = Range(p) \cup Range(q)
      /\ IsInjective(p) /\ IsInjective(q) /\ Range(p) \cap Range(q) = {}
  BY <1>1, ConcatIs
<1>3. /\ ValidIn(p) \in Seq(Objects) /\ Range(ValidIn(p)) = Range(p) \cap db
      /\ IsInjective(ValidIn(p))
  BY <1>1, <1>2, AmongIs DEF ValidIn
<1>4. Len(ValidIn(p)) \in Nat
  BY <1>3
<1>. QED
  BY <1>1, <1>2, <1>3, <1>4 DEF p, q

\* Behind a beginning without a valid LSA there is at most one in the next place.
LEMMA OneMore ==
    ASSUME NEW t \in Seq(Objects), IsInjective(t), NEW i \in 0..Len(t), i < Len(t),
           Len(ValidIn(SubSeq(t, 1, i))) = 0
    PROVE  Len(ValidIn(SubSeq(t, 1, i + 1))) <= 1
<1>. DEFINE p == SubSeq(t, 1, i)
            q == SubSeq(t, 1, i + 1)
            v == ValidIn(q)
            rest == From(t, i + 1)
<1>0. i + 1 \in 0..Len(t)
  OBVIOUS
<1>1. p \in Seq(Objects) /\ q \in Seq(Objects) /\ rest \in Seq(Objects) /\ t = q \o rest
  <2>1. p \in Seq(Objects)
    BY SplitIs
  <2>. QED
    BY <1>0, <2>1, SplitIs
<1>2. t[i + 1] \in Objects /\ q = Append(p, t[i + 1])
  OBVIOUS
<1>. HIDE DEF p, q, rest
<1>3. Range(q) = Range(p) \cup {t[i + 1]}
  <2>. DEFINE x == t[i + 1]
  <2>1. x \in Objects /\ q = Append(p, x)
    BY <1>2
  <2>. HIDE DEF x
  <2>2. Range(Append(p, x)) = Range(p) \cup {x}
    BY <1>1, <2>1, AppendIs
  <2>. QED
    BY <2>1, <2>2 DEF x
<1>4. IsInjective(q)
  BY <1>1, ConcatIs
<1>5. v \in Seq(Objects) /\ IsInjective(v) /\ Range(v) = Range(q) \cap db
  BY <1>1, <1>4, AmongIs DEF ValidIn
<1>6. Range(p) \cap db = {}
  <2>1. ValidIn(p) \in Seq(Objects) /\ Range(ValidIn(p)) = Range(p) \cap db
    BY <1>1, AmongIs DEF ValidIn
  <2>2. ValidIn(p) = <<>>
    BY <2>1 DEF p
  <2>. QED
    BY <2>1, <2>2 DEF Range
<1>7. Range(v) \in SUBSET {t[i + 1]}
  BY <1>3, <1>5, <1>6
<1>. HIDE DEF v
<1>8. Cardinality(Range(v)) = Len(v)
  BY <1>5, LenIs
<1>9. Cardinality(Range(v)) <= 1
  <2>. DEFINE one == {t[i + 1]}
  <2>1. IsFiniteSet(one) /\ Cardinality(one) = 1 /\ Range(v) \in SUBSET one
    BY <1>7, FS_Singleton
  <2>. HIDE DEF one
  <2>2. Cardinality(Range(v)) <= Cardinality(one)
    BY <2>1, FS_Subset
  <2>. QED
    BY <2>1, <2>2
<1>. QED
  BY <1>8, <1>9 DEF v, q

\* Of no beginning nothing is sent.
LEMMA NothingYet ==
    ASSUME NEW t \in Seq(Objects)
    PROVE  Len(ValidIn(SubSeq(t, 1, 0))) = 0
<1>. DEFINE p == SubSeq(t, 1, 0)
            v == Among(p, db)
<1>1. p \in Seq(Objects) /\ DOMAIN p = {}
  OBVIOUS
<1>. HIDE DEF p
<1>2. Range(p) = {}
  BY <1>1 DEF Range
<1>3. v \in Seq(Objects) /\ Range(v) = Range(p) \cap db
  BY <1>1, AmongIs
<1>. HIDE DEF v
<1>4. Len(v) = 0
  <2>. SUFFICES ASSUME Len(v) # 0 PROVE FALSE
    OBVIOUS
  <2>1. 1 \in DOMAIN v
    BY <1>3
  <2>2. v[1] \in Range(v)
    BY <2>1 DEF Range
  <2>. QED
    BY <1>2, <1>3, <2>2
<1>. QED
  BY <1>4 DEF v, p, ValidIn

LEMMA BeginningIs ==
    ASSUME NEW t \in Seq(Objects), NEW m \in Nat
    PROVE  LET i == Beginning(t, m)
           IN  /\ i \in 0..Len(t) /\ Len(ValidIn(SubSeq(t, 1, i))) <= m
               /\ IsInjective(t) /\ m >= 1 /\ Len(ValidIn(SubSeq(t, 1, i))) = 0
                  => i = Len(t) \/ (i < Len(t) /\ IsYoung(t[i + 1]))
<1>. DEFINE Taken(i) == /\ \A j \in 1..i : ~IsYoung(t[j])
                        /\ Len(ValidIn(SubSeq(t, 1, i))) <= m
            U == {i \in 0..Len(t) : Taken(i)}
            b == Beginning(t, m)
<1>1. b = Max(U)
  BY DEF Beginning
<1>2. Len(t) \in Nat
  OBVIOUS
<1>3. Taken(0)
  <2>1. Len(ValidIn(SubSeq(t, 1, 0))) <= m
    BY NothingYet
  <2>. QED
    BY <2>1
<1>4. U \in SUBSET (0..Len(t)) /\ 0 \in U
  BY <1>2, <1>3
<1>5. b \in U /\ \A i \in U : i <= b
  <2>. HIDE DEF U
  <2>. QED
    BY <1>1, <1>2, <1>4, MaxIs
<1>. HIDE DEF b
<1>6. b \in 0..Len(t) /\ Taken(b)
  BY <1>5
<1>7. ASSUME IsInjective(t), m >= 1, Len(ValidIn(SubSeq(t, 1, b))) = 0, b # Len(t)
      PROVE  b < Len(t) /\ IsYoung(t[b + 1])
  <2>1. b < Len(t) /\ b + 1 \in 0..Len(t)
    BY <1>2, <1>6, <1>7
  <2>2. ~(b + 1 <= b)
    BY <1>6
  <2>3. ~Taken(b + 1)
    <3>. HIDE DEF Taken
    <3>. QED
      BY <1>5, <2>1, <2>2
  <2>4. Len(ValidIn(SubSeq(t, 1, b + 1))) <= 1
    BY <1>6, <1>7, <2>1, OneMore
  <2>5. Len(ValidIn(SubSeq(t, 1, b + 1))) <= m
    <3>1. ValidIn(SubSeq(t, 1, b + 1)) \in Seq(Objects)
      BY <1>7, <2>1, PartsAre
    <3>2. Len(ValidIn(SubSeq(t, 1, b + 1))) \in Nat
      BY <3>1
    <3>. QED
      BY <1>7, <2>4, <3>2
  <2>6. PICK j \in 1..(b + 1) : IsYoung(t[j])
    BY <2>3, <2>5
  <2>7. j = b + 1
    <3>1. j \notin 1..b
      BY <1>6, <2>6
    <3>. QED
      BY <1>6, <3>1
  <2>. QED
    BY <2>1, <2>6, <2>7
<1>. QED
  BY <1>6, <1>7 DEF b

-----------------------------------------------------------------------------
(* The operations on the lists. *)

\* s is r with no LSA more on its lists, and with those that have not become invalid.
Thinned(s, r, x) ==
    /\ Sound(s, x)
    /\ OnLists(s) \subseteq OnLists(r) /\ OnLists(r) \cap db \subseteq OnLists(s)

\* Sending again loses and duplicates nothing valid, and stops short of a young LSA only
\* when it has sent nothing.
LEMMA ResendIs ==
    ASSUME NEW x \in Nat, NEW r, Sound(r, x), NEW m \in Nat
    PROVE  LET s == Resend(r, m)
           IN  /\ Thinned(s, r, x) /\ s.lsat = r.lsat
               /\ Len(s.pend) >= Len(r.pend)
               /\ m >= 1 /\ Len(s.pend) = Len(r.pend) =>
                     Waits(s) \/ (Len(s.retrans) = 0 /\ Len(s.failed) = 0)
<1>. DEFINE a == r.retrans
            b == r.pend
            c == r.failed
            i == Beginning(a, m)
            sent1 == ValidIn(SubSeq(a, 1, i))
            rest1 == From(a, i)
            blocked == i < Len(a) /\ ~IsYoung(a[i + 1])
            room == m - Len(sent1)
            E == {e \in 0..Len(c) : Len(ValidIn(SubSeq(c, 1, e))) <= room}
            j == IF blocked THEN 0 ELSE Max(E)
            sent2 == ValidIn(SubSeq(c, 1, j))
            rest2 == From(c, j)
            sent == sent1 \o sent2
            s == Resend(r, m)
<1>1. /\ a \in Seq(Objects) /\ b \in Seq(Objects) /\ c \in Seq(Objects)
      /\ IsInjective(a) /\ IsInjective(b) /\ IsInjective(c)
      /\ Range(a) \cap Range(b) = {} /\ Range(a) \cap Range(c) = {}
      /\ Range(b) \cap Range(c) = {}
      /\ r.cnt = Len(a) + Len(b) + Len(c) + x
      /\ r \in Neighbours
  BY DEF Sound, Neighbours
<1>2. s = [r EXCEPT !.retrans = rest1, !.failed = rest2, !.pend = b \o sent,
                    !.cnt = r.cnt - (i + j - Len(sent))]
  BY DEF Resend
<1>. HIDE DEF a, b, c, s
<1>3. /\ i \in 0..Len(a) /\ Len(sent1) <= m
      /\ m >= 1 /\ Len(sent1) = 0 => i = Len(a) \/ (i < Len(a) /\ IsYoung(a[i + 1]))
  BY <1>1, BeginningIs
<1>. HIDE DEF i
<1>4. /\ sent1 \in Seq(Objects) /\ IsInjective(sent1) /\ Len(sent1) \in Nat
      /\ rest1 \in Seq(Objects) /\ IsInjective(rest1) /\ Len(rest1) = Len(a) - i
      /\ Range(sent1) \cup Range(rest1) \subseteq Range(a)
      /\ Range(sent1) \cap Range(rest1) = {}
      /\ Range(a) \cap db \subseteq Range(sent1) \cup Range(rest1)
  BY <1>1, <1>3, PartsAre
<1>5. (Len(rest1) = 0 <=> i = Len(a)) /\ (i < Len(a) /\ IsYoung(a[i + 1]) => Waits(s))
  <2>1. Len(rest1) = 0 <=> i = Len(a)
    BY <1>1, <1>3, <1>4
  <2>2. ASSUME i < Len(a), IsYoung(a[i + 1]) PROVE Waits(s)
    <3>1. rest1[1] = a[i + 1]
      BY <1>1, <1>3, <2>2 DEF From
    <3>2. rest1 # <<>>
      BY <1>1, <1>3, <1>4, <2>2
    <3>3. s.retrans = rest1
      BY <1>1, <1>2 DEF Neighbours
    <3>. QED
      BY <2>2, <3>1, <3>2, <3>3 DEF Waits
  <2>. QED
    BY <2>1, <2>2
<1>. HIDE DEF sent1, rest1
<1>6. /\ j \in 0..Len(c)
      /\ m >= 1 /\ Len(sent1) = 0 /\ Len(sent2) = 0 /\ ~blocked => j = Len(c)
  <2>1. Len(c) \in Nat /\ room \in Nat
    BY <1>1, <1>3, <1>4
  <2>2. Len(ValidIn(SubSeq(c, 1, 0))) <= room
    <3>1. Len(ValidIn(SubSeq(c, 1, 0))) = 0
      BY <1>1, NothingYet
    <3>. QED
      BY <2>1, <3>1
  <2>3. 0 \in E /\ E \in SUBSET (0..Len(c))
    BY <2>1, <2>2
  <2>4. Max(E) \in E /\ \A e \in E : e <= Max(E)
    <3>. HIDE DEF E
    <3>. QED
      BY <2>1, <2>3, MaxIs
  <2>5. j \in 0..Len(c)
    BY <2>1, <2>4
  <2>6. ASSUME m >= 1, Len(sent1) = 0, Len(sent2) = 0, ~blocked, j # Len(c) PROVE FALSE
    <3>. HIDE DEF blocked, E
    <3>1. j = Max(E) /\ j < Len(c) /\ j + 1 \in 0..Len(c) /\ ~(j + 1 <= j)
      BY <2>1, <2>5, <2>6
    <3>. HIDE DEF j
    <3>2. Len(ValidIn(SubSeq(c, 1, j + 1))) <= 1
      BY <1>1, <2>5, <2>6, <3>1, OneMore
    <3>3. ValidIn(SubSeq(c, 1, j + 1)) \in Seq(Objects)
      BY <1>1, <3>1, PartsAre
    <3>4. Len(ValidIn(SubSeq(c, 1, j + 1))) <= room
      <4>1. Len(ValidIn(SubSeq(c, 1, j + 1))) \in Nat
        BY <3>3
      <4>. QED
        BY <2>6, <3>2, <4>1
    <3>5. j + 1 \in E
      BY <3>1, <3>4 DEF E
    <3>. QED
      BY <2>4, <3>1, <3>5
  <2>. QED
    BY <2>5, <2>6
<1>. HIDE DEF j, room, E, blocked
<1>7. /\ sent2 \in Seq(Objects) /\ IsInjective(sent2) /\ Len(sent2) \in Nat
      /\ rest2 \in Seq(Objects) /\ IsInjective(rest2) /\ Len(rest2) = Len(c) - j
      /\ Range(sent2) \cup Range(rest2) \subseteq Range(c)
      /\ Range(sent2) \cap Range(rest2) = {}
      /\ Range(c) \cap db \subseteq Range(sent2) \cup Range(rest2)
  BY <1>1, <1>6, PartsAre
<1>. HIDE DEF sent2, rest2
<1>8. /\ sent \in Seq(Objects) /\ Len(sent) = Len(sent1) + Len(sent2)
      /\ Range(sent) = Range(sent1) \cup Range(sent2)
      /\ IsInjective(sent)
  <2>1. Range(sent1) \cap Range(sent2) = {}
    BY <1>1, <1>4, <1>7
  <2>. QED
    BY <1>4, <1>7, <2>1, ConcatIs
<1>. HIDE DEF sent
<1>. DEFINE d == b \o sent
<1>9. /\ d \in Seq(Objects) /\ Len(d) = Len(b) + Len(sent)
      /\ Range(d) = Range(b) \cup Range(sent)
      /\ IsInjective(d)
  <2>1. Range(b) \cap Range(sent) = {}
    BY <1>1, <1>4, <1>7, <1>8
  <2>. QED
    <3>1. b \in Seq(Objects) /\ IsInjective(b) /\ sent \in Seq(Objects) /\ IsInjective(sent)
      BY <1>1, <1>8
    <3>. QED
      BY <2>1, <3>1, ConcatIs
<1>. HIDE DEF d
<1>10. /\ Len(a) \in Nat /\ Len(b) \in Nat /\ Len(c) \in Nat /\ Len(sent) \in Nat
  BY <1>1, <1>8
<1>11. r.cnt - (i + j - Len(sent)) = Len(rest1) + Len(d) + Len(rest2) + x
       /\ r.cnt - (i + j - Len(sent)) \in Nat
  <2>1. r.cnt - (i + j - Len(sent)) = Len(rest1) + Len(d) + Len(rest2) + x
    BY <1>1, <1>3, <1>4, <1>6, <1>7, <1>9, <1>10
  <2>2. Len(rest1) \in Nat /\ Len(rest2) \in Nat /\ Len(d) \in Nat
    BY <1>3, <1>4, <1>6, <1>7, <1>9, <1>10
  <2>. QED
    BY <2>1, <2>2
<1>12. /\ s \in Neighbours /\ s.retrans = rest1 /\ s.pend = d /\ s.failed = rest2
       /\ s.lsat = r.lsat /\ s.cnt = r.cnt - (i + j - Len(sent))
  BY <1>1, <1>2, <1>4, <1>7, <1>9, <1>11 DEF Neighbours, d
<1>13. Sound(s, x)
  <2>1. Range(rest1) \cap Range(d) = {}
    BY <1>1, <1>4, <1>7, <1>8, <1>9
  <2>2. Range(rest1) \cap Range(rest2) = {}
    BY <1>1, <1>4, <1>7
  <2>3. Range(d) \cap Range(rest2) = {}
    BY <1>1, <1>4, <1>7, <1>8, <1>9
  <2>. QED
    BY <1>4, <1>7, <1>9, <1>11, <1>12, <2>1, <2>2, <2>3 DEF Sound
<1>14. OnLists(s) \subseteq OnLists(r) /\ OnLists(r) \cap db \subseteq OnLists(s)
  BY <1>4, <1>7, <1>8, <1>9, <1>12 DEF OnLists, a, b, c
<1>15. Len(s.pend) >= Len(r.pend)
  BY <1>9, <1>10, <1>12 DEF b
<1>16. ASSUME m >= 1, Len(s.pend) = Len(r.pend)
       PROVE  Waits(s) \/ (Len(s.retrans) = 0 /\ Len(s.failed) = 0)
  <2>1. Len(sent1) = 0 /\ Len(sent2) = 0
    <3>1. Len(d) = Len(b)
      BY <1>12, <1>16 DEF b
    <3>2. Len(sent) = 0
      BY <1>9, <1>10, <3>1
    <3>3. Len(sent1) \in Nat /\ Len(sent2) \in Nat
      BY <1>4, <1>7
    <3>4. Len(sent1) + Len(sent2) = 0
      BY <1>8, <3>2
    <3>. QED
      BY <3>3, <3>4
  <2>2. CASE i = Len(a)
    <3>1. ~blocked
      BY <1>10, <2>2 DEF blocked
    <3>2. Len(rest1) = 0 /\ j = Len(c)
      BY <1>5, <1>6, <1>16, <2>1, <2>2, <3>1
    <3>3. Len(rest2) = 0
      BY <1>7, <1>10, <3>2
    <3>. QED
      BY <1>12, <3>2, <3>3
  <2>3. CASE i < Len(a) /\ IsYoung(a[i + 1])
    BY <1>5, <2>3
  <2>. QED
    BY <1>3, <1>16, <2>1, <2>2, <2>3
<1>. QED
  BY <1>12, <1>13, <1>14, <1>15, <1>16 DEF Thinned, s

\* What has been sent again waits for its acknowledgement, or a young LSA for its age.
LEMMA UpdatesAre ==
    ASSUME NEW x \in Nat, NEW r, Sound(r, x)
    PROVE  LET s == retrans_updates(r)
           IN  /\ Thinned(s, r, x)
               /\ Len(r.pend) = 0 /\ s.cnt > x => s.lsat
<1>. DEFINE m == r.window * PktLsas
            q == Resend(r, m)
            s == retrans_updates(r)
            lsat == q.lsat \/ Len(q.pend) > Len(r.pend) \/ Waits(q)
<1>1. m \in Nat /\ m >= 1
  <2>1. r.window \in Nat \ {0} /\ PktLsas \in Nat \ {0}
    BY FloodingAssumption DEF Sound, Neighbours
  <2>. QED
    BY <2>1
<1>. HIDE DEF m
<1>2. /\ Thinned(q, r, x) /\ q.lsat = r.lsat /\ Len(q.pend) >= Len(r.pend)
      /\ Len(q.pend) = Len(r.pend) => Waits(q) \/ (Len(q.retrans) = 0 /\ Len(q.failed) = 0)
  BY <1>1, ResendIs
<1>3. s = [q EXCEPT !.lsat = lsat]
  BY DEF retrans_updates, m
<1>. HIDE DEF q, s
<1>4. lsat \in BOOLEAN
  BY <1>2 DEF Waits, IsYoung, Thinned, Sound, Neighbours
<1>5. /\ s \in Neighbours /\ s.retrans = q.retrans /\ s.pend = q.pend /\ s.failed = q.failed
      /\ s.cnt = q.cnt /\ s.lsat = lsat
  BY <1>2, <1>3, <1>4 DEF Thinned, Sound, Neighbours
<1>6. Thinned(s, r, x)
  BY <1>2, <1>5 DEF Thinned, Sound, OnLists
<1>7. ASSUME Len(r.pend) = 0, s.cnt > x PROVE s.lsat
  <2>1. Len(q.pend) \in Nat /\ Len(q.retrans) \in Nat /\ Len(q.failed) \in Nat
    BY <1>2 DEF Thinned, Sound, Neighbours
  <2>2. CASE Len(q.pend) > Len(r.pend) \/ Waits(q)
    BY <1>5, <2>2
  <2>3. CASE ~(Len(q.pend) > Len(r.pend) \/ Waits(q))
    <3>1. Len(q.pend) = 0
      BY <1>7, <2>1, <2>3
    <3>2. Len(q.retrans) = 0 /\ Len(q.failed) = 0
      BY <1>2, <1>7, <2>3, <3>1
    <3>3. q.cnt = Len(q.retrans) + Len(q.pend) + Len(q.failed) + x
      BY <1>2 DEF Thinned, Sound
    <3>. QED
      BY <1>5, <1>7, <3>1, <3>2, <3>3
  <2>. QED
    BY <2>2, <2>3
<1>. QED
  BY <1>6, <1>7 DEF s

LEMMA AddIs ==
    ASSUME NEW r, Sound(r, 0), r.cnt > 0 => r.lsat, NEW o \in Objects, o \notin OnLists(r)
    PROVE  LET s == add_to_retranslist(r, o)
           IN  /\ Sound(s, 0) /\ OnLists(s) = OnLists(r) \cup {o}
               /\ s.cnt > 0 => s.lsat
<1>. DEFINE a == r.retrans
            s == add_to_retranslist(r, o)
            lsat == r.lsat \/ r.cnt = 0
<1>1. /\ a \in Seq(Objects) /\ r.pend \in Seq(Objects) /\ r.failed \in Seq(Objects)
      /\ IsInjective(a) /\ o \notin Range(a) /\ r.lsat \in BOOLEAN /\ r.cnt \in Nat
      /\ r \in Neighbours
  BY DEF Sound, Neighbours, OnLists
<1>2. s = [r EXCEPT !.retrans = Append(a, o), !.cnt = r.cnt + 1, !.lsat = lsat]
  BY DEF add_to_retranslist
<1>. HIDE DEF a
<1>3. /\ Append(a, o) \in Seq(Objects) /\ Len(Append(a, o)) = Len(a) + 1
      /\ Range(Append(a, o)) = Range(a) \cup {o} /\ IsInjective(Append(a, o))
  BY <1>1, AppendIs
<1>4. lsat \in BOOLEAN /\ r.cnt + 1 \in Nat /\ lsat
  BY <1>1
<1>. HIDE DEF s, lsat
<1>5. /\ s \in Neighbours /\ s.retrans = Append(a, o) /\ s.pend = r.pend /\ s.failed = r.failed
      /\ s.cnt = r.cnt + 1 /\ s.lsat = lsat
  BY <1>1, <1>2, <1>3, <1>4 DEF Neighbours
<1>6. s.cnt = Len(s.retrans) + Len(s.pend) + Len(s.failed) + 0
  <2>1. Len(a) \in Nat /\ Len(r.pend) \in Nat /\ Len(r.failed) \in Nat
    BY <1>1
  <2>2. r.cnt = Len(a) + Len(r.pend) + Len(r.failed) + 0
    BY DEF Sound, a
  <2>3. /\ s.cnt = r.cnt + 1 /\ Len(s.retrans) = Len(a) + 1 /\ Len(s.pend) = Len(r.pend)
        /\ Len(s.failed) = Len(r.failed)
    BY <1>3, <1>5
  <2>. DEFINE p == Len(a)
              q == Len(r.pend)
              f == Len(r.failed)
  <2>. HIDE DEF p, q, f
  <2>4. p \in Nat /\ q \in Nat /\ f \in Nat
    BY <2>1 DEF p, q, f
  <2>5. s.cnt = (p + q + f + 0) + 1
    BY <2>2, <2>3 DEF p, q, f
  <2>6. (p + q + f + 0) + 1 = (p + 1) + q + f + 0
    BY <2>4
  <2>7. Len(s.retrans) = p + 1 /\ Len(s.pend) = q /\ Len(s.failed) = f
    BY <2>3 DEF p, q, f
  <2>. QED
    BY <2>5, <2>6, <2>7
<1>7. Sound(s, 0)
  <2>1. /\ Range(s.retrans) \cap Range(s.pend) = {} /\ Range(s.retrans) \cap Range(s.failed) = {}
        /\ Range(s.pend) \cap Range(s.failed) = {}
    BY <1>3, <1>5 DEF Sound, OnLists, a
  <2>2. IsInjective(s.retrans) /\ IsInjective(s.pend) /\ IsInjective(s.failed)
    BY <1>3, <1>5 DEF Sound
  <2>. QED
    BY <1>5, <1>6, <2>1, <2>2 DEF Sound
<1>8. OnLists(s) = OnLists(r) \cup {o}
  BY <1>3, <1>5 DEF OnLists, a
<1>. QED
  BY <1>4, <1>5, <1>7, <1>8 DEF s

\* A list without o, which is on it once.
LEMMA AckedIs ==
    ASSUME NEW t \in Seq(Objects), IsInjective(t), NEW o \in Range(t)
    PROVE  /\ Acked(t, o) \in Seq(Objects) /\ IsInjective(Acked(t, o))
           /\ Range(Acked(t, o)) = Range(t) \ {o}
           /\ Len(t) \in Nat /\ Len(Acked(t, o)) \in Nat /\ Len(t) = Len(Acked(t, o)) + 1
<1>. DEFINE u == Acked(t, o)
            S == Range(t) \ {o}
<1>1. u \in Seq(Objects) /\ IsInjective(u) /\ Range(u) = Range(t) \cap S
  BY AmongIs DEF Acked
<1>2. IsFiniteSet(Range(t)) /\ Cardinality(Range(t)) = Len(t)
  BY LenIs
<1>3. Cardinality(S) = Cardinality(Range(t)) - 1
  BY <1>2, FS_RemoveElement
<1>4. Range(u) = S
  BY <1>1
<1>. HIDE DEF u, S
<1>5. Cardinality(Range(u)) = Len(u)
  BY <1>1, LenIs
<1>6. Len(t) \in Nat /\ Len(u) \in Nat
  BY <1>1
<1>7. Len(t) = Len(u) + 1
  BY <1>2, <1>3, <1>4, <1>5, <1>6
<1>. QED
  BY <1>1, <1>4, <1>6, <1>7 DEF u, S

LEMMA WidenIs ==
    ASSUME NEW x \in Nat, NEW r, Sound(r, x)
    PROVE  /\ Sound(Widen(r), x) /\ OnLists(Widen(r)) = OnLists(r)
           /\ Widen(r).pend = r.pend
<1>. DEFINE w == 2 * r.window
            top == max_retrans_window
            v == Min({w, top})
            s == Widen(r)
<1>1. w \in Nat \ {0} /\ top \in Nat \ {0}
  BY FloodingAssumption DEF Sound, Neighbours
<1>2. s = [r EXCEPT !.window = v, !.lsat = FALSE]
  BY DEF Widen
<1>. HIDE DEF w, top
<1>3. v \in 1..top
  <2>1. \E y \in {w, top} : \A z \in {w, top} : y <= z
    BY <1>1
  <2>2. v \in {w, top} /\ \A z \in {w, top} : v <= z
    BY <2>1 DEF Min
  <2>. QED
    BY <1>1, <2>2
<1>. HIDE DEF v, s
<1>4. /\ s \in Neighbours /\ s.retrans = r.retrans /\ s.pend = r.pend /\ s.failed = r.failed
      /\ s.cnt = r.cnt
  BY <1>2, <1>3 DEF Sound, Neighbours, top
<1>. QED
  BY <1>4 DEF Sound, OnLists, s

\* An acknowledged LSA is on no list any more.
LEMMA RemoveIs ==
    ASSUME NEW r, Sound(r, 0), r.cnt > 0 => r.lsat, NEW o \in OnLists(r)
    PROVE  LET s == remove_from_retranslist(r, o)
           IN  /\ Sound(s, 0) /\ OnLists(s) \subseteq OnLists(r) \ {o}
               /\ (OnLists(r) \ {o}) \cap db \subseteq OnLists(s)
               /\ s.cnt > 0 => s.lsat
<1>. DEFINE a == r.retrans
            b == r.pend
            c == r.failed
            s == remove_from_retranslist(r, o)
<1>1. /\ a \in Seq(Objects) /\ b \in Seq(Objects) /\ c \in Seq(Objects)
      /\ IsInjective(a) /\ IsInjective(b) /\ IsInjective(c)
      /\ Range(a) \cap Range(b) = {} /\ Range(a) \cap Range(c) = {}
      /\ Range(b) \cap Range(c) = {}
      /\ r.cnt = Len(a) + Len(b) + Len(c)
      /\ r \in Neighbours
  <2>1. Len(a) \in Nat /\ Len(b) \in Nat /\ Len(c) \in Nat
    BY DEF Sound, Neighbours
  <2>. QED
    BY <2>1 DEF Sound, Neighbours
<1>2. o \in Range(a) \cup Range(b) \cup Range(c)
  BY DEF OnLists
<1>3. Len(a) \in Nat /\ Len(b) \in Nat /\ Len(c) \in Nat
  BY <1>1
<1>4. (Contains(a, o) <=> o \in Range(a)) /\ (Contains(b, o) <=> o \in Range(b))
  BY <1>1, ContainsIs
<1>. HIDE DEF a, b, c
<1>5. CASE o \in Range(a)
  <2>. DEFINE u == Acked(a, o)
  <2>1. /\ u \in Seq(Objects) /\ IsInjective(u) /\ Range(u) = Range(a) \ {o}
        /\ Len(u) \in Nat /\ Len(a) = Len(u) + 1
    BY <1>1, <1>5, AckedIs
  <2>2. s = [r EXCEPT !.retrans = u, !.cnt = r.cnt - 1]
    <3>. DEFINE after == [r EXCEPT !.retrans = u]
    <3>1. s = [after EXCEPT !.cnt = after.cnt - 1]
      <4>1. Contains(a, o) /\ ~Contains(b, o)
        BY <1>1, <1>4, <1>5
      <4>. QED
        BY <4>1 DEF remove_from_retranslist, a, b
    <3>2. after.cnt = r.cnt
      BY <1>1 DEF Neighbours
    <3>. QED
      BY <3>1, <3>2
  <2>. HIDE DEF u, s
  <2>3. r.cnt - 1 \in Nat /\ r.cnt - 1 = Len(u) + Len(b) + Len(c) + 0 /\ r.cnt > 0
    BY <1>1, <1>3, <2>1
  <2>4. /\ s \in Neighbours /\ s.retrans = u /\ s.pend = b /\ s.failed = c
        /\ s.cnt = r.cnt - 1 /\ s.lsat = r.lsat
    BY <1>1, <2>1, <2>2, <2>3 DEF Neighbours, b, c
  <2>5. Sound(s, 0)
    BY <1>1, <2>1, <2>3, <2>4 DEF Sound
  <2>6. OnLists(s) = OnLists(r) \ {o}
    BY <1>1, <1>5, <2>1, <2>4 DEF OnLists, a, b, c
  <2>. QED
    BY <2>3, <2>4, <2>5, <2>6 DEF s
<1>6. CASE o \notin Range(a) /\ o \in Range(b)
  <2>. DEFINE u == Acked(b, o)
              rest == [r EXCEPT !.pend = u]
              w == Widen(rest)
              t == retrans_updates(w)
              after == remove_from_pending_retrans(r, o)
  <2>1. /\ u \in Seq(Objects) /\ IsInjective(u) /\ Range(u) = Range(b) \ {o}
        /\ Len(u) \in Nat /\ Len(b) = Len(u) + 1
    BY <1>1, <1>6, AckedIs
  <2>2. s = [after EXCEPT !.cnt = after.cnt - 1]
    BY <1>4, <1>6 DEF remove_from_retranslist, a, b
  <2>3. after = IF rest.pend # <<>> THEN rest ELSE t
    BY DEF remove_from_pending_retrans, b
  <2>. HIDE DEF u, s, after
  <2>4. r.cnt > 0 /\ r.cnt = Len(a) + Len(u) + Len(c) + 1
    BY <1>1, <1>3, <2>1
  <2>5. /\ rest \in Neighbours /\ rest.retrans = a /\ rest.pend = u /\ rest.failed = c
        /\ rest.cnt = r.cnt /\ rest.lsat = r.lsat
    BY <1>1, <2>1 DEF Neighbours, a, c
  <2>. HIDE DEF rest, t, w
  <2>6. Sound(rest, 1)
    BY <1>1, <2>1, <2>4, <2>5 DEF Sound
  <2>7. OnLists(rest) = OnLists(r) \ {o}
    BY <1>1, <1>6, <2>1, <2>5 DEF OnLists, a, b, c
  <2>8. Thinned(after, rest, 1) /\ (after.cnt > 1 => after.lsat)
    <3>1. CASE rest.pend # <<>>
      BY <2>3, <2>4, <2>5, <2>6, <3>1 DEF Thinned
    <3>2. CASE rest.pend = <<>>
      <4>1. Sound(w, 1) /\ OnLists(w) = OnLists(rest) /\ w.pend = rest.pend
        BY <2>6, WidenIs DEF w
      <4>2. Thinned(t, w, 1) /\ (Len(w.pend) = 0 /\ t.cnt > 1 => t.lsat)
        BY <4>1, UpdatesAre DEF t
      <4>. QED
        BY <2>3, <3>2, <4>1, <4>2 DEF Thinned
    <3>. QED
      BY <3>1, <3>2
  <2>9. /\ after \in Neighbours
        /\ after.cnt = Len(after.retrans) + Len(after.pend) + Len(after.failed) + 1
    BY <2>8 DEF Thinned, Sound
  <2>10. /\ Len(after.retrans) \in Nat /\ Len(after.pend) \in Nat /\ Len(after.failed) \in Nat
    BY <2>9 DEF Neighbours
  <2>11. /\ after.cnt - 1 = Len(after.retrans) + Len(after.pend) + Len(after.failed) + 0
         /\ after.cnt - 1 \in Nat
         /\ after.cnt - 1 > 0 => after.cnt > 1
    <3>. DEFINE p == Len(after.retrans)
                q == Len(after.pend)
                f == Len(after.failed)
                n == after.cnt
    <3>1. p \in Nat /\ q \in Nat /\ f \in Nat /\ n = p + q + f + 1
      BY <2>9, <2>10
    <3>. HIDE DEF p, q, f, n
    <3>2. n - 1 = p + q + f + 0 /\ n - 1 \in Nat /\ (n - 1 > 0 => n > 1)
      BY <3>1
    <3>. QED
      BY <3>2 DEF p, q, f, n
  <2>12. /\ s \in Neighbours /\ s.retrans = after.retrans /\ s.pend = after.pend
         /\ s.failed = after.failed /\ s.cnt = after.cnt - 1 /\ s.lsat = after.lsat
    BY <2>2, <2>9, <2>11 DEF Neighbours
  <2>13. Sound(s, 0)
    BY <2>8, <2>11, <2>12 DEF Thinned, Sound
  <2>14. OnLists(s) = OnLists(after)
    BY <2>12 DEF OnLists
  <2>. QED
    BY <2>7, <2>8, <2>11, <2>12, <2>13, <2>14 DEF Thinned, s
<1>7. CASE o \notin Range(a) /\ o \notin Range(b)
  <2>. DEFINE u == Acked(c, o)
  <2>1. /\ u \in Seq(Objects) /\ IsInjective(u) /\ Range(u) = Range(c) \ {o}
        /\ Len(u) \in Nat /\ Len(c) = Len(u) + 1
    BY <1>1, <1>2, <1>7, AckedIs
  <2>2. s = [r EXCEPT !.failed = u, !.cnt = r.cnt - 1]
    <3>. DEFINE after == [r EXCEPT !.failed = u]
    <3>1. s = [after EXCEPT !.cnt = after.cnt - 1]
      BY <1>4, <1>7 DEF remove_from_retranslist, a, b, c
    <3>2. after.cnt = r.cnt
      BY <1>1 DEF Neighbours
    <3>. QED
      BY <3>1, <3>2
  <2>. HIDE DEF u, s
  <2>3. r.cnt - 1 \in Nat /\ r.cnt - 1 = Len(a) + Len(b) + Len(u) + 0 /\ r.cnt > 0
    BY <1>1, <1>3, <2>1
  <2>4. /\ s \in Neighbours /\ s.retrans = a /\ s.pend = b /\ s.failed = u
        /\ s.cnt = r.cnt - 1 /\ s.lsat = r.lsat
    BY <1>1, <2>1, <2>2, <2>3 DEF Neighbours, a, b
  <2>5. Sound(s, 0)
    BY <1>1, <2>1, <2>3, <2>4 DEF Sound
  <2>6. OnLists(s) = OnLists(r) \ {o}
    BY <1>1, <1>7, <2>1, <2>4 DEF OnLists, a, b, c
  <2>. QED
    BY <2>3, <2>4, <2>5, <2>6 DEF s
<1>. QED
  BY <1>5, <1>6, <1>7

\* The valid LSAs of a list.
LEMMA ValidInIs ==
    ASSUME NEW t \in Seq(Objects), IsInjective(t)
    PROVE  /\ ValidIn(t) \in Seq(Objects) /\ IsInjective(ValidIn(t))
           /\ Range(ValidIn(t)) = Range(t) \cap db
           /\ Len(t) \in Nat /\ Len(ValidIn(t)) \in Nat /\ Len(ValidIn(t)) <= Len(t)
<1>. DEFINE v == ValidIn(t)
<1>1. v \in Seq(Objects) /\ IsInjective(v) /\ Range(v) = Range(t) \cap db
  BY AmongIs DEF ValidIn
<1>. HIDE DEF v
<1>2. Cardinality(Range(v)) = Len(v)
  BY <1>1, LenIs
<1>3. IsFiniteSet(Range(t)) /\ Cardinality(Range(t)) = Len(t)
  BY LenIs
<1>4. Range(v) \in SUBSET Range(t)
  BY <1>1
<1>5. Cardinality(Range(v)) <= Cardinality(Range(t))
  BY <1>3, <1>4, FS_Subset
<1>6. Len(t) \in Nat /\ Len(v) \in Nat
  BY <1>1
<1>. QED
  BY <1>1, <1>2, <1>3, <1>5, <1>6 DEF v

LEMMA CollectIs ==
    ASSUME NEW r, Sound(r, 0), r.cnt > 0 => r.lsat
    PROVE  LET s == garbage_collect(r)
           IN  Thinned(s, r, 0) /\ (s.cnt > 0 => s.lsat)
<1>. DEFINE a == r.retrans
            b == r.pend
            c == r.failed
            va == ValidIn(a)
            vc == ValidIn(c)
            n == r.cnt - (Len(a) - Len(va)) - (Len(c) - Len(vc))
            s == garbage_collect(r)
<1>1. /\ a \in Seq(Objects) /\ b \in Seq(Objects) /\ c \in Seq(Objects)
      /\ IsInjective(a) /\ IsInjective(b) /\ IsInjective(c)
      /\ Range(a) \cap Range(b) = {} /\ Range(a) \cap Range(c) = {}
      /\ Range(b) \cap Range(c) = {}
      /\ r.cnt = Len(a) + Len(b) + Len(c) + 0
      /\ r \in Neighbours
  BY DEF Sound, Neighbours
<1>2. s = [r EXCEPT !.retrans = va, !.failed = vc, !.cnt = n]
  BY DEF garbage_collect
<1>. HIDE DEF a, b, c, s
<1>3. /\ va \in Seq(Objects) /\ IsInjective(va) /\ Range(va) = Range(a) \cap db
      /\ Len(a) \in Nat /\ Len(va) \in Nat /\ Len(va) <= Len(a)
  BY <1>1, ValidInIs
<1>4. /\ vc \in Seq(Objects) /\ IsInjective(vc) /\ Range(vc) = Range(c) \cap db
      /\ Len(c) \in Nat /\ Len(vc) \in Nat /\ Len(vc) <= Len(c)
  BY <1>1, ValidInIs
<1>5. Len(b) \in Nat
  BY <1>1
<1>. HIDE DEF va, vc
<1>6. n \in Nat /\ n = Len(va) + Len(b) + Len(vc) + 0 /\ (n > 0 => r.cnt > 0)
  <2>1. r.cnt = Len(a) + Len(b) + Len(c) + 0
    BY <1>1
  <2>. QED
    BY <1>3, <1>4, <1>5, <2>1
<1>. HIDE DEF n
<1>7. /\ s \in Neighbours /\ s.retrans = va /\ s.pend = b /\ s.failed = vc
      /\ s.cnt = n /\ s.lsat = r.lsat
  BY <1>1, <1>2, <1>3, <1>4, <1>6 DEF Neighbours, b
<1>8. Sound(s, 0)
  <2>1. /\ Range(va) \cap Range(b) = {} /\ Range(va) \cap Range(vc) = {}
        /\ Range(b) \cap Range(vc) = {}
    BY <1>1, <1>3, <1>4
  <2>. QED
    BY <1>1, <1>3, <1>4, <1>6, <1>7, <2>1 DEF Sound
<1>9. OnLists(s) \subseteq OnLists(r) /\ OnLists(r) \cap db \subseteq OnLists(s)
  BY <1>3, <1>4, <1>7 DEF OnLists, a, b, c
<1>. QED
  BY <1>6, <1>7, <1>8, <1>9 DEF Thinned, s

\* LSATimer::action.
LEMMA ExpireIs ==
    ASSUME NEW r, Sound(r, 0)
    PROVE  LET s == Expire(r)
           IN  Thinned(s, r, 0) /\ (s.cnt > 0 => s.lsat)
<1>. DEFINE moved == [r EXCEPT !.lsat = FALSE, !.pend = <<>>, !.failed = r.failed \o r.pend]
            w == IF Resend(moved, 1).pend # <<>> THEN 1 ELSE r.window
            start == [moved EXCEPT !.window = w]
            t == retrans_updates(start)
            s == Expire(r)
<1>1. /\ r.retrans \in Seq(Objects) /\ r.pend \in Seq(Objects) /\ r.failed \in Seq(Objects)
      /\ r \in Neighbours
  BY DEF Sound, Neighbours
<1>. DEFINE f == r.failed \o r.pend
            e == <<>>
<1>2. /\ f \in Seq(Objects) /\ Len(f) = Len(r.failed) + Len(r.pend)
      /\ Range(f) = Range(r.failed) \cup Range(r.pend)
  BY <1>1, ConcatIs
<1>3. IsInjective(f)
  <2>1. IsInjective(r.failed) /\ IsInjective(r.pend) /\ Range(r.failed) \cap Range(r.pend) = {}
    BY DEF Sound
  <2>. DEFINE c == r.failed
              b == r.pend
  <2>2. /\ c \in Seq(Objects) /\ b \in Seq(Objects) /\ IsInjective(c) /\ IsInjective(b)
        /\ Range(c) \cap Range(b) = {}
    BY <1>1, <2>1
  <2>. HIDE DEF b, c
  <2>3. IsInjective(c \o b)
    BY <2>2, ConcatIs
  <2>. QED
    BY <2>3 DEF b, c
<1>4. e \in Seq(Objects) /\ Len(e) = 0 /\ Range(e) = {} /\ IsInjective(e)
  BY DEF Range, IsInjective
<1>5. w \in 1..max_retrans_window
  <2>1. r.window \in 1..max_retrans_window /\ max_retrans_window \in Nat \ {0}
    BY <1>1, FloodingAssumption DEF Neighbours
  <2>. QED
    BY <2>1
<1>6. start = [r EXCEPT !.lsat = FALSE, !.pend = e, !.failed = f, !.window = w]
  BY <1>1 DEF Neighbours
<1>7. s = garbage_collect(t)
  <2>1. moved.window = r.window
    BY <1>1 DEF Neighbours
  <2>. QED
    BY <2>1 DEF Expire
<1>. HIDE DEF w, e, f, start, s
<1>8. /\ start \in Neighbours /\ start.retrans = r.retrans /\ start.pend = e
      /\ start.failed = f /\ start.cnt = r.cnt
  BY <1>1, <1>2, <1>4, <1>5, <1>6 DEF Neighbours
<1>9. Sound(start, 0)
  <2>1. r.cnt = Len(r.retrans) + Len(e) + Len(f) + 0
    <3>1. Len(r.retrans) \in Nat /\ Len(r.pend) \in Nat /\ Len(r.failed) \in Nat
      BY <1>1
    <3>2. r.cnt = Len(r.retrans) + Len(r.pend) + Len(r.failed) + 0
      BY DEF Sound
    <3>. DEFINE p == Len(r.retrans)
                q == Len(r.pend)
                g == Len(r.failed)
                n == r.cnt
    <3>3. p \in Nat /\ q \in Nat /\ g \in Nat /\ n = p + q + g + 0
      BY <3>1, <3>2
    <3>4. Len(f) = g + q /\ Len(e) = 0
      BY <1>2, <1>4
    <3>. HIDE DEF p, q, g, n
    <3>5. n = p + 0 + (g + q) + 0
      BY <3>3
    <3>6. n = p + Len(e) + Len(f) + 0
      BY <3>4, <3>5
    <3>. QED
      BY <3>6 DEF p, n
  <2>2. IsInjective(r.retrans) /\ Range(r.retrans) \cap Range(f) = {}
    BY <1>2 DEF Sound
  <2>. QED
    BY <1>3, <1>4, <1>8, <2>1, <2>2 DEF Sound
<1>10. OnLists(start) = OnLists(r)
  BY <1>2, <1>4, <1>8 DEF OnLists
<1>11. Thinned(t, start, 0) /\ (Len(start.pend) = 0 /\ t.cnt > 0 => t.lsat)
  BY <1>9, UpdatesAre
<1>. HIDE DEF t
<1>12. Sound(t, 0) /\ (t.cnt > 0 => t.lsat)
  BY <1>4, <1>8, <1>11 DEF Thinned
<1>13. Thinned(s, t, 0) /\ (s.cnt > 0 => s.lsat)
  BY <1>7, <1>12, CollectIs
<1>14. Thinned(s, r, 0)
  BY <1>10, <1>11, <1>13 DEF Thinned
<1>. QED
  BY <1>13, <1>14 DEF s

\* Whether the neighbour is up is none of the business of its lists.
Fields == {"up", "retrans", "pend", "failed", "cnt", "window", "lsat"}
SameUp(s, r) == DOMAIN s = Fields /\ s.up = r.up

LEMMA ResendUp ==
    ASSUME NEW r, DOMAIN r = Fields, NEW m
    PROVE  SameUp(Resend(r, m), r)
  BY DEF Resend, SameUp, Fields

LEMMA UpdatesUp ==
    ASSUME NEW r, DOMAIN r = Fields
    PROVE  SameUp(retrans_updates(r), r)
<1>. DEFINE t == Resend(r, r.window * PktLsas)
            b == t.lsat \/ Len(t.pend) > Len(r.pend) \/ Waits(t)
<1>1. SameUp(t, r)
  BY ResendUp
<1>2. retrans_updates(r) = [t EXCEPT !.lsat = b]
  BY DEF retrans_updates
<1>. HIDE DEF t, b
<1>. QED
  BY <1>1, <1>2 DEF SameUp, Fields

LEMMA RemoveUp ==
    ASSUME NEW r, DOMAIN r = Fields, NEW o
    PROVE  SameUp(remove_from_retranslist(r, o), r)
<1>. DEFINE rest == [r EXCEPT !.pend = Acked(r.pend, o)]
            after == CASE Contains(r.retrans, o) -> [r EXCEPT !.retrans = Acked(r.retrans, o)]
                       [] Contains(r.pend, o) -> remove_from_pending_retrans(r, o)
                       [] OTHER -> [r EXCEPT !.failed = Acked(r.failed, o)]
<1>1. SameUp(rest, r)
  BY DEF SameUp, Fields
<1>2. SameUp(Widen(rest), r)
  BY <1>1 DEF Widen, SameUp, Fields
<1>3. SameUp(remove_from_pending_retrans(r, o), r)
  <2>1. SameUp(retrans_updates(Widen(rest)), r)
    BY <1>2, UpdatesUp DEF SameUp
  <2>. QED
    BY <1>1, <2>1 DEF remove_from_pending_retrans
<1>4. /\ SameUp([r EXCEPT !.retrans = Acked(r.retrans, o)], r)
      /\ SameUp([r EXCEPT !.failed = Acked(r.failed, o)], r)
  BY DEF SameUp, Fields
<1>5. SameUp(after, r)
  BY <1>3, <1>4
<1>6. remove_from_retranslist(r, o) = [after EXCEPT !.cnt = after.cnt - 1]
  BY DEF remove_from_retranslist
<1>. HIDE DEF after
<1>. QED
  BY <1>5, <1>6 DEF SameUp, Fields

LEMMA ExpireUp ==
    ASSUME NEW r, DOMAIN r = Fields
    PROVE  SameUp(Expire(r), r)
<1>. DEFINE moved == [r EXCEPT !.lsat = FALSE, !.pend = <<>>, !.failed = r.failed \o r.pend]
            w == IF Resend(moved, 1).pend # <<>> THEN 1 ELSE moved.window
            start == [moved EXCEPT !.window = w]
            t == retrans_updates(start)
<1>1. SameUp(moved, r)
  BY DEF SameUp, Fields
<1>2. Expire(r) = garbage_collect(t)
  BY DEF Expire
<1>. HIDE DEF moved, w
<1>3. SameUp(start, r)
  BY <1>1 DEF SameUp, Fields
<1>. HIDE DEF start
<1>4. SameUp(t, r)
  BY <1>3, UpdatesUp DEF SameUp
<1>. HIDE DEF t
<1>. QED
  BY <1>2, <1>4 DEF garbage_collect, SameUp, Fields

-----------------------------------------------------------------------------
(* The inductive invariant. *)

\* The neighbours that have to acknowledge the current instance of k.
Waiting(k) == {n \in Nbr : Current(k) \in OnLists(nbr[n])}

Typed ==
    /\ last \in [Key -> Nat] /\ db \subseteq {Current(k) : k \in Key}
    /\ young \subseteq Key /\ calm \in BOOLEAN
    /\ nbr \in [Nbr -> Neighbours] /\ lsa_rxmt \in [Key -> Nat]

\* The lists of every neighbour are sound and hold instances there have been.
Listed ==
    \A n \in Nbr : /\ Sound(nbr[n], 0) /\ Timed(nbr[n])
                   /\ \A o \in OnLists(nbr[n]) : o[1] \in Key /\ o[2] <= last[o[1]]

\* lsa_rxmt is right of every LSA, so nobody has one that is not in the database.
Counted ==
    \A k \in Key : /\ lsa_rxmt[k] = Cardinality(Waiting(k))
                   /\ Current(k) \notin db => lsa_rxmt[k] = 0

Inv == Typed /\ Listed /\ Counted

\* What is still to be described to a neighbour is not on its lists, and nothing
\* is on the lists of one that is down.
Described ==
    /\ db \subseteq Objects
    /\ ddlist \in [Nbr -> SUBSET Objects]
    /\ \A n \in Nbr : /\ \A o \in ddlist[n] : /\ o[1] \in Key /\ o[2] <= last[o[1]]
                                              /\ o \notin OnLists(nbr[n])
                      /\ ~nbr[n].up => OnLists(nbr[n]) = {} /\ ddlist[n] = {}

LEMMA QuietIs == Sound(Quiet, 0) /\ OnLists(Quiet) = {} /\ Timed(Quiet)
<1>. DEFINE e == <<>>
<1>1. e \in Seq(Objects) /\ Len(e) = 0 /\ Range(e) = {} /\ IsInjective(e)
  BY DEF Range, IsInjective
<1>2. 1 \in 1..max_retrans_window
  <2>1. max_retrans_window \in Nat \ {0}
    BY FloodingAssumption
  <2>. QED
    BY <2>1
<1>3. Quiet = [up |-> FALSE, retrans |-> e, pend |-> e, failed |-> e,
               cnt |-> 0, window |-> 1, lsat |-> FALSE]
  BY DEF Quiet
<1>. HIDE DEF e
<1>4. /\ Quiet \in Neighbours /\ Quiet.retrans = e /\ Quiet.pend = e /\ Quiet.failed = e
      /\ Quiet.cnt = 0
  BY <1>1, <1>2, <1>3 DEF Neighbours
<1>5. Quiet.cnt = Len(Quiet.retrans) + Len(Quiet.pend) + Len(Quiet.failed) + 0
  BY <1>1, <1>4
<1>. QED
  BY <1>1, <1>4, <1>5 DEF Sound, OnLists, Timed

LEMMA WaitingIs ==
    ASSUME NEW k
    PROVE  IsFiniteSet(Waiting(k)) /\ Cardinality(Waiting(k)) \in 0..Cardinality(Nbr)
<1>1. IsFiniteSet(Nbr) /\ Waiting(k) \in SUBSET Nbr
  BY FloodingAssumption DEF Waiting
<1>2. IsFiniteSet(Waiting(k)) /\ Cardinality(Waiting(k)) <= Cardinality(Nbr)
  BY <1>1, FS_Subset
<1>3. Cardinality(Waiting(k)) \in Nat /\ Cardinality(Nbr) \in Nat
  BY <1>1, <1>2, FS_CardinalityType
<1>. QED
  BY <1>2, <1>3

\* An instance the database does not have is on no list.
LEMMA GoneIs ==
    ASSUME Counted, NEW k \in Key, Current(k) \notin db
    PROVE  Waiting(k) = {}
<1>1. Cardinality(Waiting(k)) = 0
  BY DEF Counted
<1>2. IsFiniteSet(Waiting(k))
  BY WaitingIs
<1>. QED
  BY <1>1, <1>2, FS_EmptySet

\* A step after which neighbour n has fewer LSAs on its lists.
LEMMA FewerIs ==
    ASSUME Inv, NEW n \in Nbr, NEW s, Sound(s, 0), Timed(s),
           OnLists(s) \subseteq OnLists(nbr[n]),
           nbr' = [nbr EXCEPT ![n] = s], UNCHANGED <<last, db, young, calm>>
    PROVE  /\ nbr' \in [Nbr -> Neighbours] /\ Listed'
           /\ \A k \in Key : /\ Current(k)' = Current(k)
                             /\ Current(k) \in OnLists(s) => Waiting(k)' = Waiting(k)
                             /\ Current(k) \notin OnLists(s) =>
                                   Waiting(k)' = Waiting(k) \ {n}
<1>1. /\ nbr' \in [Nbr -> Neighbours] /\ nbr'[n] = s
      /\ \A m \in Nbr \ {n} : nbr'[m] = nbr[m]
  BY DEF Inv, Typed, Sound
<1>2. Listed'
  <2>. SUFFICES ASSUME NEW m \in Nbr
                PROVE  /\ Sound(nbr'[m], 0) /\ Timed(nbr'[m])
                       /\ \A o \in OnLists(nbr'[m]) : o[1] \in Key /\ o[2] <= last[o[1]]
    BY DEF Listed, Sound, Timed, OnLists, Neighbours, Objects
  <2>. QED
    BY <1>1 DEF Inv, Listed
<1>3. ASSUME NEW k \in Key
      PROVE  /\ Current(k)' = Current(k)
             /\ Current(k) \in OnLists(s) => Waiting(k)' = Waiting(k)
             /\ Current(k) \notin OnLists(s) => Waiting(k)' = Waiting(k) \ {n}
  <2>1. Current(k)' = Current(k)
    BY DEF Current
  <2>. DEFINE o == Current(k)
  <2>2. Waiting(k)' = {m \in Nbr : o \in OnLists(nbr'[m])}
    BY <2>1 DEF Waiting, OnLists
  <2>3. Waiting(k) = {m \in Nbr : o \in OnLists(nbr[m])}
    BY DEF Waiting
  <2>. HIDE DEF o
  <2>4. \A m \in Nbr : o \in OnLists(nbr'[m]) <=>
           IF m = n THEN o \in OnLists(s) ELSE o \in OnLists(nbr[m])
    BY <1>1
  <2>5. o \in OnLists(s) => o \in OnLists(nbr[n])
    OBVIOUS
  <2>. QED
    BY <2>1, <2>2, <2>3, <2>4, <2>5 DEF o
<1>. QED
  BY <1>1, <1>2, <1>3

LEMMA InitInv == Init => Inv /\ Described
<1>. SUFFICES ASSUME Init PROVE Inv /\ Described
  OBVIOUS
<1>1. \A n \in Nbr : nbr[n] = Quiet
  BY DEF Init
<1>2. Typed
  BY QuietIs DEF Init, Typed, Sound
<1>3. Listed
  BY <1>1, QuietIs DEF Listed
<1>4. ASSUME NEW k \in Key PROVE Waiting(k) = {} /\ lsa_rxmt[k] = 0
  BY <1>1, QuietIs DEF Waiting, Init
<1>5. Counted
  BY <1>4, FS_EmptySet DEF Counted
<1>6. Described
  BY <1>1, QuietIs DEF Init, Described
<1>. QED
  BY <1>2, <1>3, <1>5, <1>6 DEF Inv

-----------------------------------------------------------------------------
(* Every step keeps it. *)

LEMMA RecvAckKeeps ==
    ASSUME Inv, NEW n \in Nbr, NEW k \in Key, RecvAck(n, k) PROVE Inv'
<1>. DEFINE o == Current(k)
            r == nbr[n]
            s == remove_from_retranslist(r, o)
<1>1. /\ valid(o) /\ Contains(Entries(r), o) /\ nbr' = [nbr EXCEPT ![n] = s]
      /\ lsa_rxmt' = [lsa_rxmt EXCEPT ![k] = lsa_rxmt[k] - 1]
      /\ UNCHANGED <<last, db, young, calm>>
  BY DEF RecvAck
<1>2. Sound(r, 0) /\ (r.cnt > 0 => r.lsat)
  BY DEF Inv, Listed, Timed
<1>3. o \in OnLists(r)
  <2>1. Range(Entries(r)) = OnLists(r) /\ Entries(r) \in Seq(Objects)
    BY <1>2, EntriesAre
  <2>. QED
    BY <1>1, <2>1, ContainsIs
<1>. HIDE DEF r, o
<1>4. /\ Sound(s, 0) /\ OnLists(s) \subseteq OnLists(r) \ {o}
      /\ (OnLists(r) \ {o}) \cap db \subseteq OnLists(s) /\ (s.cnt > 0 => s.lsat)
  BY <1>2, <1>3, RemoveIs
<1>. HIDE DEF s
<1>5. Timed(s) /\ OnLists(s) \subseteq OnLists(nbr[n])
  BY <1>4 DEF Timed, r
<1>6. /\ nbr' \in [Nbr -> Neighbours] /\ Listed'
      /\ \A h \in Key : /\ Current(h)' = Current(h)
                        /\ Current(h) \in OnLists(s) => Waiting(h)' = Waiting(h)
                        /\ Current(h) \notin OnLists(s) => Waiting(h)' = Waiting(h) \ {n}
  BY <1>1, <1>4, <1>5, FewerIs
<1>7. n \in Waiting(k) /\ Waiting(k)' = Waiting(k) \ {n}
  BY <1>3, <1>4, <1>6 DEF Waiting, o, r
<1>8. Cardinality(Waiting(k)') = Cardinality(Waiting(k)) - 1
  BY <1>7, WaitingIs, FS_RemoveElement
<1>9. ASSUME NEW h \in Key, h # k PROVE Waiting(h)' = Waiting(h)
  <2>1. CASE Current(h) \in db
    <3>1. Current(h) # o
      BY <1>9 DEF Current, o
    <3>2. n \in Waiting(h) => Current(h) \in OnLists(r)
      BY DEF Waiting, r
    <3>. QED
      BY <1>4, <1>6, <2>1, <3>1, <3>2
  <2>2. CASE Current(h) \notin db
    BY <1>6, <2>2, GoneIs DEF Inv
  <2>. QED
    BY <2>1, <2>2
<1>10. lsa_rxmt[k] = Cardinality(Waiting(k)) /\ Current(k) \in db /\ Current(k)' \in db
  BY <1>1, <1>6 DEF Inv, Counted, valid, o
<1>11. ASSUME NEW h \in Key
       PROVE  /\ lsa_rxmt'[h] = Cardinality(Waiting(h)')
              /\ Current(h)' \notin db => lsa_rxmt'[h] = 0
  <2>1. CASE h = k
    BY <1>1, <1>8, <1>10, <2>1 DEF Inv, Typed
  <2>2. CASE h # k
    BY <1>1, <1>6, <1>9, <2>2 DEF Inv, Typed, Counted
  <2>. QED
    BY <2>1, <2>2
<1>12. Counted'
  BY <1>1, <1>11 DEF Counted
<1>13. Typed'
  <2>1. \A h \in Key : lsa_rxmt'[h] \in Nat
    <3>. SUFFICES ASSUME NEW h \in Key PROVE lsa_rxmt'[h] \in Nat
      OBVIOUS
    <3>1. IsFiniteSet(Waiting(h)) /\ IsFiniteSet(Waiting(h)')
      BY <1>6, WaitingIs, FS_Subset, FS_Difference
    <3>. QED
      BY <1>11, <3>1, FS_CardinalityType
  <2>2. lsa_rxmt' \in [Key -> Nat]
    BY <1>1, <2>1 DEF Inv, Typed
  <2>3. Current(k)' = Current(k) /\ {Current(h) : h \in Key}' = {Current(h) : h \in Key}
    BY <1>6
  <2>. QED
    BY <1>1, <1>6, <2>2, <2>3 DEF Inv, Typed
<1>. QED
  BY <1>6, <1>12, <1>13 DEF Inv

LEMMA LSATimerKeeps ==
    ASSUME Inv, NEW n \in Nbr, LSATimer(n) PROVE Inv'
<1>. DEFINE r == nbr[n]
            s == Expire(r)
<1>1. nbr' = [nbr EXCEPT ![n] = s] /\ UNCHANGED <<last, db, young, lsa_rxmt, calm>>
  BY DEF LSATimer
<1>2. Sound(r, 0)
  BY DEF Inv, Listed
<1>. HIDE DEF r
<1>3. Thinned(s, r, 0) /\ (s.cnt > 0 => s.lsat)
  BY <1>2, ExpireIs
<1>. HIDE DEF s
<1>4. Sound(s, 0) /\ Timed(s) /\ OnLists(s) \subseteq OnLists(nbr[n])
  BY <1>3 DEF Thinned, Timed, r
<1>5. /\ nbr' \in [Nbr -> Neighbours] /\ Listed'
      /\ \A h \in Key : /\ Current(h)' = Current(h)
                        /\ Current(h) \in OnLists(s) => Waiting(h)' = Waiting(h)
                        /\ Current(h) \notin OnLists(s) => Waiting(h)' = Waiting(h) \ {n}
  BY <1>1, <1>4, FewerIs
<1>6. ASSUME NEW h \in Key PROVE Waiting(h)' = Waiting(h)
  <2>1. CASE Current(h) \in db
    <3>1. n \in Waiting(h) => Current(h) \in OnLists(r)
      BY DEF Waiting, r
    <3>. QED
      BY <1>3, <1>5, <2>1, <3>1 DEF Thinned
  <2>2. CASE Current(h) \notin db
    BY <1>5, <2>2, GoneIs DEF Inv
  <2>. QED
    BY <2>1, <2>2
<1>7. Counted'
  BY <1>1, <1>5, <1>6 DEF Inv, Counted
<1>8. Typed'
  <2>1. {Current(h) : h \in Key}' = {Current(h) : h \in Key}
    BY <1>5
  <2>. QED
    BY <1>1, <1>5, <2>1 DEF Inv, Typed
<1>. QED
  BY <1>5, <1>7, <1>8 DEF Inv

LEMMA NbrDownKeeps ==
    ASSUME Inv, NEW n \in Nbr, NbrDown(n) PROVE Inv'
<1>. DEFINE r == nbr[n]
<1>1. /\ nbr' = [nbr EXCEPT ![n] = Quiet] /\ UNCHANGED <<last, db, young, calm>>
      /\ lsa_rxmt' = [k \in Key |-> IF Contains(Entries(r), Current(k)) THEN lsa_rxmt[k] - 1
                                    ELSE lsa_rxmt[k]]
  BY DEF NbrDown
<1>2. Range(Entries(r)) = OnLists(r) /\ Entries(r) \in Seq(Objects)
  BY EntriesAre DEF Inv, Listed
<1>3. \A k \in Key : Contains(Entries(r), Current(k)) <=> n \in Waiting(k)
  BY <1>2, ContainsIs DEF Waiting
<1>. HIDE DEF r
<1>4. Sound(Quiet, 0) /\ Timed(Quiet) /\ OnLists(Quiet) = {}
  BY QuietIs
<1>5. /\ nbr' \in [Nbr -> Neighbours] /\ Listed'
      /\ \A h \in Key : Current(h)' = Current(h) /\ Waiting(h)' = Waiting(h) \ {n}
  <2>. DEFINE s == Quiet
  <2>1. Sound(s, 0) /\ Timed(s) /\ OnLists(s) \subseteq OnLists(nbr[n]) /\ OnLists(s) = {}
    BY <1>4
  <2>2. nbr' = [nbr EXCEPT ![n] = s] /\ UNCHANGED <<last, db, young, calm>>
    BY <1>1
  <2>. HIDE DEF s
  <2>. QED
    BY <2>1, <2>2, FewerIs
<1>6. ASSUME NEW h \in Key
      PROVE  /\ lsa_rxmt'[h] = Cardinality(Waiting(h)') /\ lsa_rxmt'[h] \in Nat
             /\ Current(h)' \notin db => lsa_rxmt'[h] = 0
  <2>1. lsa_rxmt'[h] = IF n \in Waiting(h) THEN lsa_rxmt[h] - 1 ELSE lsa_rxmt[h]
    BY <1>1, <1>3
  <2>2. IsFiniteSet(Waiting(h)) /\ IsFiniteSet(Waiting(h)')
    BY <1>5, WaitingIs, FS_Subset, FS_Difference
  <2>3. Cardinality(Waiting(h)') \in Nat
    BY <2>2, FS_CardinalityType
  <2>4. lsa_rxmt[h] = Cardinality(Waiting(h))
    BY DEF Inv, Counted
  <2>5. CASE n \in Waiting(h)
    <3>1. Cardinality(Waiting(h)') = Cardinality(Waiting(h)) - 1
      BY <1>5, <2>2, <2>5, FS_RemoveElement
    <3>2. Current(h)' \in db
      BY <1>5, <2>5, GoneIs DEF Inv
    <3>. QED
      BY <2>1, <2>3, <2>4, <2>5, <3>1, <3>2
  <2>6. CASE n \notin Waiting(h)
    <3>1. Waiting(h)' = Waiting(h)
      BY <1>5, <2>6
    <3>. QED
      BY <1>5, <2>1, <2>3, <2>4, <2>6, <3>1 DEF Inv, Counted
  <2>. QED
    BY <2>5, <2>6
<1>7. Counted'
  BY <1>1, <1>6 DEF Counted
<1>8. Typed'
  <2>1. {Current(h) : h \in Key}' = {Current(h) : h \in Key}
    BY <1>5
  <2>2. lsa_rxmt' \in [Key -> Nat]
    BY <1>1, <1>6
  <2>. QED
    BY <1>1, <1>5, <2>1, <2>2 DEF Inv, Typed
<1>. QED
  BY <1>5, <1>7, <1>8 DEF Inv

LEMMA NbrUpKeeps ==
    ASSUME Inv, NEW n \in Nbr, NbrUp(n) PROVE Inv'
<1>. DEFINE s == [nbr[n] EXCEPT !.up = TRUE]
<1>1. nbr' = [nbr EXCEPT ![n] = s] /\ UNCHANGED <<last, db, young, lsa_rxmt, calm>>
  BY DEF NbrUp
<1>2. Sound(nbr[n], 0) /\ Timed(nbr[n])
  BY DEF Inv, Listed
<1>3. /\ s \in Neighbours /\ s.retrans = nbr[n].retrans /\ s.pend = nbr[n].pend
      /\ s.failed = nbr[n].failed /\ s.cnt = nbr[n].cnt /\ s.lsat = nbr[n].lsat
  BY <1>2 DEF Sound, Neighbours
<1>. HIDE DEF s
<1>4. Sound(s, 0) /\ Timed(s) /\ OnLists(s) = OnLists(nbr[n])
  BY <1>2, <1>3 DEF Sound, Timed, OnLists
<1>5. /\ nbr' \in [Nbr -> Neighbours] /\ Listed'
      /\ \A h \in Key : /\ Current(h)' = Current(h)
                        /\ Current(h) \in OnLists(s) => Waiting(h)' = Waiting(h)
                        /\ Current(h) \notin OnLists(s) => Waiting(h)' = Waiting(h) \ {n}
  BY <1>1, <1>4, FewerIs
<1>6. \A h \in Key : Waiting(h)' = Waiting(h)
  BY <1>4, <1>5 DEF Waiting
<1>7. Counted'
  BY <1>1, <1>5, <1>6 DEF Inv, Counted
<1>8. Typed'
  <2>1. {Current(h) : h \in Key}' = {Current(h) : h \in Key}
    BY <1>5
  <2>. QED
    BY <1>1, <1>5, <2>1 DEF Inv, Typed
<1>. QED
  BY <1>5, <1>7, <1>8 DEF Inv

\* The lists and the instances stay as they are.
LEMMA ListsKept ==
    ASSUME Inv, UNCHANGED <<last, lsa_rxmt, nbr>>, db' \subseteq db,
           young' \subseteq young, calm' \in BOOLEAN,
           \A k \in Key : Current(k) \in db \ db' => lsa_rxmt[k] = 0
    PROVE  Inv'
<1>1. \A k \in Key : Current(k)' = Current(k) /\ Waiting(k)' = Waiting(k)
  BY DEF Current, Waiting, OnLists
<1>2. Counted'
  BY <1>1 DEF Inv, Counted
<1>3. Listed'
  BY DEF Inv, Listed, Sound, Timed, OnLists, Neighbours, Objects
<1>4. Typed'
  <2>1. {Current(h) : h \in Key}' = {Current(h) : h \in Key}
    BY <1>1
  <2>. QED
    BY <2>1 DEF Inv, Typed, Neighbours, Objects
<1>. QED
  BY <1>2, <1>3, <1>4 DEF Inv

LEMMA InstallKeeps ==
    ASSUME Inv, NEW k \in Key, NEW n \in Nbr \cup {None}, NEW asked \in SUBSET Nbr,
           Install(k, n, asked)
    PROVE  Inv'
<1>. DEFINE o == <<k, last[k] + 1>>
            to == {x \in Nbr : nbr[x].up /\ x # n} \ asked
<1>1. /\ last' = [last EXCEPT ![k] = last[k] + 1]
      /\ db' = (db \ {Current(k)}) \cup {o} /\ young' = young \cup {k}
      /\ lsa_rxmt' = [lsa_rxmt EXCEPT ![k] = Cardinality(to)]
      /\ nbr' = [x \in Nbr |-> IF x \in to THEN add_to_retranslist(nbr[x], o) ELSE nbr[x]]
      /\ calm' = calm
  BY DEF Install
<1>2. last[k] \in Nat /\ last \in [Key -> Nat]
  BY DEF Inv, Typed
<1>3. o \in Objects /\ o[1] = k /\ o[2] = last[k] + 1
  BY <1>2 DEF Objects
<1>4. to \in SUBSET Nbr
  OBVIOUS
<1>5. /\ last' \in [Key -> Nat] /\ last'[k] = last[k] + 1
      /\ \A h \in Key \ {k} : last'[h] = last[h]
  BY <1>1, <1>2
<1>6. Current(k)' = o /\ \A h \in Key \ {k} : Current(h)' = Current(h)
  BY <1>5 DEF Current
<1>7. \A x \in Nbr : o \notin OnLists(nbr[x])
  <2>1. ~(last[k] + 1 <= last[k])
    BY <1>2
  <2>. QED
    BY <1>3, <2>1 DEF Inv, Listed
<1>. HIDE DEF o, to
<1>8. ASSUME NEW x \in Nbr
      PROVE  /\ Sound(nbr'[x], 0) /\ Timed(nbr'[x])
             /\ OnLists(nbr'[x]) = IF x \in to THEN OnLists(nbr[x]) \cup {o}
                                   ELSE OnLists(nbr[x])
  <2>. DEFINE r == nbr[x]
  <2>1. Sound(r, 0) /\ (r.cnt > 0 => r.lsat) /\ o \notin OnLists(r)
    BY <1>7 DEF Inv, Listed, Timed
  <2>2. nbr'[x] = IF x \in to THEN add_to_retranslist(r, o) ELSE r
    BY <1>1
  <2>. HIDE DEF r
  <2>3. CASE x \in to
    <3>. DEFINE s == add_to_retranslist(r, o)
    <3>1. Sound(s, 0) /\ OnLists(s) = OnLists(r) \cup {o} /\ (s.cnt > 0 => s.lsat)
      BY <1>3, <2>1, AddIs
    <3>2. nbr'[x] = s
      BY <2>2, <2>3
    <3>. HIDE DEF s
    <3>. QED
      BY <2>3, <3>1, <3>2 DEF r, Timed
  <2>4. CASE x \notin to
    BY <2>1, <2>2, <2>4 DEF r, Timed
  <2>. QED
    BY <2>3, <2>4
<1>9. Listed'
  <2>. SUFFICES ASSUME NEW x \in Nbr
                PROVE  /\ Sound(nbr'[x], 0) /\ Timed(nbr'[x])
                       /\ \A p \in OnLists(nbr'[x]) : p[1] \in Key /\ p[2] <= last'[p[1]]
    BY DEF Listed, Sound, Timed, OnLists, Neighbours, Objects
  <2>1. ASSUME NEW p \in OnLists(nbr'[x]) PROVE p[1] \in Key /\ p[2] <= last'[p[1]]
    <3>1. CASE p = o
      BY <1>2, <1>3, <1>5, <3>1
    <3>2. CASE p # o
      <4>1. p \in OnLists(nbr[x])
        BY <1>8, <3>2
      <4>2. p[1] \in Key /\ p[2] <= last[p[1]]
        BY <4>1 DEF Inv, Listed
      <4>3. p \in Objects
        <5>. DEFINE r == nbr[x]
        <5>1. /\ r.retrans \in Seq(Objects) /\ r.pend \in Seq(Objects)
              /\ r.failed \in Seq(Objects)
          BY DEF Inv, Listed, Sound, Neighbours
        <5>2. \A t \in Seq(Objects) : Range(t) \subseteq Objects
          BY DEF Range
        <5>3. p \in Range(r.retrans) \cup Range(r.pend) \cup Range(r.failed)
          BY <4>1 DEF OnLists
        <5>. QED
          BY <5>1, <5>2, <5>3
      <4>4. p[2] \in Nat
        BY <4>3 DEF Objects
      <4>5. CASE p[1] = k
        <5>1. p[2] <= last[k]
          BY <4>2, <4>5
        <5>2. p[2] <= last[k] + 1
          BY <1>2, <4>4, <5>1
        <5>. QED
          BY <1>5, <4>5, <5>2
      <4>. QED
        BY <1>5, <4>2, <4>5
    <3>. QED
      BY <3>1, <3>2
  <2>. QED
    BY <1>8, <2>1
<1>10. Waiting(k)' = to
  <2>1. Waiting(k)' = {x \in Nbr : o \in OnLists(nbr'[x])}
    BY <1>6 DEF Waiting, OnLists
  <2>. QED
    BY <1>4, <1>7, <1>8, <2>1
<1>11. ASSUME NEW h \in Key \ {k} PROVE Waiting(h)' = Waiting(h)
  <2>. DEFINE p == Current(h)
  <2>1. Waiting(h)' = {x \in Nbr : p \in OnLists(nbr'[x])}
    BY <1>6 DEF Waiting, OnLists
  <2>2. Waiting(h) = {x \in Nbr : p \in OnLists(nbr[x])}
    BY DEF Waiting
  <2>3. p # o
    BY DEF Current, o
  <2>. HIDE DEF p
  <2>. QED
    BY <1>8, <2>1, <2>2, <2>3
<1>12. Cardinality(to) \in Nat
  <2>1. IsFiniteSet(to)
    BY <1>4, FloodingAssumption, FS_Subset
  <2>. QED
    BY <2>1, FS_CardinalityType
<1>13. /\ lsa_rxmt' \in [Key -> Nat] /\ lsa_rxmt'[k] = Cardinality(to)
       /\ \A h \in Key \ {k} : lsa_rxmt'[h] = lsa_rxmt[h]
  BY <1>1, <1>12 DEF Inv, Typed
<1>14. Counted'
  <2>. SUFFICES ASSUME NEW h \in Key
                PROVE  /\ lsa_rxmt'[h] = Cardinality(Waiting(h)')
                       /\ Current(h)' \notin db' => lsa_rxmt'[h] = 0
    BY DEF Counted
  <2>1. CASE h = k
    BY <1>1, <1>6, <1>10, <1>13, <2>1
  <2>2. CASE h # k
    <3>1. Current(h) # Current(k)
      BY <2>2 DEF Current
    <3>2. Current(h)' \notin db' => Current(h) \notin db
      BY <1>1, <1>6, <2>2, <3>1
    <3>. QED
      BY <1>11, <1>13, <2>2, <3>2 DEF Inv, Counted
  <2>. QED
    BY <2>1, <2>2
<1>15. Typed'
  <2>1. db' \subseteq {Current(h)' : h \in Key}
    <3>. SUFFICES ASSUME NEW p \in db' PROVE \E h \in Key : p = Current(h)'
      OBVIOUS
    <3>1. CASE p = o
      BY <1>6, <3>1
    <3>2. CASE p # o
      <4>1. p \in db /\ p # Current(k)
        BY <1>1, <3>2
      <4>2. PICK h \in Key : p = Current(h)
        BY <4>1 DEF Inv, Typed
      <4>3. h # k
        BY <4>1, <4>2
      <4>. QED
        BY <1>6, <4>2, <4>3
    <3>. QED
      BY <3>1, <3>2
  <2>2. nbr' \in [Nbr -> Neighbours]
    <3>1. \A x \in Nbr : nbr'[x] \in Neighbours
      BY <1>8 DEF Sound
    <3>. QED
      BY <1>1, <3>1
  <2>3. young' \subseteq Key /\ calm' \in BOOLEAN
    BY <1>1 DEF Inv, Typed
  <2>. QED
    BY <1>5, <1>13, <2>1, <2>2, <2>3 DEF Typed, Neighbours, Objects
<1>. QED
  BY <1>9, <1>14, <1>15 DEF Inv

-----------------------------------------------------------------------------
(* The list of send_dd. *)

LEMMA StillDescribed ==
    ASSUME Described, UNCHANGED <<last, db>>, ddlist' \in [Nbr -> SUBSET Objects],
           \A m \in Nbr : /\ ddlist'[m] \subseteq ddlist[m]
                          /\ OnLists(nbr'[m]) \subseteq OnLists(nbr[m])
                          /\ ~nbr'[m].up => OnLists(nbr'[m]) = {} /\ ddlist'[m] = {}
    PROVE  Described'
<1>. SUFFICES ASSUME NEW n \in Nbr
              PROVE  /\ \A o \in ddlist'[n] : /\ o[1] \in Key /\ o[2] <= last[o[1]]
                                              /\ o \notin OnLists(nbr'[n])
                     /\ ~nbr'[n].up => OnLists(nbr'[n]) = {} /\ ddlist'[n] = {}
  BY DEF Described, OnLists, Objects
<1>1. \A o \in ddlist[n] : /\ o[1] \in Key /\ o[2] <= last[o[1]]
                           /\ o \notin OnLists(nbr[n])
  BY DEF Described
<1>2. /\ ddlist'[n] \subseteq ddlist[n] /\ OnLists(nbr'[n]) \subseteq OnLists(nbr[n])
      /\ ~nbr'[n].up => OnLists(nbr'[n]) = {} /\ ddlist'[n] = {}
  OBVIOUS
<1>3. ASSUME NEW o \in ddlist'[n]
      PROVE  o[1] \in Key /\ o[2] <= last[o[1]] /\ o \notin OnLists(nbr'[n])
  <2>1. o \in ddlist[n]
    BY <1>2
  <2>. QED
    BY <1>1, <1>2, <2>1
<1>. QED
  BY <1>2, <1>3

\* The lists of one neighbour change, who stays up or down.
LEMMA OneDescribed ==
    ASSUME Inv, Described, NEW n \in Nbr, NEW s, SameUp(s, nbr[n]),
           nbr' = [nbr EXCEPT ![n] = s], OnLists(s) \subseteq OnLists(nbr[n]),
           UNCHANGED <<last, db, ddlist>>
    PROVE  Described'
<1>1. nbr'[n] = s /\ \A m \in Nbr \ {n} : nbr'[m] = nbr[m]
  BY DEF Inv, Typed
<1>2. \A m \in Nbr : ~nbr[m].up => OnLists(nbr[m]) = {} /\ ddlist[m] = {}
  BY DEF Described
<1>3. ASSUME NEW m \in Nbr
      PROVE  /\ ddlist'[m] \subseteq ddlist[m]
             /\ OnLists(nbr'[m]) \subseteq OnLists(nbr[m])
             /\ ~nbr'[m].up => OnLists(nbr'[m]) = {} /\ ddlist'[m] = {}
  BY <1>1, <1>2 DEF SameUp
<1>4. ddlist' \in [Nbr -> SUBSET Objects]
  BY DEF Described
<1>. QED
  BY <1>3, <1>4, StillDescribed

LEMMA FieldsAre ==
    ASSUME Inv, NEW n \in Nbr PROVE DOMAIN nbr[n] = Fields
  BY DEF Inv, Listed, Sound, Neighbours, Fields

LEMMA AckDescribed ==
    ASSUME Inv, Described, NEW n \in Nbr, NEW k \in Key, RecvAck(n, k)
    PROVE  Described'
<1>. DEFINE o == Current(k)
            r == nbr[n]
            s == remove_from_retranslist(r, o)
<1>1. /\ Contains(Entries(r), o) /\ nbr' = [nbr EXCEPT ![n] = s]
      /\ UNCHANGED <<last, db, ddlist>>
  BY DEF RecvAck
<1>2. Sound(r, 0) /\ (r.cnt > 0 => r.lsat)
  BY DEF Inv, Listed, Timed
<1>3. o \in OnLists(r)
  <2>1. Range(Entries(r)) = OnLists(r) /\ Entries(r) \in Seq(Objects)
    BY <1>2, EntriesAre
  <2>. QED
    BY <1>1, <2>1, ContainsIs
<1>4. DOMAIN r = Fields
  BY FieldsAre
<1>. HIDE DEF r, o
<1>5. OnLists(s) \subseteq OnLists(r)
  BY <1>2, <1>3, RemoveIs
<1>6. SameUp(s, r)
  BY <1>4, RemoveUp
<1>. HIDE DEF s
<1>. QED
  BY <1>1, <1>5, <1>6, OneDescribed DEF r

LEMMA TimerDescribed ==
    ASSUME Inv, Described, NEW n \in Nbr, LSATimer(n)
    PROVE  Described'
<1>. DEFINE r == nbr[n]
            s == Expire(r)
<1>1. nbr' = [nbr EXCEPT ![n] = s] /\ UNCHANGED <<last, db, ddlist>>
  BY DEF LSATimer
<1>2. Sound(r, 0)
  BY DEF Inv, Listed
<1>3. DOMAIN r = Fields
  BY FieldsAre
<1>. HIDE DEF r
<1>4. OnLists(s) \subseteq OnLists(r)
  BY <1>2, ExpireIs DEF Thinned
<1>5. SameUp(s, r)
  BY <1>3, ExpireUp
<1>. HIDE DEF s
<1>. QED
  BY <1>1, <1>4, <1>5, OneDescribed DEF r

LEMMA DownDescribed ==
    ASSUME Inv, Described, NEW n \in Nbr, NbrDown(n)
    PROVE  Described'
<1>1. /\ nbr' = [nbr EXCEPT ![n] = Quiet] /\ ddlist' = [ddlist EXCEPT ![n] = {}]
      /\ UNCHANGED <<last, db>>
  BY DEF NbrDown
<1>2. OnLists(Quiet) = {}
  BY QuietIs
<1>3. /\ nbr'[n] = Quiet /\ \A m \in Nbr \ {n} : nbr'[m] = nbr[m]
      /\ ddlist'[n] = {} /\ \A m \in Nbr \ {n} : ddlist'[m] = ddlist[m]
      /\ ddlist' \in [Nbr -> SUBSET Objects]
  BY <1>1 DEF Inv, Typed, Described
<1>4. \A m \in Nbr : ~nbr[m].up => OnLists(nbr[m]) = {} /\ ddlist[m] = {}
  BY DEF Described
<1>5. ASSUME NEW m \in Nbr
      PROVE  /\ ddlist'[m] \subseteq ddlist[m]
             /\ OnLists(nbr'[m]) \subseteq OnLists(nbr[m])
             /\ ~nbr'[m].up => OnLists(nbr'[m]) = {} /\ ddlist'[m] = {}
  BY <1>2, <1>3, <1>4
<1>. QED
  BY <1>1, <1>3, <1>5, StillDescribed

LEMMA UpDescribed ==
    ASSUME Inv, Described, NEW n \in Nbr, NbrUp(n)
    PROVE  Described'
<1>. DEFINE s == [nbr[n] EXCEPT !.up = TRUE]
<1>1. PICK old \in SUBSET db : ddlist' = [ddlist EXCEPT ![n] = old]
  BY DEF NbrUp
<1>2. ~nbr[n].up /\ nbr' = [nbr EXCEPT ![n] = s] /\ UNCHANGED <<last, db>>
  BY DEF NbrUp
<1>3. /\ s.up /\ s.retrans = nbr[n].retrans /\ s.pend = nbr[n].pend
      /\ s.failed = nbr[n].failed
  BY FieldsAre DEF Fields
<1>. HIDE DEF s
<1>4. OnLists(s) = {}
  BY <1>2, <1>3 DEF Described, OnLists
<1>5. ASSUME NEW o \in db PROVE o \in Objects /\ o[1] \in Key /\ o[2] <= last[o[1]]
  <2>1. PICK k \in Key : o = <<k, last[k]>> /\ last[k] \in Nat
    BY DEF Inv, Typed, Current
  <2>2. o \in Objects
    BY DEF Described
  <2>. QED
    BY <2>1, <2>2
<1>6. /\ nbr'[n] = s /\ \A m \in Nbr \ {n} : nbr'[m] = nbr[m]
      /\ ddlist'[n] = old /\ \A m \in Nbr \ {n} : ddlist'[m] = ddlist[m]
      /\ ddlist' \in [Nbr -> SUBSET Objects]
  BY <1>1, <1>2, <1>5 DEF Inv, Typed, Described
<1>7. ASSUME NEW m \in Nbr
      PROVE  /\ \A o \in ddlist'[m] : /\ o[1] \in Key /\ o[2] <= last[o[1]]
                                      /\ o \notin OnLists(nbr'[m])
             /\ ~nbr'[m].up => OnLists(nbr'[m]) = {} /\ ddlist'[m] = {}
  <2>1. CASE m = n
    BY <1>3, <1>4, <1>5, <1>6, <2>1
  <2>2. CASE m # n
    BY <1>6, <2>2 DEF Described
  <2>. QED
    BY <2>1, <2>2
<1>. QED
  BY <1>2, <1>6, <1>7 DEF Described, OnLists, Objects

LEMMA InstallDescribed ==
    ASSUME Inv, Described, NEW k \in Key, NEW n \in Nbr \cup {None},
           NEW asked \in SUBSET Nbr, Install(k, n, asked)
    PROVE  Described'
<1>. DEFINE o == <<k, last[k] + 1>>
            to == {x \in Nbr : nbr[x].up /\ x # n} \ asked
<1>1. /\ last' = [last EXCEPT ![k] = last[k] + 1]
      /\ nbr' = [x \in Nbr |-> IF x \in to THEN add_to_retranslist(nbr[x], o) ELSE nbr[x]]
      /\ ddlist' = ddlist /\ db' = (db \ {Current(k)}) \cup {o}
  BY DEF Install
<1>2. /\ last[k] \in Nat /\ last' \in [Key -> Nat] /\ last'[k] = last[k] + 1
      /\ \A h \in Key \ {k} : last'[h] = last[h]
  BY <1>1 DEF Inv, Typed
<1>3. o \in Objects /\ o[1] = k /\ o[2] = last[k] + 1 /\ ~(last[k] + 1 <= last[k])
  BY <1>2 DEF Objects
<1>4. \A x \in Nbr : o \notin OnLists(nbr[x]) /\ o \notin ddlist[x]
  BY <1>3 DEF Inv, Listed, Described
<1>5. \A x \in to : x \in Nbr /\ nbr[x].up
  OBVIOUS
<1>. HIDE DEF o, to
<1>6. ASSUME NEW x \in Nbr
      PROVE  /\ OnLists(nbr'[x]) \subseteq OnLists(nbr[x]) \cup {o}
             /\ ~nbr'[x].up => OnLists(nbr'[x]) = {} /\ ddlist[x] = {}
  <2>. DEFINE r == nbr[x]
              s == add_to_retranslist(r, o)
  <2>1. Sound(r, 0) /\ (r.cnt > 0 => r.lsat) /\ o \notin OnLists(r) /\ DOMAIN r = Fields
    BY <1>4, FieldsAre DEF Inv, Listed, Timed
  <2>2. ~r.up => OnLists(r) = {} /\ ddlist[x] = {}
    BY DEF Described
  <2>3. nbr'[x] = IF x \in to THEN s ELSE r
    BY <1>1
  <2>4. x \in to => r.up
    BY <1>5
  <2>. HIDE DEF r
  <2>5. OnLists(s) = OnLists(r) \cup {o}
    BY <1>3, <2>1, AddIs
  <2>6. s.up = r.up
    BY <2>1 DEF add_to_retranslist, Fields
  <2>. HIDE DEF s
  <2>. QED
    BY <2>2, <2>3, <2>4, <2>5, <2>6 DEF r
<1>7. ASSUME NEW x \in Nbr, NEW p \in ddlist[x]
      PROVE  p[1] \in Key /\ p[2] <= last'[p[1]] /\ p \notin OnLists(nbr'[x])
  <2>1. p \in Objects /\ p[1] \in Key /\ p[2] <= last[p[1]] /\ p \notin OnLists(nbr[x])
    BY DEF Described
  <2>2. p \notin OnLists(nbr'[x])
    BY <1>4, <1>6, <2>1
  <2>3. p[2] \in Nat
    BY <2>1 DEF Objects
  <2>4. CASE p[1] = k
    <3>1. p[2] <= last[k]
      BY <2>1, <2>4
    <3>2. p[2] <= last[k] + 1
      BY <1>2, <2>3, <3>1
    <3>. QED
      BY <1>2, <2>1, <2>2, <2>4, <3>2
  <2>5. CASE p[1] # k
    BY <1>2, <2>1, <2>2, <2>5
  <2>. QED
    BY <2>4, <2>5
<1>8. ddlist' \in [Nbr -> SUBSET Objects] /\ db' \subseteq Objects
  BY <1>1, <1>3 DEF Described
<1>. QED
  BY <1>1, <1>6, <1>7, <1>8 DEF Described, OnLists, Objects

\* Steps that leave the lists of the neighbours alone.
LEMMA SameDescribed ==
    ASSUME Described, UNCHANGED <<last, nbr, ddlist>>, db' \subseteq db
    PROVE  Described'
  BY DEF Described, OnLists, Objects

\* An LSA of the database, put on a list of neighbour n.
LEMMA SendDDKeeps ==
    ASSUME Inv, Described, NEW n \in Nbr, NEW o \in ddlist[n], SendDD(n, o)
    PROVE  Inv' /\ Described'
<1>. DEFINE r == nbr[n]
            s == add_to_retranslist(r, o)
            k == o[1]
<1>1. /\ ddlist' = [ddlist EXCEPT ![n] = ddlist[n] \ {o}]
      /\ UNCHANGED <<last, db, young, calm>>
  BY DEF SendDD
<1>2. /\ o \in Objects /\ k \in Key /\ o[2] <= last[k] /\ o \notin OnLists(r)
      /\ ddlist \in [Nbr -> SUBSET Objects]
  BY DEF Described
<1>3. \A h \in Key : Current(h)' = Current(h)
  BY <1>1 DEF Current
<1>4. CASE ~valid(o)
  <2>1. UNCHANGED <<nbr, lsa_rxmt>>
    BY <1>4 DEF SendDD
  <2>2. Inv'
    <3>1. \A h \in Key : ~(Current(h) \in db \ db')
      BY <1>1
    <3>2. calm' \in BOOLEAN
      BY <1>1 DEF Inv, Typed
    <3>. QED
      BY <1>1, <2>1, <3>1, <3>2, ListsKept
  <2>3. Described'
    BY <1>1, <1>2, <2>1 DEF Described, OnLists, Objects
  <2>. QED
    BY <2>2, <2>3
<1>5. CASE valid(o)
  <2>1. /\ nbr' = [nbr EXCEPT ![n] = s]
        /\ lsa_rxmt' = [lsa_rxmt EXCEPT ![k] = lsa_rxmt[k] + 1]
    BY <1>5 DEF SendDD
  <2>2. Sound(r, 0) /\ (r.cnt > 0 => r.lsat) /\ r.up \in BOOLEAN
    BY DEF Inv, Listed, Timed, Sound, Neighbours
  <2>3. Current(k) = o
    <3>1. PICK h \in Key : o = Current(h)
      BY <1>5 DEF Inv, Typed, valid
    <3>. QED
      BY <3>1 DEF Current
  <2>. HIDE DEF r, k
  <2>4. Sound(s, 0) /\ OnLists(s) = OnLists(r) \cup {o} /\ (s.cnt > 0 => s.lsat)
    BY <1>2, <2>2, AddIs
  <2>. HIDE DEF s
  <2>5. /\ nbr' \in [Nbr -> Neighbours] /\ nbr'[n] = s
        /\ \A m \in Nbr \ {n} : nbr'[m] = nbr[m]
    BY <2>1, <2>4 DEF Inv, Typed, Sound
  <2>6. Listed'
    <3>. SUFFICES ASSUME NEW m \in Nbr
                  PROVE  /\ Sound(nbr'[m], 0) /\ Timed(nbr'[m])
                         /\ \A p \in OnLists(nbr'[m]) : p[1] \in Key /\ p[2] <= last[p[1]]
      BY <1>1 DEF Listed, Sound, Timed, OnLists, Neighbours, Objects
    <3>1. CASE m = n
      <4>1. Sound(s, 0) /\ Timed(s)
        BY <2>4 DEF Timed
      <4>2. ASSUME NEW p \in OnLists(s) PROVE p[1] \in Key /\ p[2] <= last[p[1]]
        <5>1. CASE p = o
          BY <1>2, <5>1 DEF k
        <5>2. CASE p # o
          BY <2>4, <5>2 DEF Inv, Listed, r
        <5>. QED
          BY <5>1, <5>2
      <4>. QED
        BY <2>5, <3>1, <4>1, <4>2
    <3>2. CASE m # n
      BY <2>5, <3>2 DEF Inv, Listed
    <3>. QED
      BY <3>1, <3>2
  <2>7. n \notin Waiting(k) /\ Waiting(k)' = Waiting(k) \cup {n}
    <3>1. Waiting(k)' = {m \in Nbr : o \in OnLists(nbr'[m])}
      BY <1>2, <1>3, <2>3 DEF Waiting, OnLists
    <3>2. Waiting(k) = {m \in Nbr : o \in OnLists(nbr[m])}
      BY <2>3 DEF Waiting
    <3>. QED
      BY <1>2, <2>4, <2>5, <3>1, <3>2 DEF r
  <2>8. ASSUME NEW h \in Key, h # k PROVE Waiting(h)' = Waiting(h)
    <3>. DEFINE p == Current(h)
    <3>1. Waiting(h)' = {m \in Nbr : p \in OnLists(nbr'[m])}
      BY <1>3 DEF Waiting, OnLists
    <3>2. Waiting(h) = {m \in Nbr : p \in OnLists(nbr[m])}
      BY DEF Waiting
    <3>3. p # o
      BY <2>3, <2>8 DEF Current
    <3>. HIDE DEF p
    <3>. QED
      BY <2>4, <2>5, <3>1, <3>2, <3>3 DEF r
  <2>9. /\ Cardinality(Waiting(k)') = Cardinality(Waiting(k)) + 1
        /\ Cardinality(Waiting(k)) \in Nat
    BY <2>7, WaitingIs, FS_AddElement, FS_CardinalityType
  <2>10. /\ lsa_rxmt'[k] = lsa_rxmt[k] + 1 /\ lsa_rxmt[k] \in Nat
         /\ \A h \in Key \ {k} : lsa_rxmt'[h] = lsa_rxmt[h]
         /\ lsa_rxmt' \in [Key -> Nat]
    BY <1>2, <2>1 DEF Inv, Typed
  <2>11. Counted'
    <3>. SUFFICES ASSUME NEW h \in Key
                  PROVE  /\ lsa_rxmt'[h] = Cardinality(Waiting(h)')
                         /\ Current(h)' \notin db => lsa_rxmt'[h] = 0
      BY <1>1 DEF Counted
    <3>1. CASE h = k
      <4>1. Current(h)' \in db
        BY <1>3, <1>5, <2>3, <3>1 DEF valid
      <4>2. lsa_rxmt[k] = Cardinality(Waiting(k))
        BY <1>2 DEF Inv, Counted
      <4>. QED
        BY <2>9, <2>10, <3>1, <4>1, <4>2
    <3>2. CASE h # k
      BY <1>3, <2>8, <2>10, <3>2 DEF Inv, Counted
    <3>. QED
      BY <3>1, <3>2
  <2>12. Typed'
    <3>1. {Current(h) : h \in Key}' = {Current(h) : h \in Key}
      BY <1>3
    <3>. QED
      BY <1>1, <2>5, <2>10, <3>1 DEF Inv, Typed
  <2>13. Described'
    <3>1. ddlist' \in [Nbr -> SUBSET Objects]
      BY <1>1, <1>2
    <3>2. ASSUME NEW m \in Nbr
          PROVE  /\ \A p \in ddlist'[m] : /\ p[1] \in Key /\ p[2] <= last[p[1]]
                                          /\ p \notin OnLists(nbr'[m])
                 /\ ~nbr'[m].up => OnLists(nbr'[m]) = {} /\ ddlist'[m] = {}
      <4>1. CASE m = n
        <5>1. ddlist'[m] = ddlist[n] \ {o}
          BY <1>1, <1>2, <4>1
        <5>2. \A p \in ddlist'[m] : /\ p[1] \in Key /\ p[2] <= last[p[1]]
                                    /\ p \notin OnLists(s)
          BY <2>4, <5>1 DEF Described, r
        <5>3. nbr'[m].up
          <6>1. s.up = r.up
            BY <2>2 DEF s, add_to_retranslist, Sound, Neighbours
          <6>2. r.up
            BY DEF Described, r
          <6>. QED
            BY <2>5, <4>1, <6>1, <6>2
        <5>. QED
          BY <2>5, <4>1, <5>2, <5>3
      <4>2. CASE m # n
        BY <1>1, <1>2, <2>5, <4>2 DEF Described
      <4>. QED
        BY <4>1, <4>2
    <3>. QED
      BY <1>1, <3>1, <3>2 DEF Described, OnLists, Objects
  <2>. QED
    BY <2>6, <2>11, <2>12, <2>13 DEF Inv
<1>. QED
  BY <1>4, <1>5

-----------------------------------------------------------------------------
(* All steps. *)

LEMMA StepDescribed ==
    ASSUME Inv, Described, [Next \/ Settle]_vars PROVE Described'
<1>1. CASE \E k \in Key, n \in Nbr \cup {None}, asked \in SUBSET Nbr : Install(k, n, asked)
  BY <1>1, InstallDescribed
<1>2. CASE \E k \in Key, n \in Nbr : RecvAck(n, k)
  BY <1>2, AckDescribed
<1>3. CASE \E k \in Key : GrowOld(k) \/ DeleteLSA(k)
  <2>1. UNCHANGED <<last, nbr, ddlist>> /\ db' \subseteq db
    BY <1>3 DEF GrowOld, DeleteLSA
  <2>. QED
    BY <2>1, SameDescribed
<1>4. CASE \E n \in Nbr : LSATimer(n) \/ NbrUp(n) \/ NbrDown(n)
  BY <1>4, TimerDescribed, UpDescribed, DownDescribed
<1>5. CASE \E n \in Nbr : \E o \in ddlist[n] : SendDD(n, o)
  BY <1>5, SendDDKeeps
<1>6. CASE Settle \/ UNCHANGED vars
  <2>1. UNCHANGED <<last, nbr, ddlist>> /\ db' \subseteq db
    BY <1>6 DEF Settle, vars
  <2>. QED
    BY <2>1, SameDescribed
<1>. QED
  BY <1>1, <1>2, <1>3, <1>4, <1>5, <1>6 DEF Next

LEMMA StepInv == Inv /\ Described /\ [Next \/ Settle]_vars => Inv' /\ Described'
<1>. SUFFICES ASSUME Inv, Described, [Next \/ Settle]_vars PROVE Inv'
  BY StepDescribed
<1>1. CASE \E k \in Key, n \in Nbr \cup {None}, asked \in SUBSET Nbr : Install(k, n, asked)
  BY <1>1, InstallKeeps
<1>2. CASE \E k \in Key, n \in Nbr : RecvAck(n, k)
  BY <1>2, RecvAckKeeps
<1>3. ASSUME NEW k \in Key, GrowOld(k) PROVE Inv'
  <2>1. UNCHANGED <<last, lsa_rxmt, nbr>> /\ db' \subseteq db /\ young' \subseteq young
    BY <1>3 DEF GrowOld
  <2>2. calm' \in BOOLEAN /\ \A h \in Key : ~(Current(h) \in db \ db')
    BY <1>3 DEF GrowOld, Inv, Typed
  <2>. QED
    BY <2>1, <2>2, ListsKept
<1>4. ASSUME NEW k \in Key, DeleteLSA(k) PROVE Inv'
  <2>1. UNCHANGED <<last, lsa_rxmt, nbr>> /\ db' \subseteq db /\ young' \subseteq young
    BY <1>4 DEF DeleteLSA
  <2>2. calm' \in BOOLEAN
    BY <1>4 DEF DeleteLSA, Inv, Typed
  <2>3. ASSUME NEW h \in Key, Current(h) \in db \ db' PROVE lsa_rxmt[h] = 0
    <3>1. Current(h) = Current(k) /\ lsa_rxmt[k] = 0
      BY <1>4, <2>3 DEF DeleteLSA
    <3>2. h = k
      BY <3>1 DEF Current
    <3>. QED
      BY <3>1, <3>2
  <2>. QED
    BY <2>1, <2>2, <2>3, ListsKept
<1>5. CASE \E n \in Nbr : LSATimer(n) \/ NbrUp(n) \/ NbrDown(n)
  BY <1>5, LSATimerKeeps, NbrUpKeeps, NbrDownKeeps
<1>6. CASE Settle \/ UNCHANGED vars
  <2>1. UNCHANGED <<last, lsa_rxmt, nbr>> /\ db' \subseteq db /\ young' \subseteq young
    BY <1>6 DEF Settle, vars
  <2>2. calm' \in BOOLEAN /\ \A h \in Key : ~(Current(h) \in db \ db')
    BY <1>6 DEF Settle, vars, Inv, Typed
  <2>. QED
    BY <2>1, <2>2, ListsKept
<1>7. CASE \E n \in Nbr : \E o \in ddlist[n] : SendDD(n, o)
  BY <1>7, SendDDKeeps
<1>. QED
  BY <1>1, <1>2, <1>3, <1>4, <1>5, <1>6, <1>7 DEF Next

-----------------------------------------------------------------------------
(* What it says of the lists and counters. *)

LEMMA InvImplies == Inv /\ Described => TypeOK /\ CountIsRight /\ RxmtIsRight
<1>. SUFFICES ASSUME Inv, Described PROVE TypeOK /\ CountIsRight /\ RxmtIsRight
  OBVIOUS
<1>1. TypeOK
  <2>1. \A k \in Key : lsa_rxmt[k] \in 0..Cardinality(Nbr)
    BY WaitingIs DEF Inv, Counted
  <2>. QED
    BY <2>1 DEF Inv, Typed, TypeOK, Described
<1>2. ASSUME NEW n \in Nbr
      PROVE  /\ Range(Entries(nbr[n])) = OnLists(nbr[n]) /\ IsInjective(Entries(nbr[n]))
             /\ nbr[n].cnt = Len(Entries(nbr[n])) /\ Entries(nbr[n]) \in Seq(Objects)
  BY EntriesAre DEF Inv, Listed
<1>3. CountIsRight
  BY <1>2 DEF CountIsRight, Inv, Listed, Timed
<1>4. RxmtIsRight
  <2>1. \A n \in Nbr, k \in Key : Contains(Entries(nbr[n]), Current(k)) <=> Current(k) \in OnLists(nbr[n])
    BY <1>2, ContainsIs
  <2>2. \A k \in Key : {n \in Nbr : Contains(Entries(nbr[n]), Current(k))} = Waiting(k)
    BY <2>1 DEF Waiting
  <2>. QED
    BY <2>2 DEF RxmtIsRight, Inv, Counted
<1>. QED
  BY <1>1, <1>3, <1>4

\* The theorems are about FairSpec, the specification of the run, of which they use no
\* fairness.
LEMMA AlwaysInv == Init /\ [][Next \/ Settle]_vars => [](Inv /\ Described)
  BY InitInv, StepInv, PTL

\* The variables have the types of the fields they stand for: lsa_rxmt never goes below 0
\* or beyond the number of neighbours.
THEOREM TypeCorrect == FairSpec => []TypeOK
<1>1. Inv /\ Described => TypeOK
  BY InvImplies
<1>. QED
  BY <1>1, AlwaysInv, PTL DEF FairSpec

\* retrans_cnt is the number of entries of the three lists, none twice, and the timer runs
\* as long as it is not 0: no LSA is ever left on a list that nobody looks at again.
THEOREM AlwaysCountIsRight == FairSpec => []CountIsRight
<1>1. Inv /\ Described => CountIsRight
  BY InvImplies
<1>. QED
  BY <1>1, AlwaysInv, PTL DEF FairSpec

\* lsa_rxmt counts the neighbours that still have to acknowledge an LSA, so an LSA at
\* MaxAge is neither freed too early nor kept for ever by a wrong count.
THEOREM AlwaysRxmtIsRight == FairSpec => []RxmtIsRight
<1>1. Inv /\ Described => RxmtIsRight
  BY InvImplies
<1>. QED
  BY <1>1, AlwaysInv, PTL DEF FairSpec

=============================================================================

------------------------------- MODULE Table -------------------------------
(***************************************************************************)
(* The table of Table.cpp: an AVL tree whose items hold their own links and   *)
(* are also on a list in the order of their keys, and an iterator over the    *)
(* list that goes on while items are added and removed.  The LSA database,    *)
(* the routing table and the system's tables are such tables.  The two        *)
(* indexes of an item are one key here, compared and incremented as a whole.   *)
(***************************************************************************)
EXTENDS Integers, Sequences, FiniteSets, FiniteSetsExt, SequencesExt

CONSTANTS
    AllOnes,    \* the largest key: both indexes 0xffffffff
    Twice,      \* the keys for which there are two items, one to replace the other
    MaxWatched, \* bound of the items in the table while it is iterated over
    NULL

Keys == 0..AllOnes
Items == {<<k, 0>> : k \in Keys} \cup {<<k, 1>> : k \in Twice}
Key(i) == i[1]

ASSUME TableAssumption ==
    AllOnes \in Nat /\ Twice \subseteq Keys /\ MaxWatched \in Nat /\ NULL \notin Items

VARIABLES
    table,      \* the Table, with the items in it
    search,     \* the TblSearch in use
    got         \* what it has returned last, or where it was told to begin

vars == <<table, search, got>>

Members(t) == DOMAIN t.node

\* A slot is a pointer's address: _root, or the left or right of an item.
ROOT == <<NULL, "root">>

Get(t, s) == IF s = ROOT THEN t.root ELSE t.node[s[1]][s[2]]

Put(t, s, i) == IF s = ROOT THEN [t EXCEPT !.root = i] ELSE [t EXCEPT !.node[s[1]][s[2]] = i]

NoItems == [root |-> NULL, node |-> <<>>, sllhead |-> NULL, count |-> 0]

Item == [left |-> NULL, right |-> NULL, balance |-> 0, sll |-> NULL]

-----------------------------------------------------------------------------
(* Looking up. *)

Toward(k, i) == IF k > Key(i) THEN "right" ELSE "left"

RECURSIVE findFrom(_, _, _)
findFrom(t, i, k) ==
    IF i = NULL \/ Key(i) = k THEN i ELSE findFrom(t, t.node[i][Toward(k, i)], k)

find(t, k) == findFrom(t, t.root, k)

\* The item with the greatest key up to k; last was the last turn to the right.
RECURSIVE UpTo(_, _, _, _)
UpTo(t, i, last, k) ==
    IF i = NULL THEN last
    ELSE IF Key(i) = k THEN i
    ELSE UpTo(t, t.node[i][Toward(k, i)], IF k > Key(i) THEN i ELSE last, k)

previous(t, k) == IF k = 0 THEN NULL ELSE UpTo(t, t.root, NULL, k - 1)

\* The slots from s to the item of key k, or to where it would be.
RECURSIVE Path(_, _, _)
Path(t, s, k) ==
    LET i == Get(t, s)
    IN  IF i = NULL \/ Key(i) = k THEN <<s>>
        ELSE <<s>> \o Path(t, <<i, Toward(k, i)>>, k)

-----------------------------------------------------------------------------
(* The shifts.  To the left or to the right they are mirror images. *)

Other(d) == IF d = "left" THEN "right" ELSE "left"
Sign(d) == IF d = "left" THEN 1 ELSE -1

shift(t, s, d) ==
    LET o == Other(d)
        top == Get(t, s)
        up == t.node[top][o]
        even == t.node[up].balance = Sign(d)
    IN  Put([t EXCEPT !.node[top][o] = t.node[up][d],
                      !.node[top].balance = IF even THEN 0 ELSE Sign(d),
                      !.node[up][d] = top,
                      !.node[up].balance = IF even THEN 0 ELSE -Sign(d)], s, up)

dbl_shift(t, s, d) ==
    LET o == Other(d)
        top == Get(t, s)
        mid == t.node[top][o]
        up == t.node[mid][d]
        b == t.node[up].balance
    IN  Put([t EXCEPT !.node[top][o] = t.node[up][d],
                      !.node[top].balance = IF b = Sign(d) THEN -Sign(d) ELSE 0,
                      !.node[mid][d] = t.node[up][o],
                      !.node[mid].balance = IF b = -Sign(d) THEN Sign(d) ELSE 0,
                      !.node[up][d] = top, !.node[up][o] = mid,
                      !.node[up].balance = 0], s, up)

\* To which side the item at s must be shifted, and the child it takes up.
Leans(t, s) ==
    LET b == t.node[Get(t, s)].balance
    IN  IF b = 2 THEN "left" ELSE IF b = -2 THEN "right" ELSE "no"

Heavy(t, s) == t.node[t.node[Get(t, s)][Other(Leans(t, s))]].balance

Shifted(t, s) ==
    IF Leans(t, s) = "no" THEN t
    ELSE IF Heavy(t, s) = -Sign(Leans(t, s)) THEN dbl_shift(t, s, Leans(t, s))
    ELSE shift(t, s, Leans(t, s))

-----------------------------------------------------------------------------
(* The list. *)

SetNext(t, i, n) == IF i = NULL THEN [t EXCEPT !.sllhead = n] ELSE [t EXCEPT !.node[i].sll = n]

Following(t, i) == IF i = NULL THEN t.sllhead ELSE t.node[i].sll

Enlist(t, i) ==
    LET p == previous(t, Key(i))
    IN  SetNext([t EXCEPT !.node[i].sll = Following(t, p)], p, i)

-----------------------------------------------------------------------------
(* add and remove. *)

With(t, i, n) == [t EXCEPT !.node = [j \in Members(t) \cup {i} |-> IF j = i THEN n ELSE t.node[j]]]

Drop(t, i) == [t EXCEPT !.node = [j \in Members(t) \ {i} |-> t.node[j]]]

\* The balances from the balance point, the last one that is not 0, down.
Readjusted(t, path, i) ==
    LET far == {n \in 1..(Len(path) - 1) : t.node[Get(t, path[n])].balance # 0}
        from == IF far = {} THEN 1 ELSE Max(far)
        down == {Get(t, path[n]) : n \in from..(Len(path) - 1)}
        new == [j \in Members(t) |->
                  IF j \in down THEN [t.node[j] EXCEPT !.balance =
                                        IF Toward(Key(i), j) = "right" THEN @ + 1 ELSE @ - 1]
                  ELSE t.node[j]]
    IN  Shifted([t EXCEPT !.node = new], path[from])

\* The links and the balance of an item that is added are those of its constructor.
Insert(t, path, i) ==
    LET u == Put(With(t, i, Item), Last(path), i)
    IN  Enlist(IF Len(path) = 1 THEN u ELSE Readjusted(u, path, i), i)

Replace(t, s, i) ==
    LET old == Get(t, s)
        u == Put(With(t, i, t.node[old]), s, i)
    IN  Drop(SetNext(u, previous(u, Key(i)), i), old)

add(t, i) ==
    LET path == Path(t, ROOT, Key(i))
    IN  IF Get(t, Last(path)) = NULL
        THEN [Insert(t, path, i) EXCEPT !.count = @ + 1]
        ELSE Replace(t, Last(path), i)

\* Up the stack: the tree under slot s has become lower by one.
RECURSIVE Lowered(_, _, _)
Lowered(t, stack, s) ==
    IF stack = <<>> THEN t
    ELSE LET at == Last(stack)
             p == Get(t, at)
             u == [t EXCEPT !.node[p].balance = IF s = <<p, "left">> THEN @ + 1 ELSE @ - 1]
             still == \/ Leans(u, at) = "no" /\ u.node[p].balance # 0
                      \/ Leans(u, at) # "no" /\ Heavy(u, at) = 0
         IN  IF still THEN Shifted(u, at) ELSE Lowered(Shifted(u, at), Front(stack), at)

\* Mutant: the slot of the item that has been swapped away stays on the stack.
SwappedUnmarked(t, path, i) ==
    LET down == Path(t, <<i, "left">>, Key(i))
        p == Get(t, down[Len(down) - 1])
        u == Put(t, down[Len(down) - 1], t.node[p].left)
        v == Put([u EXCEPT !.node[p].left = u.node[i].left, !.node[p].right = u.node[i].right,
                           !.node[p].balance = u.node[i].balance], Last(path), p)
    IN  Lowered(v, path \o SubSeq(down, 1, Len(down) - 2), down[Len(down) - 1])

\* i has two children: the item before it, which has no right child, takes its
\* place, and the slot of i on the stack becomes that of this item.
Swapped(t, path, i) ==
    LET down == Path(t, <<i, "left">>, Key(i))
        p == Get(t, down[Len(down) - 1])
        u == Put(t, down[Len(down) - 1], t.node[p].left)
        v == Put([u EXCEPT !.node[p].left = u.node[i].left, !.node[p].right = u.node[i].right,
                           !.node[p].balance = u.node[i].balance], Last(path), p)
        slots == [down EXCEPT ![1] = <<p, "left">>]
    IN  Lowered(v, path \o SubSeq(slots, 1, Len(down) - 2), slots[Len(down) - 1])

remove(t, i) ==
    LET path == Path(t, ROOT, Key(i))
        u == [SetNext(t, previous(t, Key(i)), t.node[i].sll) EXCEPT !.count = @ - 1]
        n == t.node[i]
    IN  Drop(IF NULL \in {n.left, n.right}
             THEN Lowered(Put(u, Last(path), IF n.right = NULL THEN n.left ELSE n.right),
                          Front(path), Last(path))
             ELSE Swapped(u, path, i), i)

-----------------------------------------------------------------------------
(* The iterator. *)

Idle == [current |-> NULL, index |-> -1, synced |-> TRUE]

\* c_index, current: k and the item with the greatest key up to k.
seek(t, s, k) ==
    LET i == IF t.root = NULL \/ k = AllOnes THEN NULL ELSE previous(t, k + 1)
    IN  [s EXCEPT !.current = i, !.index = IF i = NULL THEN k ELSE Key(i)]

\* Mutant: the iterator does not look whether the table has changed.
nextUnsynced(t, s) ==
    LET n == IF s.current \in Members(t) THEN Following(t, s.current) ELSE t.sllhead
    IN  IF t.root = NULL THEN [s EXCEPT !.current = NULL] ELSE
        IF n = NULL THEN [s EXCEPT !.current = NULL]
        ELSE [current |-> n, index |-> Key(n), synced |-> TRUE]

\* What next leaves of the iterator; NULL as current here if it returns 0.
next(t, s) ==
    LET r == IF s.synced \/ s.current = NULL THEN s ELSE seek(t, s, s.index)
        n == Following(t, r.current)
    IN  IF t.root = NULL \/ n = NULL THEN [s EXCEPT !.current = NULL]
        ELSE [current |-> n, index |-> Key(n), synced |-> TRUE]

-----------------------------------------------------------------------------

Searching == search # Idle

Init == table = NoItems /\ search = Idle /\ got = -1

\* The table is given new contents.
Becomes(t) ==
    /\ table' = t
    /\ search' = IF Searching THEN [search EXCEPT !.synced = FALSE] ELSE search
    /\ UNCHANGED got

AddItem(i) ==
    /\ i \notin Members(table)
    /\ Searching => Cardinality(Members(table)) < MaxWatched
    /\ Becomes(add(table, i))

RemoveItem(i) == i \in Members(table) /\ Becomes(remove(table, i))

Clear == table.root # NULL /\ Becomes(NoItems)

Returned(s) ==
    IF s.current = NULL THEN search' = Idle /\ got' = -1
    ELSE search' = s /\ got' = Key(s.current)

\* seek and the first next, between which no user changes the table; without
\* seek it is as if k were -1.
Begin(k) ==
    /\ ~Searching /\ Cardinality(Members(table)) <= MaxWatched
    /\ Returned(next(table, IF k = -1 THEN Idle ELSE seek(table, Idle, k)))
    /\ UNCHANGED table

Advance ==
    /\ Searching
    /\ Returned(next(table, search))
    /\ UNCHANGED table

Next ==
    \/ \E i \in Items : AddItem(i) \/ RemoveItem(i)
    \/ Clear
    \/ \E k \in Keys \cup {-1} : Begin(k)
    \/ Advance

Spec == Init /\ [][Next]_vars
-----------------------------------------------------------------------------

\* The height of the tree under i, or -1 if a balance in it is not that of its
\* heights, is beyond 1, or a key is not between lo and hi.
RECURSIVE Height(_, _, _, _)
Height(t, i, lo, hi) ==
    IF i = NULL THEN 0
    ELSE LET l == Height(t, t.node[i].left, lo, Key(i) - 1)
             r == Height(t, t.node[i].right, Key(i) + 1, hi)
         IN  IF /\ -1 \notin {l, r} /\ Key(i) \in lo..hi
                /\ t.node[i].balance = r - l /\ r - l \in -1..1
             THEN 1 + Max({l, r}) ELSE -1

\* After every sequence of additions, replacements and removals the tree is in
\* order and balanced, every balance is the difference of the heights it stands
\* for, and each item is found by its key: the shifts, the swap with the item
\* before and the stack of slots that remove goes back lose and forget nothing.
\* The list has the items of the tree, all of them and in order, whichever of
\* them have been replaced or swapped in the tree.
TableSound ==
    LET f[n \in Nat] == IF n = 0 THEN NULL ELSE Following(table, f[n - 1])
        N == Cardinality(Members(table))
    IN  /\ Height(table, table.root, 0, AllOnes) # -1
        /\ \A k \in Keys : find(table, k) = IF \E i \in Members(table) : Key(i) = k
                                            THEN CHOOSE i \in Members(table) : Key(i) = k ELSE NULL
        /\ table.count = N
        /\ Members(table) = {f[n] : n \in 1..N}
        /\ \A n \in 2..N : Key(f[n - 1]) < Key(f[n])
        /\ f[N + 1] = NULL

\* The keys in the table after k.
After(k) == {Key(i) : i \in Members(table)} \cap (k + 1)..AllOnes

\* An iteration goes through the table in order and misses nothing that is
\* there, though items are added and removed, the one it is at among them, and
\* replaced while it is at them.
NextIsSuccessor ==
    [][\A k \in Keys \cup {-1} :
         (k # AllOnes /\ ((Advance /\ k = got) \/ Begin(k))) =>
           IF After(k) = {} THEN search' = Idle ELSE got' = Min(After(k))]_vars
=============================================================================

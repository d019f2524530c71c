---------------------------- MODULE LeftistHeap ----------------------------
(***************************************************************************)
(* The priority queue of Queue.cpp, a leftist heap whose elements hold their  *)
(* own links.  The timers wait in one, and so do the candidates of the       *)
(* routing calculation.  A queue is [root, elt]; elt is a function whose     *)
(* domain is what is in the queue: the links of anything else are garbage    *)
(* that add overwrites.                                                      *)
(***************************************************************************)
EXTENDS Integers, FiniteSets

CONSTANT NULL

Empty == [root |-> NULL, elt |-> <<>>]

Elements(q) == DOMAIN q.elt

\* A cost is <<cost, tie>>: of equal costs the one with the larger tie is first.
cmp_cost(a, b) == a[1] < b[1] \/ (a[1] = b[1] /\ a[2] > b[2])

Less(E, x, y) == cmp_cost(E[x].cost, E[y].cost)

dist(E, x) == IF x = NULL THEN 0 ELSE E[x].dist

-----------------------------------------------------------------------------
(* The parts of combine.  E is the elt of a queue, or of two to be combined. *)

Adopt(E, x, p) == IF x = NULL THEN E ELSE [E EXCEPT ![x].parent = p]

Under(E, p, x) == [E EXCEPT ![p].right = x, ![x].parent = p]

\* The children of a in order, and its dist.
Fixed(E, a) ==
    LET l == E[a].left
        r == E[a].right
    IN  IF dist(E, l) < dist(E, r)
        THEN [E EXCEPT ![a] = [@ EXCEPT !.left = r, !.right = l, !.dist = dist(E, l) + 1]]
        ELSE [E EXCEPT ![a] = [@ EXCEPT !.dist = dist(E, r) + 1]]

\* One turn of the loop of adjust, which goes from a to the root; after a deletion,
\* only as far as a dist has changed.
Raised(s, del) ==
    IF s.a = NULL THEN s
    ELSE LET F == Fixed(s.elt, s.a)
         IN  [elt |-> F,
              a |-> IF del /\ F[s.a].dist = s.elt[s.a].dist THEN NULL ELSE s.elt[s.a].parent]

\* The loops make at most one turn for each element: a turn after the last does nothing.
Turns(E) == Cardinality(DOMAIN E)

adjust(E, a, del) ==
    LET turn[n \in 0..Turns(E)] ==
          IF n = 0 THEN [elt |-> E, a |-> a] ELSE Raised(turn[n - 1], del)
    IN  turn[Turns(E)].elt

\* One turn down the right spine from p: x is what p has there, y what is to be put in.
Lowered(s) ==
    IF s.x = NULL THEN s
    ELSE IF Less(s.elt, s.y, s.x)
    THEN [elt |-> Under(s.elt, s.p, s.y), p |-> s.y, x |-> s.elt[s.y].right, y |-> s.x]
    ELSE [elt |-> Under(s.elt, s.p, s.x), p |-> s.x, x |-> s.elt[s.x].right, y |-> s.y]

Merge(E, p, y) ==
    LET turn[n \in 0..Turns(E)] ==
          IF n = 0 THEN [elt |-> E, p |-> p, x |-> E[p].right, y |-> y] ELSE Lowered(turn[n - 1])
        last == turn[Turns(E)]
    IN  adjust(Under(last.elt, last.p, last.y), last.p, FALSE)

\* The queues with roots r and s in one, the first of which is r's own.
combine(E, r, s) ==
    IF NULL \in {r, s}
    THEN LET root == IF s = NULL THEN r ELSE s
         IN  [root |-> root, elt |-> Adopt(E, root, NULL)]
    ELSE LET first == IF Less(E, s, r) THEN s ELSE r
             other == IF first = s THEN r ELSE s
             F == Adopt(E, first, NULL)
         IN  [root |-> first, elt |-> Merge(F, first, other)]

Without(q, e) == [q EXCEPT !.elt = [x \in Elements(q) \ {e} |-> q.elt[x]]]

-----------------------------------------------------------------------------
(* The operations. *)

gethead(q) == q.root

add(q, e, cost) ==
    LET new == [left |-> NULL, right |-> NULL, parent |-> NULL, dist |-> 1, cost |-> cost]
        elt == [x \in Elements(q) \cup {e} |-> IF x = e THEN new ELSE q.elt[x]]
    IN  combine(elt, q.root, e)

rmhead(q) ==
    LET top == q.elt[q.root]
    IN  Without(combine(q.elt, top.left, top.right), q.root)

\* Mutant: what is put in the place of e is always a right child.
delRight(q, e) ==
    LET p == q.elt[e].parent
        rest == combine(q.elt, q.elt[e].right, q.elt[e].left)
        E == Adopt(rest.elt, rest.root, p)
        F == IF p = NULL THEN E ELSE [E EXCEPT ![p].right = rest.root]
    IN  Without([root |-> IF p = NULL THEN rest.root ELSE q.root,
                 elt |-> adjust(F, p, TRUE)], e)

del(q, e) ==
    LET p == q.elt[e].parent
        rest == combine(q.elt, q.elt[e].right, q.elt[e].left)
        E == Adopt(rest.elt, rest.root, p)
        F == IF p = NULL THEN E
             ELSE IF E[p].right = e THEN [E EXCEPT ![p].right = rest.root]
             ELSE [E EXCEPT ![p].left = rest.root]
    IN  Without([root |-> IF p = NULL THEN rest.root ELSE q.root,
                 elt |-> adjust(F, p, TRUE)], e)

-----------------------------------------------------------------------------
(* What makes a queue a leftist heap. *)

IsLinked(q) ==
    /\ (q.root = NULL) = (Elements(q) = {})
    /\ q.root # NULL => q.elt[q.root].parent = NULL
    /\ \A e \in Elements(q) :
         /\ \A c \in {q.elt[e].left, q.elt[e].right} \ {NULL} :
              c \in Elements(q) /\ q.elt[c].parent = e
         /\ q.elt[e].left # q.elt[e].right \/ q.elt[e].left = NULL
         /\ e # q.root => /\ q.elt[e].parent \in Elements(q)
                          /\ e \in {q.elt[q.elt[e].parent].left, q.elt[q.elt[e].parent].right}

IsOrdered(q) ==
    \A e \in Elements(q) : e # q.root => ~Less(q.elt, e, q.elt[e].parent)

IsLeftist(q) ==
    \A e \in Elements(q) :
      /\ q.elt[e].dist = dist(q.elt, q.elt[e].right) + 1
      /\ dist(q.elt, q.elt[e].left) >= dist(q.elt, q.elt[e].right)

\* The root and, with an element, its children: no other set than all of them has these.
IsConnected(q) ==
    \A S \in SUBSET Elements(q) :
      (/\ q.root \in S
       /\ \A e \in S : {q.elt[e].left, q.elt[e].right} \subseteq S \cup {NULL}) => S = Elements(q)

IsHeap(q) == IsLinked(q) /\ IsConnected(q) /\ IsOrdered(q) /\ IsLeftist(q)
=============================================================================

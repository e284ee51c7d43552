------------------------------- MODULE RBTree --------------------------------
(***************************************************************************)
(* The red-black tree of memdb.  A tree is a record of the pointers and    *)
(* colours of its nodes; Null is the shared sentinel node, whose up        *)
(* pointer the code writes like that of any other node.  Left and right    *)
(* are mirror images in the code, so each operation is written once for a  *)
(* side d.  Nodes are named by their keys: a freed node is never reused.   *)
(***************************************************************************)
EXTENDS Integers, FiniteSets, Sequences

CONSTANT TreeKey    \* the keys, positive integers

Null == 0
Node == TreeKey \cup {Null}
Side == {"left", "right"}
Other(d) == IF d = "left" THEN "right" ELSE "left"

ASSUME TreeAssumption == TreeKey \subseteq Nat \ {Null}

EmptyTree ==
    [root |-> Null,
     up |-> [x \in Node |-> Null],
     child |-> [d \in Side |-> [x \in Node |-> Null]],
     red |-> [x \in Node |-> FALSE]]

Up(t, x) == t.up[x]
Child(t, x, d) == t.child[d][x]
Paint(t, x, r) == [t EXCEPT !.red[x] = r]
SideOf(t, x) == IF Child(t, Up(t, x), "left") = x THEN "left" ELSE "right"

\* Give the place of x below its parent to y.
Relink(t, x, y) ==
    IF Up(t, x) = Null THEN [t EXCEPT !.root = y]
    ELSE [t EXCEPT !.child[SideOf(t, x)][Up(t, x)] = y]

\* leftRotate(x) is Rotate(t, x, "left"), rightRotate(x) is Rotate(t, x, "right").
Rotate(t, x, d) ==
    LET y == Child(t, x, Other(d))
        b == Child(t, y, d)
        t1 == [t EXCEPT !.child[Other(d)][x] = b,
                        !.up = [n \in Node |-> IF n = b /\ b # Null THEN x
                                               ELSE IF n = y THEN t.up[x] ELSE t.up[n]]]
        t2 == IF t.up[x] = Null THEN [t1 EXCEPT !.root = y]
              ELSE [t1 EXCEPT !.child[SideOf(t, x)][t.up[x]] = y]
    IN [t2 EXCEPT !.child[d][y] = x, !.up[x] = y]

-----------------------------------------------------------------------------
(* traverse: search, insert, rebalance. *)

\* Where the walk for a key ends: the node itself, or the parent to be.
RECURSIVE Descend(_, _, _, _)
Descend(t, k, x, y) ==
    IF x = Null THEN y
    ELSE IF k = x THEN x
    ELSE Descend(t, k, Child(t, x, IF k < x THEN "left" ELSE "right"), x)

Find(t, k) == Descend(t, k, t.root, Null)
Has(t, k) == Find(t, k) = k

\* Two reds in a row are moved up or rotated away.
RECURSIVE InsertFix(_, _)
InsertFix(t, x) ==
    LET p == Up(t, x)
        g == Up(t, p)
        d == IF Child(t, g, "left") = p THEN "left" ELSE "right"
        uncle == Child(t, g, Other(d)) IN
    IF x = t.root \/ ~t.red[p] THEN Paint(t, t.root, FALSE)
    ELSE IF t.red[uncle]
         THEN InsertFix(Paint(Paint(Paint(t, p, FALSE), uncle, FALSE), g, TRUE), g)
         ELSE LET inner == x = Child(t, p, Other(d))
                  t1 == IF inner THEN Rotate(t, p, d) ELSE t
                  x1 == IF inner THEN p ELSE x
                  p1 == Up(t1, x1)
                  g1 == Up(t1, p1)
              IN InsertFix(Rotate(Paint(Paint(t1, p1, FALSE), g1, TRUE), g1, Other(d)), x1)

Insert(t, k) ==
    LET y == Find(t, k)
        t1 == [t EXCEPT !.up[k] = y, !.child["left"][k] = Null, !.child["right"][k] = Null,
                        !.red[k] = TRUE]
        t2 == IF y = Null THEN [t1 EXCEPT !.root = k]
              ELSE [t1 EXCEPT !.child[IF k < y THEN "left" ELSE "right"][y] = k]
    IN IF Has(t, k) THEN t ELSE InsertFix(t2, k)

-----------------------------------------------------------------------------
(* Neighbours, as iterators use them. *)

RECURSIVE Extreme(_, _, _)
Extreme(t, x, d) == IF Child(t, x, d) = Null THEN x ELSE Extreme(t, Child(t, x, d), d)

RECURSIVE Climb(_, _, _, _)
Climb(t, x, y, d) == IF y # Null /\ x = Child(t, y, d) THEN Climb(t, y, Up(t, y), d) ELSE y

\* Mutant: the next node is the child itself, not its extreme.
NeighbourShallow(t, x, d) ==
    IF Child(t, x, d) # Null THEN Child(t, x, d) ELSE Climb(t, x, Up(t, x), d)

\* successor is Neighbour(t, x, "right"), predecessor Neighbour(t, x, "left").
Neighbour(t, x, d) ==
    IF Child(t, x, d) # Null THEN Extreme(t, Child(t, x, d), Other(d))
    ELSE Climb(t, x, Up(t, x), d)

First(t) == IF t.root = Null THEN Null ELSE Extreme(t, t.root, "left")
LastNode(t) == IF t.root = Null THEN Null ELSE Extreme(t, t.root, "right")

\* memdbIterator.seek: the first node at or above k, in reverse the last below k.
Seek(t, k, reverse) ==
    LET y == Find(t, k) IN
    IF y = Null THEN Null
    ELSE IF reverse THEN (IF k <= y THEN Neighbour(t, y, "left") ELSE y)
    ELSE (IF k > y THEN Neighbour(t, y, "right") ELSE y)

-----------------------------------------------------------------------------
(* deleteNode. *)

RECURSIVE DeleteFix(_, _)
DeleteFix(t, x) ==
    IF x = t.root \/ t.red[x] THEN Paint(t, x, FALSE)
    ELSE
    LET p == Up(t, x)
        d == IF x = Child(t, p, "left") THEN "left" ELSE "right"
        w0 == Child(t, p, Other(d))
        t1 == IF t.red[w0] THEN Rotate(Paint(Paint(t, w0, FALSE), p, TRUE), p, d) ELSE t
        w == Child(t1, Up(t1, x), Other(d)) IN
    IF ~t1.red[Child(t1, w, "left")] /\ ~t1.red[Child(t1, w, "right")]
    THEN DeleteFix(Paint(t1, w, TRUE), Up(t1, x))
    ELSE LET straight == t1.red[Child(t1, w, Other(d))]
             t2 == IF straight THEN t1
                   ELSE Rotate(Paint(Paint(t1, Child(t1, w, d), FALSE), w, TRUE), w, Other(d))
             w2 == Child(t2, Up(t2, x), Other(d))
             q == Up(t2, x)
             t3 == Paint(Paint(Paint(t2, w2, t2.red[q]), q, FALSE),
                         Child(t2, w2, Other(d)), FALSE)
             t4 == Rotate(t3, q, d)
         IN Paint(t4, t4.root, FALSE)

\* replaceNode: new takes the place, the children and the colour of old.
ReplaceNode(t, old, new) ==
    LET t1 == Relink(t, old, new)
        l == Child(t1, old, "left")
        t2 == [t1 EXCEPT !.up[new] = t1.up[old], !.up[l] = new]
        t3 == [t2 EXCEPT !.child["left"][new] = l]
        r == Child(t3, old, "right")
    IN [t3 EXCEPT !.up[r] = new, !.child["right"][new] = r, !.red[new] = t.red[old]]

\* The links of a node that left the tree are never read again.
Freed(t, z) ==
    [t EXCEPT !.up[z] = Null, !.child["left"][z] = Null, !.child["right"][z] = Null,
              !.red[z] = FALSE]

\* The successor itself is moved, not its key: the value log points at nodes.
DeleteNode(t, z) ==
    LET y == IF Child(t, z, "left") = Null \/ Child(t, z, "right") = Null THEN z
             ELSE Neighbour(t, z, "right")
        x == Child(t, y, IF Child(t, y, "left") # Null THEN "left" ELSE "right")
        t1 == Relink([t EXCEPT !.up[x] = t.up[y]], y, x)
        wasRed == t1.red[y]
        t2 == IF y # z THEN ReplaceNode(t1, z, y) ELSE t1
    IN Freed(IF wasRed THEN t2 ELSE DeleteFix(t2, x), z)

-----------------------------------------------------------------------------
(* Every sequence of insertions and deletions. *)

VARIABLES
    tree,       \* the pointers and colours
    present     \* the keys inserted and not deleted since

treeVars == <<tree, present>>

TreeInit == tree = EmptyTree /\ present = {}

InsertKey(k) ==
    /\ tree' = Insert(tree, k)
    /\ present' = present \cup {k}

DeleteKey(k) ==
    /\ k \in present
    /\ tree' = DeleteNode(tree, k)
    /\ present' = present \ {k}

TreeNext == \E k \in TreeKey : InsertKey(k) \/ DeleteKey(k)

-----------------------------------------------------------------------------
(* Properties. *)

\* The keys an iterator yields from node x on, in its direction.
RECURSIVE Walk(_, _, _)
Walk(t, x, d) == IF x = Null THEN <<>> ELSE <<x>> \o Walk(t, Neighbour(t, x, d), d)

Sorted(S) == CHOOSE s \in [1..Cardinality(S) -> S] :
                 \A i, j \in DOMAIN s : i < j => s[i] < s[j]
Backwards(s) == [i \in DOMAIN s |-> s[Len(s) + 1 - i]]

\* A forward iterator from any bound yields the keys at or above it in order,
\* a reverse iterator those below it in reverse order: rotations and the
\* relinking of deleteNode never lose, repeat or misplace a node, and the
\* parent pointers that successor and predecessor climb stay right.
WalksComplete ==
    /\ Walk(tree, First(tree), "right") = Sorted(present)
    /\ Walk(tree, LastNode(tree), "left") = Backwards(Sorted(present))
    /\ \A k \in TreeKey :
          /\ Has(tree, k) <=> k \in present
          /\ Walk(tree, Seek(tree, k, FALSE), "right") = Sorted({x \in present : x >= k})
          /\ Walk(tree, Seek(tree, k, TRUE), "left")
                = Backwards(Sorted({x \in present : x < k}))

\* The black nodes on the path from x to the root.
RECURSIVE BlackDepth(_, _)
BlackDepth(t, x) ==
    IF x = Null THEN 0 ELSE (IF t.red[x] THEN 0 ELSE 1) + BlackDepth(t, Up(t, x))

\* The tree stays balanced: no red node has a red child, and every node with a
\* free place below it has the same number of black ancestors.
Balanced ==
    /\ ~tree.red[tree.root] /\ ~tree.red[Null]
    /\ \A x \in present : tree.red[x] => ~tree.red[Up(tree, x)]
    /\ \A x, y \in {n \in present : \E d \in Side : Child(tree, n, d) = Null} :
          BlackDepth(tree, x) = BlackDepth(tree, y)

\* The tree is right and stays balanced, whatever is inserted and deleted.
TreeCorrect == WalksComplete /\ Balanced

=============================================================================

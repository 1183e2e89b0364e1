--------------------------------- MODULE Bst ---------------------------------
(* The balanced search tree (core/pif_bst.c): its nodes are linked both ways and relinked by        *)
(* rotations and removals, so that iterators and payloads of the other nodes stay.  A node is known *)
(* by its key, which it keeps.                                                                       *)
EXTENDS Integers, Sequences, FiniteSetsExt, SequencesExt

CONSTANT Keys      \* the keys

NoNode == 0   \* NULL, and no key

VARIABLES
  tree,        \* p_root, and p_small, p_big, p_parent and height of the nodes
  it, ahead    \* an iterator that walks, and the keys it is still to see

vars == <<tree, it, ahead>>

Unlinked == [root |-> NoNode, small |-> [k \in Keys |-> NoNode], big |-> [k \in Keys |-> NoNode],
             parent |-> [k \in Keys |-> NoNode], height |-> [k \in Keys |-> 0]]

-----------------------------------------------------------------------------
(* Links.                                                                    *)

Height(t, n) == IF n = NoNode THEN 0 ELSE t.height[n]
Balance(t, n) == Height(t, t.small[n]) - Height(t, t.big[n])
UpdateHeight(t, n) ==
  [t EXCEPT !.height[n] = 1 + Max({Height(t, t.small[n]), Height(t, t.big[n])})]
WithParent(t, n, p) == IF n = NoNode THEN t ELSE [t EXCEPT !.parent[n] = p]

\* _replaceChild()
ReplaceChild(t, p, old, new) ==
  WithParent(CASE p = NoNode -> [t EXCEPT !.root = new]
               [] p # NoNode /\ t.small[p] = old -> [t EXCEPT !.small[p] = new]
               [] OTHER -> [t EXCEPT !.big[p] = new], new, p)

\* _rotateRight() and _rotateLeft()
RotateRight(t, n) ==
  LET top == t.small[n]
      moved == WithParent([ReplaceChild(t, t.parent[n], n, top) EXCEPT !.small[n] = t.big[top]], t.big[top], n)
  IN UpdateHeight(UpdateHeight([moved EXCEPT !.big[top] = n, !.parent[n] = top], n), top)
RotateLeft(t, n) ==
  LET top == t.big[n]
      moved == WithParent([ReplaceChild(t, t.parent[n], n, top) EXCEPT !.big[n] = t.small[top]], t.small[top], n)
  IN UpdateHeight(UpdateHeight([moved EXCEPT !.small[top] = n, !.parent[n] = top], n), top)

\* The rotations at a node that leans to one side.
Righted(t, n) ==
  RotateRight(IF Balance(t, t.small[n]) < 0 THEN RotateLeft(t, t.small[n]) ELSE t, n)
Lefted(t, n) ==
  RotateLeft(IF Balance(t, t.big[n]) > 0 THEN RotateRight(t, t.big[n]) ELSE t, n)

\* Mutated Settled: the walk up ends at the first node that is in balance.
SettledInBalance(t, u, n) == Balance(u, n) \in -1..1

\* The walk up may end at a node that is in balance and as high as it was.
Settled(t, u, n) == Balance(u, n) \in -1..1 /\ u.height[n] = t.height[n]

\* _rebalance()
RECURSIVE Rebalance(_, _)
Rebalance(t, n) ==
  LET u == UpdateHeight(t, n)
  IN CASE n = NoNode -> t
       [] n # NoNode /\ Settled(t, u, n) -> u
       [] n # NoNode /\ Balance(u, n) > 1 ->
            LET w == Righted(u, n) IN Rebalance(w, w.parent[w.parent[n]])
       [] n # NoNode /\ Balance(u, n) < -1 ->
            LET w == Lefted(u, n) IN Rebalance(w, w.parent[w.parent[n]])
       [] OTHER -> Rebalance(u, u.parent[n])

-----------------------------------------------------------------------------
(* Looking things up.                                                        *)

RECURSIVE Leftmost(_, _), Rightmost(_, _), Climb(_, _, _), FindFrom(_, _, _), BoundFrom(_, _, _, _)
Leftmost(t, n) == IF t.small[n] = NoNode THEN n ELSE Leftmost(t, t.small[n])
Rightmost(t, n) == IF t.big[n] = NoNode THEN n ELSE Rightmost(t, t.big[n])

\* The first node above that the walk does not reach from the side given.
Climb(t, n, side) ==
  LET p == t.parent[n] IN IF p # NoNode /\ side[p] = n THEN Climb(t, p, side) ELSE p

\* pifBst_Begin(), pifBst_End(), pifBst_Next() and pifBst_Prev()
First(t) == IF t.root = NoNode THEN NoNode ELSE Leftmost(t, t.root)
End(t) == IF t.root = NoNode THEN NoNode ELSE Rightmost(t, t.root)
NextOf(t, n) == IF t.big[n] # NoNode THEN Leftmost(t, t.big[n]) ELSE Climb(t, n, t.big)
PrevOf(t, n) == IF t.small[n] # NoNode THEN Rightmost(t, t.small[n]) ELSE Climb(t, n, t.small)

\* pifBst_Find()
FindFrom(t, n, k) ==
  IF n = NoNode \/ n = k THEN n ELSE FindFrom(t, IF k < n THEN t.small[n] ELSE t.big[n], k)
Find(t, k) == FindFrom(t, t.root, k)

\* pifBst_LowerBound()
BoundFrom(t, n, k, bound) ==
  CASE n = NoNode -> bound
    [] n # NoNode /\ n >= k -> BoundFrom(t, t.small[n], k, n)
    [] OTHER -> BoundFrom(t, t.big[n], k, bound)
LowerBound(t, k) == BoundFrom(t, t.root, k, NoNode)

-----------------------------------------------------------------------------
(* Adding and removing.                                                      *)

\* _insert(): the node where the search for its key ends.
RECURSIVE Place(_, _, _)
Place(t, n, k) ==
  LET child == IF k < n THEN t.small[n] ELSE t.big[n]
  IN IF child = NoNode THEN n ELSE Place(t, child, k)
Insert(t, k) ==
  LET p == IF t.root = NoNode THEN NoNode ELSE Place(t, t.root, k)
      new == [t EXCEPT !.height[k] = 1, !.parent[k] = p]
  IN Rebalance(CASE p = NoNode -> [new EXCEPT !.root = k]
                 [] p # NoNode /\ k < p -> [new EXCEPT !.small[p] = k]
                 [] OTHER -> [new EXCEPT !.big[p] = k], p)

\* pifBst_Erase() of a node with two children: the next node takes its place.
Replaced(t, n) ==
  LET s == NextOf(t, n)
      p == t.parent[s]
      out == IF p = n THEN t
             ELSE LET lifted == WithParent([t EXCEPT !.small[p] = t.big[s]], t.big[s], p)
                  IN WithParent([lifted EXCEPT !.big[s] = t.big[n]], t.big[n], s)
      put == WithParent([out EXCEPT !.small[s] = t.small[n], !.height[s] = t.height[n]], t.small[n], s)
  IN [tree |-> ReplaceChild(put, t.parent[n], n, s), from |-> IF p = n THEN s ELSE p]
Lifted(t, n) ==
  [tree |-> ReplaceChild(t, t.parent[n], n, IF t.small[n] # NoNode THEN t.small[n] ELSE t.big[n]),
   from |-> t.parent[n]]

\* free()
Freed(t, n) ==
  [t EXCEPT !.small[n] = NoNode, !.big[n] = NoNode, !.parent[n] = NoNode, !.height[n] = 0]
Erased(t, n) ==
  LET cut == IF t.small[n] # NoNode /\ t.big[n] # NoNode THEN Replaced(t, n) ELSE Lifted(t, n)
  IN Rebalance(Freed(cut.tree, n), cut.from)

\* pifBst_Clear(): the order in which the nodes are freed, from one down to the root.
RECURSIVE Clearing(_, _, _)
Clearing(t, n, done) ==
  CASE n = NoNode -> done
    [] n # NoNode /\ t.small[n] # NoNode -> Clearing(t, t.small[n], done)
    [] n # NoNode /\ t.small[n] = NoNode /\ t.big[n] # NoNode -> Clearing(t, t.big[n], done)
    [] OTHER -> LET p == t.parent[n]
                IN Clearing(IF p = NoNode THEN t
                            ELSE IF t.small[p] = n THEN [t EXCEPT !.small[p] = NoNode]
                            ELSE [t EXCEPT !.big[p] = NoNode], p, Append(done, n))

-----------------------------------------------------------------------------
Init == tree = Unlinked /\ it = NoNode /\ ahead = {}

Held(t) == {k \in Keys : t.height[k] > 0}

\* pifBst_Add() and pifBst_Set() of a key that is not there.
Add(k) ==
  /\ Find(tree, k) = NoNode /\ tree' = Insert(tree, k)
  /\ ahead' = (IF it # NoNode /\ k > it THEN ahead \cup {k} ELSE ahead) /\ UNCHANGED it

\* pifBst_Remove(), by another than the one who walks, of a node the iterator is not on.
Remove_(k) ==
  /\ Find(tree, k) # NoNode /\ k # it /\ tree' = Erased(tree, Find(tree, k))
  /\ ahead' = ahead \ {k} /\ UNCHANGED it

\* A walk: from the first node, from one to the next, and past one that is erased on the way.
Walk == it = NoNode /\ it' = First(tree) /\ ahead' = Held(tree) \ {it'} /\ UNCHANGED tree
Step == it # NoNode /\ it' = NextOf(tree, it) /\ ahead' = ahead \ {it'} /\ UNCHANGED tree
EraseStep ==
  /\ it # NoNode /\ tree' = Erased(tree, it)
  /\ it' = NextOf(tree, it) /\ ahead' = ahead \ {it'}

Next == Walk \/ Step \/ EraseStep \/ \E k \in Keys : Add(k) \/ Remove_(k)
Spec == Init /\ [][Next]_vars

-----------------------------------------------------------------------------
TypeOK ==
  /\ tree.root \in Keys \cup {NoNode} /\ it \in Keys \cup {NoNode} /\ ahead \subseteq Keys
  /\ tree.small \in [Keys -> Keys \cup {NoNode}] /\ tree.big \in [Keys -> Keys \cup {NoNode}]

\* The tree is the ordered set of its keys: each is found and no other, the bounds, the ends and
\* the neighbours are those of the set.
Above(S, k) == IF {j \in S : j >= k} = {} THEN NoNode ELSE Min({j \in S : j >= k})
Below(S, k) == IF {j \in S : j <= k} = {} THEN NoNode ELSE Max({j \in S : j <= k})
TreeIsSet ==
  LET S == Held(tree)
  IN /\ First(tree) = Above(S, 0) /\ End(tree) = Below(S, Max(Keys))
     /\ \A k \in Keys : Find(tree, k) = (IF k \in S THEN k ELSE NoNode) /\ LowerBound(tree, k) = Above(S, k)
     /\ \A k \in S : NextOf(tree, k) = Above(S, k + 1) /\ PrevOf(tree, k) = Below(S, k - 1)

\* It stays in balance, however far a removal sinks: no side is higher than the other by two, and
\* the heights are true, so that the walk up may end early.
Balanced ==
  \A k \in Held(tree) : Balance(tree, k) \in -1..1 /\ tree.height[k] = UpdateHeight(tree, k).height[k]

\* A walk sees the keys in order, and each that is there when it gets to its place.
WalkSeesAll == ahead = {k \in Held(tree) : it # NoNode /\ k > it}

\* Clearing frees every node once, and none before those below it.
ClearsAll ==
  LET order == Clearing(tree, tree.root, <<>>)
  IN /\ ToSet(order) = Held(tree) /\ Len(order) = Cardinality(Held(tree))
     /\ \A i, j \in 1..Len(order) : tree.parent[order[i]] = order[j] => i < j
=============================================================================

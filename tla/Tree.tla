-------------------------------- MODULE Tree --------------------------------
(***************************************************************************)
(* Tree.c: the red-black tree with parent pointers that Heap.c keeps its   *)
(* records in, for one index.  A node is named by the content it holds, a  *)
(* number that compare orders; removing a node with two children moves a   *)
(* content and with it the name.                                           *)
(***************************************************************************)
EXTENDS Naturals, FiniteSets, Sequences

LEFT == 0
RIGHT == 1
NoNode == 0             \* a null pointer

Empty == [root |-> NoNode, node |-> <<>>]

Contents(t) == DOMAIN t.node
Parent(t, n) == t.node[n].parent
Child(t, n, which) == t.node[n].child[which]
isRed(t, n) == n # NoNode /\ t.node[n].red
isBlack(t, n) == ~isRed(t, n)
Paint(t, n, red) == [t EXCEPT !.node[n].red = red]

\* The pointers after a rotation: `other' takes the place of curnode under
\* `above', curnode becomes its child, and the subtree `moved' changes sides.
Turned(t, curnode, direction, other, moved, above) ==
    [root |-> IF above = NoNode THEN other ELSE t.root,
     node |-> [n \in Contents(t) |->
         CASE n = curnode -> [t.node[n] EXCEPT !.child[1 - direction] = moved, !.parent = other]
           [] n = other -> [t.node[n] EXCEPT !.child[direction] = curnode, !.parent = above]
           [] n = above ->
                [t.node[n] EXCEPT !.child = [w \in {LEFT, RIGHT} |-> IF @[w] = curnode THEN other ELSE @[w]]]
           [] n = moved -> [t.node[n] EXCEPT !.parent = curnode]
           [] OTHER -> t.node[n]]]

\* Mutant: the subtree that changes sides keeps its parent.
TreeRotate_OldParent(t, curnode, direction) ==
    LET moved == Child(t, Child(t, curnode, 1 - direction), direction)
        turned == Turned(t, curnode, direction, Child(t, curnode, 1 - direction), moved, Parent(t, curnode))
    IN  IF moved = NoNode THEN turned ELSE [turned EXCEPT !.node[moved].parent = Parent(t, moved)]

TreeRotate(t, curnode, direction) ==
    LET other == Child(t, curnode, 1 - direction)
    IN  Turned(t, curnode, direction, other, Child(t, other, direction), Parent(t, curnode))

-----------------------------------------------------------------------------
(* TreeAdd *)

\* One step up after an add, with a red uncle and without one: the tree, and
\* the node to go on with.
Recoloured(t, parent, uncle, grandparent) ==
    [tree |-> Paint(Paint(Paint(t, parent, FALSE), uncle, FALSE), grandparent, TRUE),
     curnode |-> grandparent]

Uncled(t, low, grandparent, which) ==
    [tree |-> TreeRotate(Paint(Paint(t, Parent(t, low), FALSE), grandparent, TRUE), grandparent, which),
     curnode |-> low]

TreeBAASub(t, curnode, parent, grandparent, which) ==
    LET uncle == Child(t, grandparent, which)
    IN  IF isRed(t, uncle) THEN Recoloured(t, parent, uncle, grandparent)
        ELSE IF curnode = Child(t, parent, which)
        THEN Uncled(TreeRotate(t, parent, 1 - which), parent, grandparent, which)
        ELSE Uncled(t, curnode, grandparent, which)

\* Climb goes on from what one step has made.
RECURSIVE TreeBalanceAfterAdd(_, _)
TreeBalanceAfterAdd(t, curnode) ==
    LET parent == Parent(t, curnode)
        Climb(step) == TreeBalanceAfterAdd(step.tree, step.curnode)
        Under(grandparent) ==
            Climb(TreeBAASub(t, curnode, parent, grandparent,
                             IF parent = Child(t, grandparent, LEFT) THEN RIGHT ELSE LEFT))
    IN  IF isRed(t, parent) /\ Parent(t, parent) # NoNode
        THEN Under(Parent(t, parent))
        ELSE Paint(t, t.root, FALSE)

\* The way down: the node that holds the content, or no node and the last one
\* passed.
RECURSIVE Search(_, _, _, _)
Search(t, content, curnode, curparent) ==
    IF curnode \in {NoNode, content}
    THEN [curnode |-> curnode, curparent |-> curparent]
    ELSE Search(t, content, Child(t, curnode, IF content > curnode THEN RIGHT ELSE LEFT), curnode)

TreeFind(t, content) == Search(t, content, t.root, NoNode).curnode

\* TreeAddByIndex of a content that is not there.
AddedUnder(t, content, above) ==
    [root |-> IF above = NoNode THEN content ELSE t.root,
     node |-> [n \in Contents(t) \cup {content} |->
         CASE n = content -> [parent |-> above, child |-> [w \in {LEFT, RIGHT} |-> NoNode], red |-> TRUE]
           [] n = above -> [t.node[n] EXCEPT !.child[IF content > above THEN RIGHT ELSE LEFT] = content]
           [] OTHER -> t.node[n]]]

TreeAdd(t, content) ==
    TreeBalanceAfterAdd(AddedUnder(t, content, Search(t, content, t.root, NoNode).curparent), content)

-----------------------------------------------------------------------------
(* TreeNextElement *)

RECURSIVE TreeMinimum(_, _)
TreeMinimum(t, curnode) ==
    IF Child(t, curnode, LEFT) = NoNode THEN curnode ELSE TreeMinimum(t, Child(t, curnode, LEFT))

RECURSIVE FirstRightTurn(_, _)
FirstRightTurn(t, curnode) ==
    LET above == Parent(t, curnode)
    IN  IF above # NoNode /\ curnode = Child(t, above, RIGHT) THEN FirstRightTurn(t, above) ELSE above

TreeSuccessor(t, curnode) ==
    IF Child(t, curnode, RIGHT) # NoNode
    THEN TreeMinimum(t, Child(t, curnode, RIGHT))
    ELSE FirstRightTurn(t, curnode)

TreeNextElement(t, curnode) ==
    IF curnode # NoNode THEN TreeSuccessor(t, curnode)
    ELSE IF t.root = NoNode THEN NoNode ELSE TreeMinimum(t, t.root)

-----------------------------------------------------------------------------
(* TreeRemove *)

\* One step up after a removal.  First a red sibling goes above the parent.
RedSibling(t, parent, sibling, which) ==
    IF isRed(t, sibling)
    THEN TreeRotate(Paint(Paint(t, sibling, FALSE), parent, TRUE), parent, 1 - which)
    ELSE t

\* Then, if only the inner child of the sibling is red, it becomes the sibling.
RedInner(t, sibling, inner, outer, which) ==
    IF isBlack(t, outer)
    THEN TreeRotate(Paint(Paint(t, inner, FALSE), sibling, TRUE), sibling, which)
    ELSE t

\* Last the sibling, whose outer child is red, goes above the parent.
RedOuter(t, parent, sibling, which) ==
    TreeRotate([t EXCEPT !.node[sibling].red = isRed(t, parent),
                         !.node[parent].red = FALSE,
                         !.node[Child(t, sibling, which)].red = FALSE],
               parent, 1 - which)

\* The tree, and the node to go on with.  A sibling exists whenever the node
\* that is short of a black one is not the root; the code goes on if it does not.
Finished(t) == [tree |-> t, curnode |-> t.root]
Outer(t, parent, which) == Finished(RedOuter(t, parent, Child(t, parent, which), which))
Sibling(t, parent, sibling, which) ==
    LET inner == Child(t, sibling, 1 - which)
        outer == Child(t, sibling, which)
    IN  IF sibling = NoNode THEN [tree |-> t, curnode |-> parent]
        ELSE IF isBlack(t, inner) /\ isBlack(t, outer)
        THEN [tree |-> Paint(t, sibling, TRUE), curnode |-> parent]
        ELSE Outer(RedInner(t, sibling, inner, outer, which), parent, which)
WithParent(t, parent, which) == Sibling(t, parent, Child(t, parent, which), which)

TreeBARSub(t, parent, which) ==
    WithParent(RedSibling(t, parent, Child(t, parent, which), which), parent, which)

\* A leaf that is gone is stood for by a node without content, which knows its
\* parent and which no node has as a child; `temp' is its name.
RECURSIVE TreeBalanceAfterRemove(_, _, _)
TreeBalanceAfterRemove(t, curnode, temp) ==
    LET as == IF curnode = temp THEN NoNode ELSE curnode
        Climb(step) == TreeBalanceAfterRemove(step.tree, step.curnode, temp)
        Under(parent) == Climb(TreeBARSub(t, parent, IF as = Child(t, parent, LEFT) THEN RIGHT ELSE LEFT))
    IN  IF curnode # t.root /\ isBlack(t, curnode)
        THEN Under(Parent(t, curnode))
        ELSE Paint(t, curnode, FALSE)

\* The node `redundant' is unlinked, and its only child moves up.
Unlinked(t, redundant, curchild, above) ==
    [root |-> IF above = NoNode THEN curchild ELSE t.root,
     node |-> [n \in Contents(t) |->
         CASE n = curchild -> [t.node[n] EXCEPT !.parent = above]
           [] n = above ->
                [t.node[n] EXCEPT !.child = [w \in {LEFT, RIGHT} |-> IF @[w] = redundant THEN curchild ELSE @[w]]]
           [] OTHER -> t.node[n]]]

\* The black node that was unlinked is missed.  Its place, its own memory,
\* serves as the name of the node without content.
Rebalanced(t, redundant, curchild) ==
    IF isRed(t, redundant) THEN t
    ELSE IF curchild # NoNode THEN TreeBalanceAfterRemove(t, curchild, redundant)
    ELSE IF Parent(t, redundant) # NoNode THEN TreeBalanceAfterRemove(t, redundant, redundant)
    ELSE t

\* The nodes that are left, after the content of `redundant' went to curnode; a
\* pointer to the freed node is one to nothing that is left.
Renamed(t, curnode, redundant, left) ==
    LET Name(n) == CASE n = curnode -> redundant [] n = redundant -> curnode [] OTHER -> n
    IN  [root |-> Name(t.root),
         node |-> [n \in left |->
             [parent |-> Name(Parent(t, Name(n))),
              child |-> [w \in {LEFT, RIGHT} |-> Name(Child(t, Name(n), w))],
              red |-> t.node[Name(n)].red]]]

\* TreeRemoveNodeIndex: a node with two children is left in place, and the next
\* one, whose content it takes, goes.
Removed(t, curnode, redundant, curchild) ==
    Renamed(Rebalanced(Unlinked(t, redundant, curchild, Parent(t, redundant)), redundant, curchild),
            curnode, redundant, Contents(t) \ {curnode})
OnlyChild(t, n) == Child(t, n, IF Child(t, n, LEFT) # NoNode THEN LEFT ELSE RIGHT)
RemovedBy(t, curnode, redundant) == Removed(t, curnode, redundant, OnlyChild(t, redundant))

TreeRemove(t, curnode) ==
    RemovedBy(t, curnode, IF Child(t, curnode, LEFT) # NoNode /\ Child(t, curnode, RIGHT) # NoNode
                          THEN TreeSuccessor(t, curnode) ELSE curnode)

-----------------------------------------------------------------------------
(* What a red-black tree is *)

RECURSIVE Below(_, _)
Below(t, n) ==
    IF n = NoNode THEN {} ELSE {n} \cup Below(t, Child(t, n, LEFT)) \cup Below(t, Child(t, n, RIGHT))

RECURSIVE BlackHeights(_, _)
BlackHeights(t, n) ==
    IF n = NoNode THEN {0}
    ELSE {h + (IF isRed(t, n) THEN 0 ELSE 1) :
              h \in BlackHeights(t, Child(t, n, LEFT)) \cup BlackHeights(t, Child(t, n, RIGHT))}

Linked(t) ==
    /\ t.root # NoNode => Parent(t, t.root) = NoNode
    /\ \A n \in Contents(t), w \in {LEFT, RIGHT} :
          Child(t, n, w) # NoNode => Parent(t, Child(t, n, w)) = n

Ordered(t) ==
    \A n \in Contents(t) :
        /\ \A m \in Below(t, Child(t, n, LEFT)) : m < n
        /\ \A m \in Below(t, Child(t, n, RIGHT)) : m > n

RedBlack(t) ==
    /\ isBlack(t, t.root)
    /\ \A n \in Contents(t) : isRed(t, n) => isBlack(t, Child(t, n, LEFT)) /\ isBlack(t, Child(t, n, RIGHT))
    /\ Cardinality(BlackHeights(t, t.root)) = 1

Sound(t) == Below(t, t.root) = Contents(t) /\ Linked(t) /\ Ordered(t) /\ RedBlack(t)
=============================================================================

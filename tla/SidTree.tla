------------------------------ MODULE SidTree -------------------------------
(***************************************************************************)
(* COLLADASaxFWL::SidTreeNode and the part of DocumentProcessor that       *)
(* builds the tree of elements with ids or sids while files are parsed,    *)
(* and resolves sid addresses in it afterwards (joints of skins, targets   *)
(* of animations, parameters of formulas).                                 *)
(*                                                                         *)
(* Every node has a map of its descendants by sid and hierarchy level; a   *)
(* new node is entered into the maps of all its ancestors.                 *)
(***************************************************************************)
EXTENDS Integers, Sequences, FiniteSets, SequencesExt

CONSTANTS
    Id, Sid,        \* ids and sids that occur in the files
    MaxNodes,       \* bound: nodes of the tree
    MaxSids         \* bound: sids of an address that is resolved

None == "none"      \* no id, no sid, no url
NoNode == 0         \* the null pointer

ASSUME SidTreeAssumption == None \notin Id /\ None \notin Sid

VARIABLES
    tree,           \* the nodes by number: sid, mParent, all nodes above, url of an instance
    children,       \* mChildren of the nodes
    nodeOf,         \* mIdStringSidTreeNodeMap
    current         \* mCurrentSidTreeNode

vars == <<tree, children, nodeOf, current>>

Node == DOMAIN tree
Root == 1

NoChildren == [k \in {} |-> Root]

Init == /\ tree = << [sid |-> None, parent |-> NoNode, above |-> {}, url |-> None] >>
        /\ children = << NoChildren >>
        /\ nodeOf = [i \in {} |-> Root]
        /\ current = Root

-----------------------------------------------------------------------------
(* Building the tree. *)

\* Mutant of Level: it does not grow.
LevelZero(m) == 0

\* addChildToParents(): the hierarchy level under which a new child of the current node is
\* entered into the map of m.  On the way up to m it grows with every node that has a sid, m
\* itself counted and the child's parent not.
Level(m) == Cardinality({a \in tree[current].above : a >= m /\ tree[a].sid # None})

\* std::map::insert keeps what is there.
Inserted(m, k, n) == [x \in DOMAIN m \union {k} |-> IF x \in DOMAIN m THEN m[x] ELSE n]

\* Mutant of Entered: only the parent gets to know the child.
EnteredIntoParent(s, n) ==
    [m \in 1 .. n |->
        IF m = n THEN NoChildren
        ELSE IF s # None /\ m = current THEN Inserted(children[m], <<s, 0>>, n)
        ELSE children[m]]

\* createAndAddChild(): the maps with the new node n, which has sid s.
Entered(s, n) ==
    [m \in 1 .. n |->
        IF m = n THEN NoChildren
        ELSE IF s # None /\ m \in tree[current].above \union {current}
             THEN Inserted(children[m], <<s, Level(m)>>, n)
        ELSE children[m]]

\* addToSidTree(); the target is of interest if it is an instance with a url, which never has
\* an id.
AddToSidTree(id, s, url) ==
    LET n == Len(tree) + 1 IN
    /\ n <= MaxNodes
    /\ url # None => id = None
    /\ tree' = Append(tree, [sid |-> s, parent |-> current,
                            above |-> tree[current].above \union {current}, url |-> url])
    /\ children' = Entered(s, n)
    /\ nodeOf' = IF id = None THEN nodeOf
                 ELSE [i \in DOMAIN nodeOf \union {id} |-> IF i = id THEN n ELSE nodeOf[i]]
    /\ current' = n

\* Mutant of MoveUpInSidTree: a loader moves up for a node that it has not added.
MoveUpTooOften ==
    /\ current' = tree[current].parent
    /\ UNCHANGED <<tree, children, nodeOf>>

\* Loaders move up at most once for each node they have added.
MoveUpInSidTree ==
    /\ current # Root
    /\ current' = tree[current].parent
    /\ UNCHANGED <<tree, children, nodeOf>>

Next ==
    \/ \E id \in Id \union {None}, s \in Sid \union {None}, url \in Id \union {None} :
          AddToSidTree(id, s, url)
    \/ MoveUpInSidTree

Spec == Init /\ [][Next]_vars

-----------------------------------------------------------------------------
(* Resolving addresses. *)

\* The entries of a node's map for a sid.
Entries(n, s) == {k \in DOMAIN children[n] : k[1] = s}

\* findChildBySid(): lower_bound of <<s, 0>> in the map.
FindChildBySid(n, s) ==
    IF Entries(n, s) = {} THEN NoNode
    ELSE children[n][CHOOSE k \in Entries(n, s) : \A l \in Entries(n, s) : k[2] <= l[2]]

\* The first sid may be that of the node with the id.
WithoutOwn(n, sids) == IF sids # << >> /\ Head(sids) = tree[n].sid THEN Tail(sids) ELSE sids

\* A node, and the sids that are resolved from there on.
Position == Node \X Seq(Sid)

\* resolveSid() and resolveSidInInstance() from a node on.
Resolved[at \in Position] ==
    LET n == at[1]  sids == at[2] IN
    IF sids = << >> THEN n
    ELSE LET child == FindChildBySid(n, Head(sids)) IN
         IF child # NoNode THEN Resolved[<<child, Tail(sids)>>]
         ELSE IF tree[n].url \notin DOMAIN nodeOf THEN NoNode
         ELSE LET m == nodeOf[tree[n].url] IN Resolved[<<m, WithoutOwn(m, sids)>>]

\* Mutant of ResolveSid: the sid of the node with the id is searched below it.
ResolveSidBelow(id, sids) ==
    IF id \notin DOMAIN nodeOf THEN NoNode ELSE Resolved[<<nodeOf[id], sids>>]

ResolveSid(id, sids) ==
    IF id \notin DOMAIN nodeOf THEN NoNode
    ELSE Resolved[<<nodeOf[id], WithoutOwn(nodeOf[id], sids)>>]

-----------------------------------------------------------------------------
(* Properties. *)

\* The variables have their types, and a node is below its parent and below the nodes above that.
TypeOK ==
    /\ tree \in Seq([sid : Sid \union {None}, parent : Nat, above : SUBSET Nat,
                    url : Id \union {None}])
    /\ Len(tree) > 0 /\ tree[Root].above = {}
    /\ \A n \in Node \ {Root} :
          /\ tree[n].parent \in 1 .. n - 1
          /\ tree[n].above = tree[tree[n].parent].above \union {tree[n].parent}
    /\ DOMAIN children = Node
    /\ \A n \in Node : DOMAIN children[n] \subseteq Sid \X Nat
    /\ DOMAIN nodeOf \subseteq Id /\ \A i \in DOMAIN nodeOf : nodeOf[i] \in Node
    /\ current \in Node

Below(n) == {m \in Node : n \in tree[m].above}

\* findChildBySid finds a node if and only if one below has the sid, and then one of them,
\* whatever was entered into the maps before it, and however deep it is.
FindsWhatIsBelow ==
    \A n \in Node, s \in Sid :
        LET found == FindChildBySid(n, s) IN
        IF \E m \in Below(n) : tree[m].sid = s
        THEN found \in Below(n) /\ tree[found].sid = s
        ELSE found = NoNode

Distance(m, n) == Cardinality(tree[m].above \ tree[n].above)

\* "the one with the lowest hierarchy level is returned" (SidTreeNode.h): where every node has a
\* sid, no node with that sid is nearer than the one that findChildBySid finds.
FindsNearest ==
    \A n \in Node :
        (\A m \in Below(n) \union {n} : tree[m].sid # None) =>
            \A m \in Below(n) : Distance(FindChildBySid(n, tree[m].sid), n) <= Distance(m, n)

Addresses == Id \X SeqOf(Sid, MaxSids)

\* What sids may mean from node n on: each is one below the node before it, or belongs to the
\* element that this node instantiates.
Meant[at \in Position] ==
    LET n == at[1]  sids == at[2] IN
    IF sids = << >> THEN {n}
    ELSE (UNION {Meant[<<m, Tail(sids)>>] : m \in {b \in Below(n) : tree[b].sid = Head(sids)}})
         \union (IF tree[n].url \notin DOMAIN nodeOf THEN {}
                 ELSE LET m == nodeOf[tree[n].url] IN Meant[<<m, WithoutOwn(m, sids)>>])

SidsAreUnique ==
    \A m, n \in Node : tree[m].sid = tree[n].sid /\ tree[m].sid # None => m = n

\* resolveSid resolves an address to one of the elements that it may mean; if no sid occurs twice,
\* it is resolved whenever it means something, also through instances.
ResolvesWhatIsMeant ==
    \A a \in Addresses :
        LET id == a[1]  sids == a[2]
            n == ResolveSid(id, sids)
            meant == IF id \notin DOMAIN nodeOf THEN {}
                     ELSE Meant[<<nodeOf[id], WithoutOwn(nodeOf[id], sids)>>]
        IN  /\ n # NoNode => n \in meant
            /\ SidsAreUnique /\ meant # {} => n # NoNode
=============================================================================

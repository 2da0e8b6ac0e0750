---------------------------- MODULE SidTreeProofs ----------------------------
(***************************************************************************)
(* The tree of sids, for files of any size: types, that findChildBySid     *)
(* finds a node exactly if there is one, and the nearest; that addresses   *)
(* are resolved to what they mean.  And skin controllers, which are made   *)
(* over it: they build the tree as SidTree says, instances get the joints  *)
(* that the skin's names mean, and all instances get controllers.          *)
(***************************************************************************)
EXTENDS SkinControllers, WellFoundedInduction, FiniteSetTheorems, TLAPS

NodeType == [sid : Sid \union {None}, parent : Nat, above : SUBSET Nat, url : Id \union {None}]

\* Nodes are numbered as they are added, so that only lower numbers are above a node.
AboveIsBefore == \A n \in Node : tree[n].above \subseteq 1 .. n - 1

\* Every entry of a map leads to a node below that has the entry's sid, and every node below that
\* has a sid has an entry.
EntriesAreBelow ==
    \A n \in Node : \A k \in DOMAIN children[n] :
        children[n][k] \in Below(n) /\ tree[children[n][k]].sid = k[1]

BelowAreEntries ==
    \A n \in Node, m \in Node :
        n \in tree[m].above /\ tree[m].sid # None => Entries(n, tree[m].sid) # {}

IInv == TypeOK /\ AboveIsBefore /\ EntriesAreBelow /\ BelowAreEntries

-----------------------------------------------------------------------------
LEMMA LevelType ==
    ASSUME TypeOK, AboveIsBefore, NEW m
    PROVE  Level(m) \in Nat
<1> DEFINE S == {a \in tree[current].above : a >= m /\ tree[a].sid # None}
<1>1. current \in Int /\ tree[current].above \subseteq 1 .. current - 1
  BY DEF TypeOK, AboveIsBefore, Node
<1>2. IsFiniteSet(1 .. current - 1)  BY <1>1, FS_Interval
<1>3. S \in SUBSET (1 .. current - 1)  BY <1>1
<1>4. IsFiniteSet(S)  BY <1>2, <1>3, FS_Subset
<1>5. Cardinality(S) \in Nat  BY <1>4, FS_CardinalityType
<1> QED  BY <1>5 DEF Level

\* Every set of numbers has a smallest one.
LEMMA Smallest ==
    ASSUME NEW N \in SUBSET Nat, N # {}
    PROVE  \E m \in N : \A n \in N : m <= n
<1>1. PICK m \in N : \A n \in N : ~ (<<n, m>> \in OpToRel(<, Nat))
  BY WFMin, NatLessThanWellFounded
<1>2. \A n \in Nat : n < m => <<n, m>> \in OpToRel(<, Nat)  BY Zenon DEF OpToRel
<1>3. \A n \in N : ~ (n < m)  BY <1>1, <1>2, Zenon
<1> QED  BY <1>3

\* A set of entries that is not empty has one with the lowest level.
LEMMA LowestLevel ==
    ASSUME NEW E, E # {}, \A k \in E : k[2] \in Nat
    PROVE  \E k \in E : \A l \in E : k[2] <= l[2]
<1> DEFINE Levels == {k[2] : k \in E}
<1>1. Levels \subseteq Nat /\ Levels # {}  OBVIOUS
<1>2. PICK x \in Levels : \A y \in Levels : x <= y
  <2> HIDE DEF Levels
  <2> QED  BY <1>1, Smallest
<1>3. PICK k \in E : k[2] = x  BY <1>2
<1> QED  BY <1>2, <1>3

LEMMA InitInvariant == Init => IInv
<1> SUFFICES ASSUME Init PROVE IInv
  OBVIOUS
<1> DEFINE r == [sid |-> None, parent |-> NoNode, above |-> {}, url |-> None]
<1>1. r \in NodeType  BY DEF NodeType, NoNode
<1>2. tree = << r >> /\ Len(tree) = 1 /\ Node = {1} /\ tree[1] = r  BY DEF Init, Node
<1>3. children = << NoChildren >> /\ DOMAIN children = {1} /\ DOMAIN children[1] = {}
  BY DEF Init, NoChildren
<1>4. TypeOK
  <2>1. tree \in Seq(NodeType)  BY <1>1, <1>2
  <2>2. tree[1].above = {}  BY <1>2
  <2> HIDE DEF r
  <2> QED  BY <2>1, <2>2, <1>2, <1>3 DEF Init, TypeOK, NodeType, Root
<1>5. AboveIsBefore  BY <1>2 DEF AboveIsBefore
<1>6. EntriesAreBelow  BY <1>2, <1>3 DEF EntriesAreBelow
<1>7. BelowAreEntries  BY <1>2 DEF BelowAreEntries
<1> QED  BY <1>4, <1>5, <1>6, <1>7 DEF IInv

-----------------------------------------------------------------------------
(* A new node. *)

\* What a new node is, and that the others stay as they are.
LEMMA NewNode ==
    ASSUME IInv, NEW id \in Id \union {None}, NEW s \in Sid \union {None},
           NEW url \in Id \union {None}, AddToSidTree(id, s, url), NEW n, n = Len(tree) + 1
    PROVE  /\ n \in Nat /\ n > 1 /\ n \notin Node
           /\ Node = 1 .. n - 1 /\ Node' = 1 .. n
           /\ tree' \in Seq(NodeType)
           /\ tree'[n].sid = s /\ tree'[n].parent = current
           /\ tree'[n].above = tree[current].above \union {current}
           /\ \A m \in Node : tree'[m] = tree[m]
<1> DEFINE r == [sid |-> s, parent |-> current,
                 above |-> tree[current].above \union {current}, url |-> url]
<1>1. tree \in Seq(NodeType) /\ current \in Node /\ Len(tree) > 0  BY DEF IInv, TypeOK, NodeType
<1>2. Node = 1 .. Len(tree) /\ Len(tree) \in Nat  BY <1>1 DEF Node
<1>3. r \in NodeType
  <2>1. current \in Nat /\ tree[current] \in NodeType  BY <1>1, <1>2
  <2> QED  BY <2>1 DEF NodeType
<1>4. tree' = Append(tree, r)  BY DEF AddToSidTree
<1> HIDE DEF r
<1>5. /\ Append(tree, r) \in Seq(NodeType) /\ Len(Append(tree, r)) = Len(tree) + 1
      /\ Append(tree, r)[Len(tree) + 1] = r
      /\ \A m \in 1 .. Len(tree) : Append(tree, r)[m] = tree[m]
  BY <1>1, <1>3
<1>6. Node' = 1 .. Len(tree) + 1  BY <1>4, <1>5 DEF Node
<1>7. r.sid = s /\ r.parent = current /\ r.above = tree[current].above \union {current}  BY DEF r
<1> QED  BY <1>1, <1>2, <1>4, <1>5, <1>6, <1>7

\* The maps with the new node: those of the nodes above it have an entry for its sid.
NewMaps(n, s) ==
    /\ DOMAIN children' = 1 .. n
    /\ DOMAIN children'[n] = {}
    /\ \A m \in Node :
          /\ \A k \in DOMAIN children[m] :
                k \in DOMAIN children'[m] /\ children'[m][k] = children[m][k]
          /\ \A k \in DOMAIN children'[m] \ DOMAIN children[m] :
                /\ children'[m][k] = n /\ s # None /\ m \in tree'[n].above
                /\ k \in Sid \X Nat /\ k[1] = s
          /\ s # None /\ m \in tree'[n].above =>
                \E k \in DOMAIN children'[m] : k[1] = s

LEMMA NewEntries ==
    ASSUME IInv, NEW id \in Id \union {None}, NEW s \in Sid \union {None},
           NEW url \in Id \union {None}, AddToSidTree(id, s, url), NEW n, n = Len(tree) + 1
    PROVE  NewMaps(n, s)
<1>1. /\ n \in Nat /\ n \notin Node /\ Node = 1 .. n - 1
      /\ tree'[n].above = tree[current].above \union {current}
  BY NewNode
<1>2. children' = Entered(s, n)  BY DEF AddToSidTree
<1>3. DOMAIN children' = 1 .. n  BY <1>2 DEF Entered
<1>4. children'[n] = NoChildren  BY <1>1, <1>2 DEF Entered
<1>5. ASSUME NEW m \in Node
      PROVE  /\ \A k \in DOMAIN children[m] :
                   k \in DOMAIN children'[m] /\ children'[m][k] = children[m][k]
             /\ \A k \in DOMAIN children'[m] \ DOMAIN children[m] :
                   /\ children'[m][k] = n /\ s # None /\ m \in tree'[n].above
                   /\ k \in Sid \X Nat /\ k[1] = s
             /\ s # None /\ m \in tree'[n].above => \E k \in DOMAIN children'[m] : k[1] = s
  <2>1. CASE s # None /\ m \in tree'[n].above
    <3> DEFINE e == <<s, Level(m)>>
    <3>1. children'[m] = Inserted(children[m], e, n)
      BY <1>1, <1>2, <2>1 DEF Entered
    <3>2. Level(m) \in Nat  BY LevelType DEF IInv
    <3>3. e \in Sid \X Nat /\ e[1] = s  BY <2>1, <3>2
    <3> HIDE DEF e
    <3> QED  BY <2>1, <3>1, <3>3 DEF Inserted
  <2>2. CASE ~ (s # None /\ m \in tree'[n].above)
    <3>1. children'[m] = children[m]  BY <1>1, <1>2, <2>2 DEF Entered
    <3> QED  BY <2>2, <3>1
  <2> QED  BY <2>1, <2>2
<1> QED  BY <1>3, <1>4, <1>5 DEF NoChildren, NewMaps

LEMMA AddPreserves ==
    ASSUME IInv, NEW id \in Id \union {None}, NEW s \in Sid \union {None},
           NEW url \in Id \union {None}, AddToSidTree(id, s, url)
    PROVE  IInv'
<1> DEFINE n == Len(tree) + 1
<1>0. n = Len(tree) + 1  OBVIOUS
<1> HIDE DEF n
<1>1. /\ n \in Nat /\ n > 1 /\ n \notin Node
      /\ Node = 1 .. n - 1 /\ Node' = 1 .. n
      /\ tree' \in Seq(NodeType)
      /\ tree'[n].sid = s /\ tree'[n].parent = current
      /\ tree'[n].above = tree[current].above \union {current}
      /\ \A m \in Node : tree'[m] = tree[m]
  BY <1>0, NewNode
<1>2. NewMaps(n, s)  BY <1>0, NewEntries
<1>3. current \in Node /\ current' = n  BY <1>0 DEF IInv, TypeOK, AddToSidTree
<1>4. nodeOf' = IF id = None THEN nodeOf
                ELSE [i \in DOMAIN nodeOf \union {id} |-> IF i = id THEN n ELSE nodeOf[i]]
  BY <1>0 DEF AddToSidTree
<1>5. Len(tree') > 0  BY <1>1 DEF Node
<1>6. tree'[Root].above = {}
  <2>1. Root \in Node  BY <1>1 DEF Root
  <2>2. tree[Root].above = {}  BY DEF IInv, TypeOK
  <2> QED  BY <1>1, <2>1, <2>2
<1>7. ASSUME NEW m \in Node' \ {Root}
      PROVE  /\ tree'[m].parent \in 1 .. m - 1
             /\ tree'[m].above = tree'[tree'[m].parent].above \union {tree'[m].parent}
  <2>1. CASE m = n  BY <1>1, <1>3, <2>1
  <2>2. CASE m # n
    <3>1. m \in Node \ {Root}  BY <1>1, <2>2
    <3>2. /\ tree[m].parent \in 1 .. m - 1
          /\ tree[m].above = tree[tree[m].parent].above \union {tree[m].parent}
      BY <3>1 DEF IInv, TypeOK
    <3>3. tree[m].parent \in Node  BY <1>1, <3>1, <3>2
    <3> QED  BY <1>1, <3>1, <3>2, <3>3
  <2> QED  BY <2>1, <2>2
<1>8. ASSUME NEW m \in Node' PROVE DOMAIN children'[m] \subseteq Sid \X Nat
  <2>1. CASE m = n  BY <1>2, <2>1 DEF NewMaps
  <2>2. CASE m # n
    <3>1. m \in Node  BY <1>1, <2>2
    <3>2. DOMAIN children[m] \subseteq Sid \X Nat  BY <3>1 DEF IInv, TypeOK
    <3> QED  BY <1>2, <3>1, <3>2 DEF NewMaps
  <2> QED  BY <2>1, <2>2
<1>9. DOMAIN nodeOf' \subseteq Id /\ \A i \in DOMAIN nodeOf' : nodeOf'[i] \in Node'
  <2>1. DOMAIN nodeOf \subseteq Id /\ \A i \in DOMAIN nodeOf : nodeOf[i] \in Node
    BY DEF IInv, TypeOK
  <2>2. n \in Node' /\ Node \subseteq Node'  BY <1>1
  <2> QED  BY <1>4, <2>1, <2>2
<1>10. TypeOK'
  BY <1>1, <1>2, <1>3, <1>5, <1>6, <1>7, <1>8, <1>9 DEF TypeOK, NodeType, NewMaps
<1>11. AboveIsBefore'
  <2> SUFFICES ASSUME NEW m \in Node' PROVE tree'[m].above \subseteq 1 .. m - 1
    BY DEF AboveIsBefore
  <2>1. \A l \in Node : tree[l].above \subseteq 1 .. l - 1  BY DEF IInv, AboveIsBefore
  <2>2. CASE m = n  BY <1>1, <1>3, <2>1, <2>2
  <2>3. CASE m # n  BY <1>1, <2>1, <2>3
  <2> QED  BY <2>2, <2>3
<1>12. EntriesAreBelow'
  <2> SUFFICES ASSUME NEW m \in Node', NEW k \in DOMAIN children'[m]
               PROVE  /\ children'[m][k] \in Node' /\ m \in tree'[children'[m][k]].above
                      /\ tree'[children'[m][k]].sid = k[1]
    BY DEF EntriesAreBelow, Below
  <2>1. m # n /\ m \in Node  BY <1>1, <1>2 DEF NewMaps
  <2>2. CASE k \in DOMAIN children[m]
    <3>1. /\ children[m][k] \in Node /\ m \in tree[children[m][k]].above
          /\ tree[children[m][k]].sid = k[1]
      BY <2>1, <2>2 DEF IInv, EntriesAreBelow, Below
    <3>2. children'[m][k] = children[m][k]  BY <1>2, <2>1, <2>2 DEF NewMaps
    <3> QED  BY <1>1, <3>1, <3>2
  <2>3. CASE k \notin DOMAIN children[m]
    <3>1. children'[m][k] = n /\ m \in tree'[n].above /\ k[1] = s  BY <1>2, <2>1, <2>3 DEF NewMaps
    <3> QED  BY <1>1, <3>1
  <2> QED  BY <2>2, <2>3
<1>13. BelowAreEntries'
  <2> SUFFICES ASSUME NEW m \in Node', NEW l \in Node',
                      m \in tree'[l].above, tree'[l].sid # None
               PROVE  \E k \in DOMAIN children'[m] : k[1] = tree'[l].sid
    BY DEF BelowAreEntries, Entries
  <2>1. m # n /\ m \in Node
    <3>1. m \in 1 .. l - 1 /\ l \in 1 .. n  BY <1>1, <1>11 DEF AboveIsBefore
    <3> QED  BY <1>1, <3>1
  <2>2. CASE l = n  BY <1>1, <1>2, <2>1, <2>2 DEF NewMaps
  <2>3. CASE l # n
    <3>1. l \in Node /\ m \in tree[l].above /\ tree[l].sid # None /\ tree'[l].sid = tree[l].sid
      BY <1>1, <2>3
    <3>2. PICK k \in DOMAIN children[m] : k[1] = tree[l].sid
      BY <2>1, <3>1 DEF IInv, BelowAreEntries, Entries
    <3> QED  BY <1>2, <2>1, <3>1, <3>2 DEF NewMaps
  <2> QED  BY <2>2, <2>3
<1> QED  BY <1>10, <1>11, <1>12, <1>13 DEF IInv

-----------------------------------------------------------------------------
LEMMA NextPreserves == IInv /\ [Next]_vars => IInv'
<1> SUFFICES ASSUME IInv, [Next]_vars PROVE IInv'
  OBVIOUS
<1>1. CASE \E id \in Id \union {None}, s \in Sid \union {None}, url \in Id \union {None} :
              AddToSidTree(id, s, url)
  BY <1>1, AddPreserves
<1>2. CASE MoveUpInSidTree
  <2>1. UNCHANGED <<tree, children, nodeOf>>  BY <1>2 DEF MoveUpInSidTree
  <2>2. current' \in Node
    <3>1. current \in Node \ {Root}  BY <1>2 DEF MoveUpInSidTree, IInv, TypeOK
    <3>2. tree[current].parent \in 1 .. current - 1 /\ Node = 1 .. Len(tree)
      BY <3>1 DEF IInv, TypeOK, Node
    <3>3. tree \in Seq(NodeType)  BY DEF IInv, TypeOK, NodeType
    <3>4. Len(tree) \in Nat  BY <3>3
    <3> QED  BY <1>2, <3>1, <3>2, <3>4 DEF MoveUpInSidTree
  <2> QED
    BY <2>1, <2>2
    DEF IInv, TypeOK, AboveIsBefore, EntriesAreBelow, BelowAreEntries, Entries, Below, Node
<1>3. CASE UNCHANGED vars
  BY <1>3
  DEF vars, IInv, TypeOK, AboveIsBefore, EntriesAreBelow, BelowAreEntries, Entries, Below, Node
<1> QED  BY <1>1, <1>2, <1>3 DEF Next

LEMMA Invariant == Spec => []IInv
BY InitInvariant, NextPreserves, PTL DEF Spec

\* The tree, the maps, the map of ids and the current node have their types (addToSidTree,
\* moveUpInSidTree), for any ids and sids and in files of any size.
THEOREM TypesAreRight == Spec => []TypeOK
<1>1. IInv => TypeOK  BY DEF IInv
<1> QED  BY <1>1, Invariant, PTL

\* What the invariant says of the maps: they have a node below for each sid that one below has.
LEMMA FoundIsBelow == IInv => FindsWhatIsBelow
<1> SUFFICES ASSUME IInv PROVE FindsWhatIsBelow
  OBVIOUS
<1> SUFFICES ASSUME NEW n \in Node, NEW s \in Sid
             PROVE  IF \E m \in Below(n) : tree[m].sid = s
                    THEN /\ FindChildBySid(n, s) \in Below(n)
                         /\ tree[FindChildBySid(n, s)].sid = s
                    ELSE FindChildBySid(n, s) = NoNode
  BY DEF FindsWhatIsBelow
<1>1. s # None  BY SidTreeAssumption
<1>2. \A k \in Entries(n, s) :
         children[n][k] \in Below(n) /\ tree[children[n][k]].sid = s /\ k[2] \in Nat
  BY DEF IInv, TypeOK, EntriesAreBelow, Entries
<1>3. Entries(n, s) # {} <=> \E m \in Below(n) : tree[m].sid = s
  BY <1>1, <1>2 DEF IInv, BelowAreEntries, Below
<1>4. CASE Entries(n, s) = {}  BY <1>3, <1>4 DEF FindChildBySid
<1>5. CASE Entries(n, s) # {}
  <2>1. \E k \in Entries(n, s) : \A l \in Entries(n, s) : k[2] <= l[2]
    BY <1>2, <1>5, LowestLevel
  <2> QED  BY <1>2, <1>3, <1>5, <2>1 DEF FindChildBySid
<1> QED  BY <1>4, <1>5

\* findChildBySid finds a node below with the sid if and only if there is one, for any files.
THEOREM AlwaysFindsWhatIsBelow == Spec => []FindsWhatIsBelow
<1> QED  BY FoundIsBelow, Invariant, PTL

-----------------------------------------------------------------------------
(* The nearest node.  The level of a node in the map of a node above it is *)
(* the number of nodes with a sid on the way, and the nodes above a node   *)
(* are a chain.                                                            *)

\* The nodes on the way from n to m, but for m and its parent, that have a sid.
WithSid(t, n, m) == {a \in t[t[m].parent].above : a >= n /\ t[a].sid # None}

AboveIsChain ==
    \A m \in Node : \A n \in tree[m].above : tree[n].above = {a \in tree[m].above : a < n}

EntriesHaveLevels ==
    \A n \in Node : \A k \in DOMAIN children[n] : k[2] = Cardinality(WithSid(tree, n, children[n][k]))

BelowHaveLevels ==
    \A n \in Node, m \in Node :
        n \in tree[m].above /\ tree[m].sid # None =>
            \E k \in Entries(n, tree[m].sid) : k[2] = Cardinality(WithSid(tree, n, m))

Levelled == AboveIsChain /\ EntriesHaveLevels /\ BelowHaveLevels

LEMMA LevelledInit == Init => Levelled
<1> SUFFICES ASSUME Init PROVE Levelled
  OBVIOUS
<1> DEFINE r == [sid |-> None, parent |-> NoNode, above |-> {}, url |-> None]
<1>1. tree = << r >> /\ Node = {1} /\ tree[1] = r /\ r.above = {}  BY DEF Init, Node
<1>2. children = << NoChildren >> /\ DOMAIN children[1] = {}  BY DEF Init, NoChildren
<1> HIDE DEF r
<1> QED  BY <1>1, <1>2 DEF Levelled, AboveIsChain, EntriesHaveLevels, BelowHaveLevels

\* The levels of older nodes stay.
LEMMA SameLevel ==
    ASSUME IInv, NEW id \in Id \union {None}, NEW s \in Sid \union {None},
           NEW url \in Id \union {None}, AddToSidTree(id, s, url),
           NEW n, NEW m \in Node, n \in tree[m].above
    PROVE  WithSid(tree', n, m) = WithSid(tree, n, m)
<1> DEFINE x == Len(tree) + 1
<1>1. /\ x \in Nat /\ Node = 1 .. x - 1
      /\ \A l \in Node : tree'[l] = tree[l]
  BY NewNode
<1> HIDE DEF x
<1>2. m # Root  BY DEF IInv, TypeOK
<1>3. tree[m].parent \in 1 .. m - 1  BY <1>2 DEF IInv, TypeOK
<1> DEFINE p == tree[m].parent
<1>4. p \in Node  BY <1>1, <1>3
<1>5. tree[p].above \subseteq Node
  <2>1. tree[p].above \subseteq 1 .. p - 1 /\ p \in 1 .. m - 1 /\ m \in 1 .. x - 1
    BY <1>1, <1>3, <1>4 DEF IInv, AboveIsBefore
  <2>2. 1 .. p - 1 \subseteq 1 .. x - 1  BY <1>1, <2>1
  <2> QED  BY <1>1, <2>1, <2>2
<1>6. tree'[m].parent = p /\ tree'[p].above = tree[p].above  BY <1>1, <1>4
<1>7. \A a \in tree[p].above : tree'[a].sid = tree[a].sid  BY <1>1, <1>5
<1> HIDE DEF p
<1> QED  BY <1>6, <1>7 DEF WithSid, p

LEMMA LevelledAdd ==
    ASSUME IInv, Levelled, NEW id \in Id \union {None}, NEW s \in Sid \union {None},
           NEW url \in Id \union {None}, AddToSidTree(id, s, url)
    PROVE  Levelled'
<1> DEFINE x == Len(tree) + 1
<1>0. x = Len(tree) + 1  OBVIOUS
<1> HIDE DEF x
<1>1. /\ x \in Nat /\ x > 1 /\ x \notin Node
      /\ Node = 1 .. x - 1 /\ Node' = 1 .. x
      /\ tree'[x].sid = s /\ tree'[x].parent = current
      /\ tree'[x].above = tree[current].above \union {current}
      /\ \A m \in Node : tree'[m] = tree[m]
  BY <1>0, NewNode
<1>2. NewMaps(x, s)  BY <1>0, NewEntries
<1>3. IInv'  BY AddPreserves
<1>4. current \in Node /\ tree[current].above \subseteq 1 .. current - 1
  BY DEF IInv, TypeOK, AboveIsBefore
<1>5. \A m \in Node : tree[m].above \subseteq 1 .. m - 1  BY DEF IInv, AboveIsBefore
<1>6. AboveIsChain'
  <2> SUFFICES ASSUME NEW m \in Node', NEW n \in tree'[m].above
               PROVE  tree'[n].above = {a \in tree'[m].above : a < n}
    BY DEF AboveIsChain
  <2>1. CASE m = x
    <3>1. CASE n = current
      <4>1. tree'[n].above = tree[n].above  BY <1>1, <1>4, <3>1
      <4>2. \A a \in tree[current].above : a < current  BY <1>1, <1>4
      <4>3. current \in Int  BY <1>1, <1>4
      <4> QED  BY <1>1, <2>1, <3>1, <4>1, <4>2, <4>3
    <3>2. CASE n \in tree[current].above
      <4>1. n \in 1 .. current - 1 /\ current \in 1 .. x - 1  BY <1>1, <1>4, <3>2
      <4>2. n \in Node /\ ~ (current < n)  BY <1>1, <4>1
      <4>3. tree[n].above = {a \in tree[current].above : a < n}
        BY <1>4, <3>2 DEF Levelled, AboveIsChain
      <4> QED  BY <1>1, <2>1, <4>2, <4>3
    <3> QED  BY <1>1, <2>1, <3>1, <3>2
  <2>2. CASE m # x
    <3>1. m \in Node /\ n \in tree[m].above  BY <1>1, <2>2
    <3>2. n \in Node
      <4>1. n \in 1 .. m - 1 /\ m \in 1 .. x - 1  BY <1>1, <1>5, <3>1
      <4> QED  BY <1>1, <4>1
    <3>3. tree[n].above = {a \in tree[m].above : a < n}  BY <3>1 DEF Levelled, AboveIsChain
    <3> QED  BY <1>1, <3>1, <3>2, <3>3
  <2> QED  BY <2>1, <2>2
\* The level under which the new node is entered
<1>7. ASSUME NEW n \in Node PROVE Cardinality(WithSid(tree', n, x)) = Level(n)
  <2>1. tree'[current] = tree[current]  BY <1>1, <1>4
  <2>2. \A a \in tree[current].above : tree'[a] = tree[a]
    <3>1. \A a \in 1 .. current - 1 : a \in 1 .. x - 1  BY <1>1, <1>4
    <3> QED  BY <1>1, <1>4, <3>1
  <2>3. WithSid(tree', n, x) = {a \in tree[current].above : a >= n /\ tree[a].sid # None}
    BY <1>1, <2>1, <2>2 DEF WithSid
  <2> QED  BY <2>3 DEF Level
<1>8. ASSUME NEW n \in Node, s # None, n \in tree'[x].above
      PROVE  children'[n] = Inserted(children[n], <<s, Level(n)>>, x)
  <2>1. n \in 1 .. x /\ n # x /\ n \in tree[current].above \union {current}  BY <1>1, <1>8
  <2>2. children' = Entered(s, x)  BY <1>0 DEF AddToSidTree
  <2> QED  BY <1>8, <2>1, <2>2 DEF Entered
<1>9. EntriesHaveLevels'
  <2> SUFFICES ASSUME NEW n \in Node', NEW k \in DOMAIN children'[n]
               PROVE  k[2] = Cardinality(WithSid(tree', n, children'[n][k]))
    BY DEF EntriesHaveLevels
  <2>1. n # x /\ n \in Node  BY <1>1, <1>2 DEF NewMaps
  <2>2. CASE k \in DOMAIN children[n]
    <3> DEFINE m == children[n][k]
    <3>1. m \in Node /\ n \in tree[m].above
      BY <2>1, <2>2 DEF IInv, EntriesAreBelow, Below
    <3>2. children'[n][k] = m  BY <1>2, <2>1, <2>2 DEF NewMaps
    <3>3. k[2] = Cardinality(WithSid(tree, n, m))  BY <2>1, <2>2 DEF Levelled, EntriesHaveLevels
    <3> HIDE DEF m
    <3>4. WithSid(tree', n, m) = WithSid(tree, n, m)  BY <3>1, SameLevel
    <3> QED  BY <3>2, <3>3, <3>4 DEF WithSid
  <2>3. CASE k \notin DOMAIN children[n]
    <3>1. children'[n][k] = x /\ s # None /\ n \in tree'[x].above
      BY <1>2, <2>1, <2>3 DEF NewMaps
    <3>2. children'[n] = Inserted(children[n], <<s, Level(n)>>, x)  BY <1>8, <2>1, <3>1
    <3>3. k = <<s, Level(n)>>  BY <2>3, <3>2 DEF Inserted
    <3> QED  BY <1>7, <2>1, <3>1, <3>3 DEF WithSid
  <2> QED  BY <2>2, <2>3
<1>10. BelowHaveLevels'
  <2> SUFFICES ASSUME NEW n \in Node', NEW m \in Node', n \in tree'[m].above, tree'[m].sid # None
               PROVE  \E k \in DOMAIN children'[n] :
                          k[1] = tree'[m].sid /\ k[2] = Cardinality(WithSid(tree', n, m))
    BY DEF BelowHaveLevels, Entries
  <2>1. n # x /\ n \in Node
    <3>1. n \in 1 .. m - 1 /\ m \in 1 .. x  BY <1>1, <1>3 DEF IInv, AboveIsBefore
    <3> QED  BY <1>1, <3>1
  <2>2. CASE m = x
    <3>1. children'[n] = Inserted(children[n], <<s, Level(n)>>, x)  BY <1>1, <1>8, <2>1, <2>2
    <3>2. <<s, Level(n)>> \in DOMAIN children'[n]  BY <3>1 DEF Inserted
    <3> QED  BY <1>1, <1>7, <2>1, <2>2, <3>2
  <2>3. CASE m # x
    <3>1. m \in Node /\ n \in tree[m].above /\ tree[m].sid # None /\ tree'[m].sid = tree[m].sid
      BY <1>1, <2>3
    <3>2. PICK k \in DOMAIN children[n] :
              k[1] = tree[m].sid /\ k[2] = Cardinality(WithSid(tree, n, m))
      BY <2>1, <3>1 DEF Levelled, BelowHaveLevels, Entries
    <3>3. k \in DOMAIN children'[n]  BY <1>2, <2>1, <3>2 DEF NewMaps
    <3>4. WithSid(tree', n, m) = WithSid(tree, n, m)  BY <3>1, SameLevel
    <3> QED  BY <3>1, <3>2, <3>3, <3>4
  <2> QED  BY <2>2, <2>3
<1> QED  BY <1>6, <1>9, <1>10 DEF Levelled

LEMMA LevelledNext == IInv /\ Levelled /\ [Next]_vars => Levelled'
<1> SUFFICES ASSUME IInv, Levelled, [Next]_vars PROVE Levelled'
  OBVIOUS
<1>1. CASE \E id \in Id \union {None}, s \in Sid \union {None}, url \in Id \union {None} :
              AddToSidTree(id, s, url)
  BY <1>1, LevelledAdd
<1>2. CASE UNCHANGED <<tree, children>>
  <2>1. tree' = tree /\ children' = children /\ Node' = Node  BY <1>2 DEF Node
  <2>2. AboveIsChain'  BY <2>1 DEF Levelled, AboveIsChain
  <2>3. EntriesHaveLevels'  BY <2>1 DEF Levelled, EntriesHaveLevels
  <2>4. BelowHaveLevels'  BY <2>1 DEF Levelled, BelowHaveLevels, Entries
  <2> QED  BY <2>2, <2>3, <2>4 DEF Levelled
<1> QED  BY <1>1, <1>2 DEF Next, MoveUpInSidTree, vars

\* On a way where every node has a sid, the level of a node is one less than its distance.
LEMMA LevelIsDistance ==
    ASSUME IInv, Levelled, NEW n \in Node, NEW m \in Below(n),
           \A l \in Below(n) \union {n} : tree[l].sid # None
    PROVE  /\ Cardinality(WithSid(tree, n, m)) \in Nat
           /\ Distance(m, n) = Cardinality(WithSid(tree, n, m)) + 1
<1> DEFINE p == tree[m].parent
<1>1. m \in Node /\ n \in tree[m].above  BY DEF Below
<1>2. m # Root  BY <1>1 DEF IInv, TypeOK
<1>3. p \in 1 .. m - 1 /\ tree[m].above = tree[p].above \union {p}
  BY <1>1, <1>2 DEF IInv, TypeOK
<1>4. Node = 1 .. Len(tree) /\ Len(tree) \in Nat  BY DEF Node, IInv, TypeOK
<1>5. p \in Node  BY <1>1, <1>3, <1>4
<1> HIDE DEF p
<1>6. tree[p].above \subseteq 1 .. p - 1 /\ tree[m].above \subseteq 1 .. m - 1
  BY <1>1, <1>5 DEF IInv, AboveIsBefore
<1>7. tree[n].above = {a \in tree[m].above : a < n}  BY <1>1 DEF Levelled, AboveIsChain
<1> DEFINE S == {a \in tree[p].above : a >= n}
<1>8. n \in Int /\ p \in Int /\ m \in Int /\ p >= n
  <2>1. n \in 1 .. p - 1 \/ n = p  BY <1>1, <1>3, <1>6
  <2> QED  BY <1>1, <1>4, <1>5, <2>1
<1>9. tree[m].above \ tree[n].above = S \union {p}
  <2>1. \A a \in tree[m].above : a \in Int  BY <1>6
  <2> QED  BY <1>3, <1>7, <1>8, <2>1
<1>10. p \notin S  BY <1>6, <1>8
<1>11. \A a \in S : tree[a].sid # None
  <2> SUFFICES ASSUME NEW a \in S PROVE tree[a].sid # None  OBVIOUS
  <2>1. a \in 1 .. p - 1 /\ a >= n /\ a \in tree[m].above  BY <1>3, <1>6
  <2>2. a \in Node  BY <1>3, <1>4, <1>8, <1>1, <2>1
  <2>3. CASE a = n  BY <2>3
  <2>4. CASE a # n
    <3>1. tree[a].above = {b \in tree[m].above : b < a}
      BY <1>1, <2>1 DEF Levelled, AboveIsChain
    <3>2. n < a  BY <1>8, <2>1, <2>4
    <3>3. a \in Below(n)  BY <1>1, <2>2, <3>1, <3>2 DEF Below
    <3> QED  BY <3>3
  <2> QED  BY <2>3, <2>4
<1>12. WithSid(tree, n, m) = S  BY <1>11 DEF WithSid, p
<1>13. IsFiniteSet(S)
  <2>1. IsFiniteSet(1 .. p - 1)  BY <1>8, FS_Interval
  <2> QED  BY <1>6, <2>1, FS_Subset
<1> HIDE DEF S
<1>14. Cardinality(S) \in Nat  BY <1>13, FS_CardinalityType
<1>15. Cardinality(S \union {p}) = Cardinality(S) + 1  BY <1>10, <1>13, FS_AddElement
<1> QED  BY <1>9, <1>12, <1>14, <1>15 DEF Distance

\* Of the nodes below with a sid, findChildBySid() finds one with the shortest way, if all nodes on
\* the ways have sids, for files of any size and any order of their elements.
THEOREM AlwaysFindsNearest == Spec => []FindsNearest
<1>1. ASSUME IInv, Levelled PROVE FindsNearest
  <2> SUFFICES ASSUME NEW n \in Node, \A l \in Below(n) \union {n} : tree[l].sid # None,
                      NEW m \in Below(n)
               PROVE  Distance(FindChildBySid(n, tree[m].sid), n) <= Distance(m, n)
    BY DEF FindsNearest
  <2> DEFINE s == tree[m].sid
             E == Entries(n, s)
             k == CHOOSE e \in E : \A l \in E : e[2] <= l[2]
             f == children[n][k]
  <2>1. m \in Node /\ n \in tree[m].above /\ s # None  BY DEF Below
  <2>2. PICK e \in E : e[2] = Cardinality(WithSid(tree, n, m))
    BY <1>1, <2>1 DEF Levelled, BelowHaveLevels
  <2>3. \A l \in E : l[2] \in Nat  BY <1>1 DEF IInv, TypeOK, Entries
  <2>4. k \in E /\ \A l \in E : k[2] <= l[2]
    <3>1. \E x \in E : \A l \in E : x[2] <= l[2]
      <4> HIDE DEF E
      <4> QED  BY <2>2, <2>3, LowestLevel
    <3> QED  BY <3>1
  <2>5. f \in Below(n) /\ k[2] = Cardinality(WithSid(tree, n, f))
    BY <1>1, <2>4 DEF IInv, EntriesAreBelow, Levelled, EntriesHaveLevels, Entries
  <2>6. FindChildBySid(n, s) = f  BY <2>2 DEF FindChildBySid
  <2>7. k[2] <= e[2]  BY <2>2, <2>4
  <2> HIDE DEF f, k, E
  <2>8. /\ Cardinality(WithSid(tree, n, m)) \in Nat /\ Distance(m, n) = Cardinality(WithSid(tree, n, m)) + 1
        /\ Cardinality(WithSid(tree, n, f)) \in Nat /\ Distance(f, n) = Cardinality(WithSid(tree, n, f)) + 1
    BY <1>1, <2>5, LevelIsDistance
  <2> QED  BY <2>2, <2>5, <2>6, <2>7, <2>8
<1> QED  BY <1>1, LevelledInit, LevelledNext, Invariant, PTL DEF Spec

-----------------------------------------------------------------------------
(* Functions that call themselves: there is one that does what the         *)
(* definition says.                                                        *)

\* A function on P whose value at p is made of a set base[p] and of its values at succ[p], which
\* the measure M says are nearer to the end.
Shallow(P, M, k) == {p \in P : M[p] < k}
Solves(P, base, succ, f) == f = [p \in P |-> base[p] \union UNION {f[q] : q \in succ[p]}]
Descends(P, M, succ) == \A p \in P : \A q \in succ[p] : q \in P /\ M[q] < M[p]

LEMMA SolutionsAgree ==
    ASSUME NEW P, NEW M \in [P -> Nat], NEW base, NEW succ, Descends(P, M, succ),
           NEW k \in Nat, NEW l \in Nat, k <= l,
           NEW f, Solves(Shallow(P, M, k), base, succ, f),
           NEW g, Solves(Shallow(P, M, l), base, succ, g)
    PROVE  \A p \in Shallow(P, M, k) : f[p] = g[p]
<1> DEFINE Bad == {n \in Nat : \E p \in P : M[p] = n /\ n < k /\ f[p] # g[p]}
<1>1. SUFFICES ASSUME Bad # {} PROVE FALSE
  BY DEF Shallow
<1>2. PICK n \in Bad : \A m \in Bad : n <= m
  <2>1. Bad \in SUBSET Nat  OBVIOUS
  <2> HIDE DEF Bad
  <2> QED  BY <1>1, <2>1, Smallest
<1>3. PICK p \in P : M[p] = n /\ n < k /\ f[p] # g[p]  BY <1>2
<1>4. ASSUME NEW q \in succ[p] PROVE f[q] = g[q]
  <2>1. q \in P /\ M[q] < n /\ M[q] \in Nat  BY <1>3 DEF Descends
  <2>2. M[q] < k /\ ~ (n <= M[q])  BY <1>3, <2>1
  <2>3. M[q] \notin Bad  BY <1>2, <2>2
  <2> QED  BY <2>1, <2>2, <2>3
<1> HIDE DEF Bad
<1>5. {f[q] : q \in succ[p]} = {g[q] : q \in succ[p]}  BY <1>4
<1>6. p \in Shallow(P, M, k) /\ p \in Shallow(P, M, l)  BY <1>3 DEF Shallow
<1>7. f[p] = base[p] \union UNION {f[q] : q \in succ[p]}  BY <1>6 DEF Solves
<1>8. g[p] = base[p] \union UNION {g[q] : q \in succ[p]}  BY <1>6 DEF Solves
<1> QED  BY <1>3, <1>5, <1>7, <1>8

LEMMA SolutionExtends ==
    ASSUME NEW P, NEW M \in [P -> Nat], NEW base, NEW succ, Descends(P, M, succ),
           NEW k \in Nat, NEW f, Solves(Shallow(P, M, k), base, succ, f)
    PROVE  \E h : Solves(Shallow(P, M, k + 1), base, succ, h)
<1> DEFINE D == Shallow(P, M, k)
           E == Shallow(P, M, k + 1)
           h == [p \in E |-> base[p] \union UNION {f[q] : q \in succ[p]}]
<1>1. D \subseteq E  BY DEF Shallow
<1>2. \A p \in D : h[p] = f[p]
  <2>1. \A p \in D : f[p] = base[p] \union UNION {f[q] : q \in succ[p]}  BY DEF Solves
  <2> HIDE DEF D, E
  <2> QED  BY <1>1, <2>1
<1>3. \A p \in E : \A q \in succ[p] : q \in D
  BY DEF Descends, Shallow
<1> HIDE DEF D, E, h
<1>4. ASSUME NEW p \in E PROVE h[p] = base[p] \union UNION {h[q] : q \in succ[p]}
  <2>1. \A q \in succ[p] : h[q] = f[q]  BY <1>2, <1>3
  <2>2. {h[q] : q \in succ[p]} = {f[q] : q \in succ[p]}  BY <2>1
  <2>3. h[p] = base[p] \union UNION {f[q] : q \in succ[p]}  BY DEF h
  <2> QED  BY <2>2, <2>3
<1>5. h = [p \in E |-> h[p]]  BY DEF h
<1>6. h = [p \in E |-> base[p] \union UNION {h[q] : q \in succ[p]}]  BY <1>4, <1>5, Zenon
<1> QED  BY <1>6 DEF Solves, E

LEMMA SolutionUpTo ==
    ASSUME NEW P, NEW M \in [P -> Nat], NEW base, NEW succ, Descends(P, M, succ)
    PROVE  \A k \in Nat : \E f : Solves(Shallow(P, M, k), base, succ, f)
<1> DEFINE Bad == {k \in Nat : ~ \E f : Solves(Shallow(P, M, k), base, succ, f)}
<1>1. SUFFICES ASSUME Bad # {} PROVE FALSE  OBVIOUS
<1>2. PICK k \in Bad : \A m \in Bad : k <= m
  <2>1. Bad \in SUBSET Nat  OBVIOUS
  <2> HIDE DEF Bad
  <2> QED  BY <1>1, <2>1, Smallest
<1>3. k \in Nat /\ ~ \E f : Solves(Shallow(P, M, k), base, succ, f)  BY <1>2
<1>4. CASE k = 0
  <2> DEFINE f == [p \in {} |-> base[p] \union UNION {{} : q \in succ[p]}]
  <2>1. Shallow(P, M, k) = {}  BY <1>4 DEF Shallow
  <2>2. \E g : g = [p \in {} |-> base[p] \union UNION {g[q] : q \in succ[p]}]
    <3> DEFINE g == [p \in {} |-> {}]
    <3>1. g = [p \in {} |-> base[p] \union UNION {g[q] : q \in succ[p]}]  OBVIOUS
    <3> QED  BY <3>1
  <2> QED  BY <1>3, <2>1, <2>2 DEF Solves
<1>5. CASE k # 0
  <2>1. k - 1 \in Nat /\ ~ (k <= k - 1) /\ (k - 1) + 1 = k  BY <1>3, <1>5
  <2>2. PICK f : Solves(Shallow(P, M, k - 1), base, succ, f)  BY <1>2, <2>1
  <2> HIDE DEF Bad
  <2>3. \E h : Solves(Shallow(P, M, (k - 1) + 1), base, succ, h)  BY <2>1, <2>2, SolutionExtends
  <2> QED  BY <1>3, <2>1, <2>3
<1> QED  BY <1>4, <1>5

LEMMA SolutionExists ==
    ASSUME NEW P, NEW M \in [P -> Nat], NEW base, NEW succ, Descends(P, M, succ)
    PROVE  \E f : Solves(P, base, succ, f)
<1> DEFINE S(k) == CHOOSE f : Solves(Shallow(P, M, k), base, succ, f)
           f == [p \in P |-> S(M[p] + 1)[p]]
<1>1. \A k \in Nat : Solves(Shallow(P, M, k), base, succ, S(k))  BY SolutionUpTo
<1> HIDE DEF S
<1>2. ASSUME NEW p \in P PROVE f[p] = base[p] \union UNION {f[q] : q \in succ[p]}
  <2> DEFINE k == M[p] + 1
             g == S(k)
  <2>1. k \in Nat /\ p \in Shallow(P, M, k)  BY DEF Shallow
  <2>2. Solves(Shallow(P, M, k), base, succ, g)  BY <1>1, <2>1
  <2>3. f[p] = g[p]  OBVIOUS
  <2>4. ASSUME NEW q \in succ[p] PROVE f[q] = g[q]
    <3> DEFINE l == M[q] + 1
    <3>1. q \in P /\ M[q] \in Nat /\ M[q] < M[p] /\ M[p] \in Nat  BY DEF Descends
    <3>2. l \in Nat /\ l <= k /\ q \in Shallow(P, M, l)  BY <3>1 DEF Shallow
    <3>3. Solves(Shallow(P, M, l), base, succ, S(l))  BY <1>1, <3>2
    <3>4. f[q] = S(l)[q]  BY <3>1
    <3> HIDE DEF l, k, g, f
    <3>5. S(l)[q] = g[q]  BY <2>1, <2>2, <3>2, <3>3, SolutionsAgree
    <3> QED  BY <3>4, <3>5
  <2> HIDE DEF k, f, g
  <2>5. {f[q] : q \in succ[p]} = {g[q] : q \in succ[p]}  BY <2>4
  <2>6. g[p] = base[p] \union UNION {g[q] : q \in succ[p]}  BY <2>1, <2>2 DEF Solves
  <2> QED  BY <2>3, <2>5, <2>6
<1>3. f = [p \in P |-> f[p]]  OBVIOUS
<1> HIDE DEF f
<1>4. f = [p \in P |-> base[p] \union UNION {f[q] : q \in succ[p]}]  BY <1>2, <1>3, Zenon
<1> QED  BY <1>4 DEF Solves

-----------------------------------------------------------------------------
(* Resolving addresses.  Each step takes a sid from the address, or goes   *)
(* to the element that an instance stands for, which is no instance        *)
(* itself; so the search ends.                                             *)

\* Instances with a url have no id, so that the element with the id of a url is not one itself.
IdsHaveNoUrl == \A i \in DOMAIN nodeOf : tree[nodeOf[i]].url = None

Instantiates(n) == tree[n].url \in DOMAIN nodeOf
Hops(n) == IF Instantiates(n) THEN 1 ELSE 0
Measure == [p \in Position |-> 2 * Len(p[2]) + Hops(p[1])]

\* Where the search goes on from n: below a child, or from the element that n instantiates.
Down(c, sids) == <<c, Tail(sids)>>
Over(n, sids) == <<nodeOf[tree[n].url], WithoutOwn(nodeOf[tree[n].url], sids)>>

LEMMA MeasureType == ASSUME IInv PROVE Measure \in [Position -> Nat]
<1>1. \A p \in Position : Len(p[2]) \in Nat  BY DEF Position
<1>2. \A p \in Position : Measure[p] \in Nat
  <2> SUFFICES ASSUME NEW p \in Position PROVE Measure[p] \in Nat  OBVIOUS
  <2>1. Measure[p] = 2 * Len(p[2]) + Hops(p[1])  BY DEF Measure
  <2>2. Hops(p[1]) \in Nat  BY DEF Hops
  <2> QED  BY <1>1, <2>1, <2>2
<1>3. Measure = [p \in Position |-> Measure[p]]  BY DEF Measure
<1> QED  BY <1>2, <1>3

LEMMA DownDescends ==
    ASSUME NEW n \in Node, NEW sids \in Seq(Sid), sids # << >>, NEW c \in Node
    PROVE  /\ Tail(sids) \in Seq(Sid) /\ Head(sids) \in Sid /\ Down(c, sids) \in Position
           /\ Measure[Down(c, sids)] < Measure[<<n, sids>>]
<1> DEFINE x == Hops(n)
           y == Hops(c)
           l == Len(sids)
           k == Len(Tail(sids))
<1>1. Tail(sids) \in Seq(Sid) /\ Head(sids) \in Sid /\ l \in Nat \ {0} /\ k = l - 1  OBVIOUS
<1>2. x \in 0..1 /\ y \in 0..1  BY DEF Hops
<1>3. Down(c, sids) \in Position /\ <<n, sids>> \in Position  BY <1>1 DEF Position, Down
<1>4. Measure[Down(c, sids)] = 2 * k + y  BY <1>3 DEF Measure, Down
<1>5. Measure[<<n, sids>>] = 2 * l + x  BY <1>3 DEF Measure
<1> HIDE DEF x, y, l, k
<1>6. 2 * k + y < 2 * l + x  BY <1>1, <1>2
<1> QED  BY <1>1, <1>3, <1>4, <1>5, <1>6

LEMMA OverDescends ==
    ASSUME IInv, IdsHaveNoUrl, NEW n \in Node, NEW sids \in Seq(Sid), sids # << >>, Instantiates(n)
    PROVE  /\ nodeOf[tree[n].url] \in Node /\ ~ Instantiates(nodeOf[tree[n].url])
           /\ WithoutOwn(nodeOf[tree[n].url], sids) \in Seq(Sid)
           /\ Over(n, sids) \in Position
           /\ Measure[Over(n, sids)] < Measure[<<n, sids>>]
<1> DEFINE m == nodeOf[tree[n].url]
           w == WithoutOwn(m, sids)
           l == Len(sids)
           k == Len(w)
<1>1. m \in Node /\ None \notin DOMAIN nodeOf  BY SidTreeAssumption DEF IInv, TypeOK, Instantiates
<1>2. ~ Instantiates(m)  BY <1>1 DEF IdsHaveNoUrl, Instantiates
<1>3. w \in Seq(Sid) /\ l \in Nat /\ k \in Nat /\ k <= l
  <2>1. CASE w = sids  BY <2>1
  <2>2. CASE w # sids
    <3>1. w = Tail(sids)  BY <2>2 DEF WithoutOwn
    <3> QED  BY <3>1
  <2> QED  BY <2>1, <2>2
<1>4. <<m, w>> \in Position /\ <<n, sids>> \in Position  BY <1>1, <1>3 DEF Position
<1>5. Measure[<<m, w>>] = 2 * k
  <2>1. Measure[<<m, w>>] = 2 * k + Hops(m)  BY <1>4 DEF Measure
  <2>2. Hops(m) = 0  BY <1>2 DEF Hops
  <2> QED  BY <1>3, <2>1, <2>2
<1>6. Measure[<<n, sids>>] = 2 * l + 1  BY <1>4 DEF Measure, Hops
<1>7. 2 * k < 2 * l + 1  BY <1>3
<1> QED  BY <1>1, <1>2, <1>3, <1>4, <1>5, <1>6, <1>7 DEF Over


-----------------------------------------------------------------------------
(* Where the search ends and where it goes on.                             *)
Child(p) == FindChildBySid(p[1], Head(p[2]))

\* The end of the search, if it ends here
Ends(p) == p[2] = << >> \/ (Child(p) = NoNode /\ ~ Instantiates(p[1]))
End(p) == IF p[2] = << >> THEN p[1] ELSE NoNode
GoesOn(p) == IF Child(p) # NoNode THEN Down(Child(p), p[2]) ELSE Over(p[1], p[2])

LEMMA ChildType ==
    ASSUME IInv, NEW p \in Position, p[2] # << >>, Child(p) # NoNode
    PROVE  Child(p) \in Below(p[1]) /\ Child(p) \in Node /\ tree[Child(p)].sid = Head(p[2])
<1>1. p[1] \in Node /\ Head(p[2]) \in Sid  BY DEF Position
<1>2. FindsWhatIsBelow  BY FoundIsBelow
<1> QED  BY <1>1, <1>2 DEF FindsWhatIsBelow, Child, Below

IsResolved(f) == f = [p \in Position |-> IF Ends(p) THEN End(p) ELSE f[GoesOn(p)]]
IsMeant(f) ==
    f = [p \in Position |->
           IF p[2] = << >> THEN {p[1]}
           ELSE (UNION {f[Down(m, p[2])] : m \in {b \in Below(p[1]) : tree[b].sid = Head(p[2])}})
                \union (IF Instantiates(p[1]) THEN f[Over(p[1], p[2])] ELSE {})]

\* Both are functions of the form above: a node is the union of itself, and nothing is added.
LEMMA ResolvedExists == ASSUME IInv, IdsHaveNoUrl PROVE \E f : IsResolved(f)
<1> DEFINE base == [p \in Position |-> IF Ends(p) THEN End(p) ELSE {}]
           succ == [p \in Position |-> IF Ends(p) THEN {} ELSE {GoesOn(p)}]
<1>1. ASSUME NEW p \in Position, ~ Ends(p)
      PROVE  GoesOn(p) \in Position /\ Measure[GoesOn(p)] < Measure[p]
  <2>1. p[1] \in Node /\ p[2] \in Seq(Sid) /\ p[2] # << >> /\ p = <<p[1], p[2]>>
    BY <1>1 DEF Position, Ends
  <2>2. CASE Child(p) # NoNode
    <3>1. Child(p) \in Node  BY <2>1, <2>2, ChildType
    <3> QED  BY <2>1, <2>2, <3>1, DownDescends DEF GoesOn
  <2>3. CASE Child(p) = NoNode
    <3>1. Instantiates(p[1])  BY <1>1, <2>3 DEF Ends
    <3> QED  BY <2>1, <2>3, <3>1, OverDescends DEF GoesOn
  <2> QED  BY <2>2, <2>3
<1>2. Descends(Position, Measure, succ)  BY <1>1 DEF Descends
<1> HIDE DEF base, succ
<1>3. PICK f : Solves(Position, base, succ, f)  BY <1>2, MeasureType, SolutionExists
<1> USE DEF base, succ
<1>4. ASSUME NEW p \in Position PROVE f[p] = IF Ends(p) THEN End(p) ELSE f[GoesOn(p)]
  <2>1. f[p] = base[p] \union UNION {f[q] : q \in succ[p]}
    <3> HIDE DEF base, succ
    <3> QED  BY <1>3 DEF Solves
  <2>2. CASE Ends(p)
    <3>1. base[p] = End(p) /\ succ[p] = {}  BY <2>2
    <3> HIDE DEF base, succ
    <3>2. {f[q] : q \in succ[p]} = {}  BY <3>1
    <3>3. UNION {f[q] : q \in succ[p]} = {}  BY <3>2
    <3>4. f[p] = End(p) \union {}  BY <2>1, <3>1, <3>3
    <3>5. \A x : x \union {} = x  BY ZenonT(30)
    <3> QED  BY <2>2, <3>4, <3>5
  <2>3. CASE ~ Ends(p)
    <3>1. base[p] = {} /\ succ[p] = {GoesOn(p)}  BY <2>3
    <3> HIDE DEF base, succ
    <3>2. {f[q] : q \in succ[p]} = {f[GoesOn(p)]}  BY <3>1
    <3>3. f[p] = {} \union UNION {f[GoesOn(p)]}  BY <2>1, <3>1, <3>2
    <3>4. \A x : {} \union UNION {x} = x  BY ZenonT(30)
    <3> QED  BY <2>3, <3>3, <3>4
  <2> QED  BY <2>2, <2>3
<1>5. f = [p \in Position |-> f[p]]  BY <1>3 DEF Solves
<1>6. f = [p \in Position |-> IF Ends(p) THEN End(p) ELSE f[GoesOn(p)]]  BY <1>4, <1>5, Zenon
<1> QED  BY <1>6 DEF IsResolved

LEMMA MeantExists == ASSUME IInv, IdsHaveNoUrl PROVE \E f : IsMeant(f)
<1> DEFINE Named(p) == {b \in Below(p[1]) : tree[b].sid = Head(p[2])}
           Downs(p) == {Down(m, p[2]) : m \in Named(p)}
           Overs(p) == IF Instantiates(p[1]) THEN {Over(p[1], p[2])} ELSE {}
           base == [p \in Position |-> IF p[2] = << >> THEN {p[1]} ELSE {}]
           succ == [p \in Position |-> IF p[2] = << >> THEN {} ELSE Downs(p) \union Overs(p)]
<1>1. ASSUME NEW p \in Position, p[2] # << >>, NEW q \in Downs(p) \union Overs(p)
      PROVE  q \in Position /\ Measure[q] < Measure[p]
  <2>1. p[1] \in Node /\ p[2] \in Seq(Sid) /\ p = <<p[1], p[2]>>
    BY DEF Position
  <2>2. CASE q \in Downs(p)
    <3>1. PICK m \in Node : q = Down(m, p[2])  BY <2>2 DEF Below
    <3> QED  BY <1>1, <2>1, <3>1, DownDescends
  <2>3. CASE q \in Overs(p)
    <3>1. Instantiates(p[1]) /\ q = Over(p[1], p[2])  BY <2>3
    <3> QED  BY <1>1, <2>1, <3>1, OverDescends
  <2> QED  BY <2>2, <2>3
<1>2. Descends(Position, Measure, succ)
  <2> HIDE DEF Downs, Overs
  <2> QED  BY <1>1 DEF Descends
<1> HIDE DEF base, succ
<1>3. PICK f : Solves(Position, base, succ, f)  BY <1>2, MeasureType, SolutionExists
<1> DEFINE Value(p) == IF p[2] = << >> THEN {p[1]}
                       ELSE (UNION {f[Down(m, p[2])] : m \in Named(p)})
                            \union (IF Instantiates(p[1]) THEN f[Over(p[1], p[2])] ELSE {})
<1>4. ASSUME NEW p \in Position PROVE f[p] = Value(p)
  <2>1. f[p] = base[p] \union UNION {f[q] : q \in succ[p]}  BY <1>3 DEF Solves
  <2>2. CASE p[2] = << >>
    <3>1. base[p] = {p[1]} /\ succ[p] = {}  BY <2>2 DEF base, succ
    <3> QED  BY <2>1, <2>2, <3>1
  <2>3. CASE p[2] # << >>
    <3>1. base[p] = {} /\ succ[p] = Downs(p) \union Overs(p)  BY <2>3 DEF base, succ
    <3> HIDE DEF Downs, Overs
    <3>2. f[p] = (UNION {f[q] : q \in Downs(p)}) \union (UNION {f[q] : q \in Overs(p)})
      <4> DEFINE D == Downs(p)
                 O == Overs(p)
      <4>1. base[p] = {} /\ succ[p] = D \union O  BY <3>1
      <4> HIDE DEF D, O
      <4>2. f[p] = {} \union UNION {f[q] : q \in D \union O}  BY <2>1, <4>1
      <4>3. f[p] = UNION {f[q] : q \in D \union O}  BY <4>2
      <4>4. UNION {f[q] : q \in D \union O} = (UNION {f[q] : q \in D}) \union (UNION {f[q] : q \in O})
        OBVIOUS
      <4> QED  BY <4>3, <4>4 DEF D, O
    <3>3. {f[q] : q \in Downs(p)} = {f[Down(m, p[2])] : m \in Named(p)}
      <4> DEFINE N == Named(p)
                 D == {Down(m, p[2]) : m \in N}
      <4>1. {f[q] : q \in D} = {f[Down(m, p[2])] : m \in N}
        <5> HIDE DEF N
        <5> QED  OBVIOUS
      <4> QED  BY <4>1 DEF Downs
    <3>4. UNION {f[q] : q \in Overs(p)} = IF Instantiates(p[1]) THEN f[Over(p[1], p[2])] ELSE {}
      BY DEF Overs
    <3> QED  BY <2>3, <3>2, <3>3, <3>4
  <2> QED  BY <2>2, <2>3
<1>5. f = [p \in Position |-> f[p]]  BY <1>3 DEF Solves
<1> HIDE DEF Value
<1>6. f = [p \in Position |-> Value(p)]  BY <1>4, <1>5, Zenon
<1> QED  BY <1>6 DEF IsMeant, Value

-----------------------------------------------------------------------------
(* Both functions one step at a time.                                      *)
LEMMA ResolvedUnfold ==
    ASSUME IInv, IdsHaveNoUrl, NEW p \in Position
    PROVE  Resolved[p] = IF Ends(p) THEN End(p) ELSE Resolved[GoesOn(p)]
<1> DEFINE Body(f) == [at \in Position |->
               LET n == at[1]  sids == at[2] IN
               IF sids = << >> THEN n
               ELSE LET child == FindChildBySid(n, Head(sids)) IN
                    IF child # NoNode THEN f[<<child, Tail(sids)>>]
                    ELSE IF tree[n].url \notin DOMAIN nodeOf THEN NoNode
                    ELSE LET m == nodeOf[tree[n].url] IN f[<<m, WithoutOwn(m, sids)>>]]
<1>1. Resolved = CHOOSE f : f = Body(f)  BY DEF Resolved
<1>2. ASSUME NEW f
      PROVE  Body(f) = [q \in Position |-> IF Ends(q) THEN End(q) ELSE f[GoesOn(q)]]
  BY DEF Position, Ends, End, GoesOn, Child, Down, Over, Instantiates
<1> HIDE DEF Body
<1>3. \E f : f = Body(f)
  <2>1. PICK f : IsResolved(f)  BY ResolvedExists
  <2>2. f = Body(f)  BY <1>2, <2>1 DEF IsResolved
  <2> QED  BY <2>2
<1>4. Resolved = Body(Resolved)  BY <1>1, <1>3
<1> QED  BY <1>2, <1>4

NamedBelow(n, s) == {b \in Below(n) : tree[b].sid = s}

LEMMA MeantUnfold ==
    ASSUME IInv, IdsHaveNoUrl, NEW p \in Position
    PROVE  Meant[p] = IF p[2] = << >> THEN {p[1]}
                      ELSE (UNION {Meant[Down(m, p[2])] : m \in NamedBelow(p[1], Head(p[2]))})
                           \union (IF Instantiates(p[1]) THEN Meant[Over(p[1], p[2])] ELSE {})
<1> DEFINE Body(f) == [at \in Position |->
               LET n == at[1]  sids == at[2] IN
               IF sids = << >> THEN {n}
               ELSE (UNION {f[<<m, Tail(sids)>>] : m \in {b \in Below(n) : tree[b].sid = Head(sids)}})
                    \union (IF tree[n].url \notin DOMAIN nodeOf THEN {}
                            ELSE LET m == nodeOf[tree[n].url] IN f[<<m, WithoutOwn(m, sids)>>])]
<1>1. Meant = CHOOSE f : f = Body(f)  BY DEF Meant
<1>2. ASSUME NEW f, NEW q \in Position
      PROVE  Body(f)[q] =
                 IF q[2] = << >> THEN {q[1]}
                 ELSE (UNION {f[Down(m, q[2])] : m \in {b \in Below(q[1]) : tree[b].sid = Head(q[2])}})
                      \union (IF Instantiates(q[1]) THEN f[Over(q[1], q[2])] ELSE {})
  BY DEF Down, Over, Instantiates
<1>3. \A f : Body(f) = [q \in Position |-> Body(f)[q]]  OBVIOUS
<1> HIDE DEF Body
<1>4. \E f : f = Body(f)
  <2>1. PICK f : IsMeant(f)  BY MeantExists
  <2>2. f = [q \in Position |-> Body(f)[q]]
    <3>1. \A q \in Position : f[q] = Body(f)[q]  BY <1>2, <2>1 DEF IsMeant
    <3>2. f = [q \in Position |-> f[q]]  BY <2>1 DEF IsMeant
    <3> QED  BY <3>1, <3>2, Zenon
  <2>3. f = Body(f)  BY <1>3, <2>2
  <2> QED  BY <2>3
<1>5. Meant = Body(Meant)  BY <1>1, <1>4
<1> QED  BY <1>2, <1>5 DEF NamedBelow

\* A node to which an address is resolved is one that it may mean.
LEMMA ResolvedIsMeant ==
    ASSUME IInv, IdsHaveNoUrl, NEW p \in Position, Resolved[p] # NoNode
    PROVE  Resolved[p] \in Meant[p]
<1> DEFINE Bad == {k \in Nat : \E q \in Position : /\ Measure[q] = k /\ Resolved[q] # NoNode
                                                   /\ Resolved[q] \notin Meant[q]}
<1>0. \A q \in Position : Measure[q] \in Nat  BY MeasureType
<1>1. SUFFICES ASSUME Bad # {} PROVE FALSE  BY <1>0
<1>2. PICK k \in Bad : \A l \in Bad : k <= l
  <2>1. Bad \in SUBSET Nat  OBVIOUS
  <2> HIDE DEF Bad
  <2> QED  BY <1>1, <2>1, Smallest
<1>3. PICK q \in Position : Measure[q] = k /\ Resolved[q] # NoNode /\ Resolved[q] \notin Meant[q]
  BY <1>2
<1>4. ASSUME NEW r \in Position, Measure[r] < Measure[q], Resolved[r] # NoNode
      PROVE  Resolved[r] \in Meant[r]
  BY <1>0, <1>2, <1>3, <1>4
<1> HIDE DEF Bad
<1>5. q[1] \in Node /\ q[2] \in Seq(Sid) /\ q = <<q[1], q[2]>>  BY DEF Position
<1>6. CASE q[2] = << >>
  BY <1>3, <1>6, ResolvedUnfold, MeantUnfold DEF Ends, End
<1>7. CASE q[2] # << >> /\ Child(q) # NoNode
  <2> DEFINE c == Child(q)
             r == Down(c, q[2])
  <2>1. c \in Below(q[1]) /\ c \in Node /\ tree[c].sid = Head(q[2])  BY <1>7, ChildType
  <2>2. r \in Position /\ Measure[r] < Measure[q]  BY <1>5, <1>7, <2>1, DownDescends
  <2>3. Resolved[q] = Resolved[r]  BY <1>7, ResolvedUnfold DEF Ends, GoesOn
  <2>4. Resolved[r] \in Meant[r]  BY <1>3, <1>4, <2>2, <2>3
  <2>5. c \in NamedBelow(q[1], Head(q[2]))  BY <2>1 DEF NamedBelow
  <2>6. Meant[r] \subseteq Meant[q]
    <3> DEFINE N == NamedBelow(q[1], Head(q[2]))
    <3>1. Meant[q] = (UNION {Meant[Down(b, q[2])] : b \in N})
                     \union (IF Instantiates(q[1]) THEN Meant[Over(q[1], q[2])] ELSE {})
      BY <1>7, MeantUnfold
    <3> HIDE DEF c, N
    <3>2. Meant[Down(c, q[2])] \subseteq UNION {Meant[Down(b, q[2])] : b \in N}  BY <2>5 DEF N
    <3> QED  BY <3>1, <3>2
  <2> QED  BY <1>3, <2>3, <2>4, <2>6
<1>8. CASE q[2] # << >> /\ Child(q) = NoNode
  <2> DEFINE r == Over(q[1], q[2])
  <2>1. Instantiates(q[1])  BY <1>3, <1>8, ResolvedUnfold DEF Ends, End
  <2>2. r \in Position /\ Measure[r] < Measure[q]  BY <1>5, <1>8, <2>1, OverDescends
  <2>3. Resolved[q] = Resolved[r]  BY <1>8, <2>1, ResolvedUnfold DEF Ends, GoesOn
  <2>4. Resolved[r] \in Meant[r]  BY <1>3, <1>4, <2>2, <2>3
  <2>5. Meant[r] \subseteq Meant[q]  BY <1>8, <2>1, MeantUnfold
  <2> QED  BY <1>3, <2>3, <2>4, <2>5
<1> QED  BY <1>6, <1>7, <1>8

\* If no sid occurs twice, the child that is found is the only one that the sid can mean, also for
\* the element that is instantiated.
LEMMA MeantIsResolved ==
    ASSUME IInv, IdsHaveNoUrl, SidsAreUnique, NEW p \in Position, Meant[p] # {}
    PROVE  Resolved[p] # NoNode
<1> DEFINE Bad == {k \in Nat : \E q \in Position : /\ Measure[q] = k /\ Meant[q] # {}
                                                   /\ Resolved[q] = NoNode}
<1>0. \A q \in Position : Measure[q] \in Nat  BY MeasureType
<1>1. SUFFICES ASSUME Bad # {} PROVE FALSE  BY <1>0
<1>2. PICK k \in Bad : \A l \in Bad : k <= l
  <2>1. Bad \in SUBSET Nat  OBVIOUS
  <2> HIDE DEF Bad
  <2> QED  BY <1>1, <2>1, Smallest
<1>3. PICK q \in Position : Measure[q] = k /\ Meant[q] # {} /\ Resolved[q] = NoNode
  BY <1>2
<1>4. ASSUME NEW r \in Position, Measure[r] < Measure[q], Resolved[r] = NoNode
      PROVE  Meant[r] = {}
  BY <1>0, <1>2, <1>3, <1>4
<1> HIDE DEF Bad
<1>5. q[1] \in Node /\ q[2] \in Seq(Sid) /\ q = <<q[1], q[2]>>  BY DEF Position
<1>6. CASE q[2] = << >>
  <2>1. Resolved[q] = q[1]  BY <1>6, ResolvedUnfold DEF Ends, End
  <2>2. NoNode \notin Node
    <3>1. tree \in Seq(NodeType)  BY DEF IInv, TypeOK, NodeType
    <3>2. Node = 1 .. Len(tree)  BY <3>1 DEF Node
    <3> QED  BY <3>2 DEF NoNode
  <2> QED  BY <1>3, <1>5, <2>1, <2>2
<1> DEFINE s == Head(q[2])
           n == q[1]
           m == nodeOf[tree[n].url]
<1>m. q[2] # << >> =>
         Meant[q] = (UNION {Meant[Down(b, q[2])] : b \in NamedBelow(n, s)})
                    \union (IF Instantiates(n) THEN Meant[Over(n, q[2])] ELSE {})
  BY MeantUnfold
<1>7. q[2] # << >> => s \in Sid /\ s # None  BY <1>5, SidTreeAssumption
<1>8. CASE q[2] # << >> /\ Child(q) # NoNode
  <2> DEFINE c == Child(q)
             r == Down(c, q[2])
  <2>1. c \in Below(n) /\ c \in Node /\ tree[c].sid = s  BY <1>8, ChildType
  <2>2. r \in Position /\ Measure[r] < Measure[q]  BY <1>5, <1>8, <2>1, DownDescends
  <2>3. Resolved[q] = Resolved[r]  BY <1>8, ResolvedUnfold DEF Ends, GoesOn
  <2>4. Meant[r] = {}  BY <1>3, <1>4, <2>2, <2>3
  <2>5. \A b \in Node : tree[b].sid = s => b = c  BY <1>7, <1>8, <2>1 DEF SidsAreUnique
  <2>6. \A l \in Node : UNION {Meant[Down(b, q[2])] : b \in NamedBelow(l, s)} = {}
    <3>1. \A l \in Node : \A b \in NamedBelow(l, s) : Down(b, q[2]) = r
      BY <2>5 DEF NamedBelow, Below
    <3> HIDE DEF r, s
    <3> QED  BY <2>4, <3>1
  <2>7. Instantiates(n) => Meant[Over(n, q[2])] = {}
    <3> SUFFICES ASSUME Instantiates(n) PROVE Meant[Over(n, q[2])] = {}  OBVIOUS
    <3>1. m \in Node /\ ~ Instantiates(m) /\ Over(n, q[2]) \in Position
      BY <1>5, <1>8, OverDescends
    <3>2. CASE tree[m].sid = s
      <4>1. m = c  BY <2>5, <3>1, <3>2
      <4>2. Over(n, q[2]) = r  BY <1>8, <3>2, <4>1 DEF Over, Down, WithoutOwn
      <4> QED  BY <2>4, <4>2
    <3>3. CASE tree[m].sid # s
      <4>1. Over(n, q[2]) = <<m, q[2]>>  BY <3>3 DEF Over, WithoutOwn
      <4> DEFINE o == <<m, q[2]>>
      <4>2. o[1] = m /\ o[2] = q[2] /\ o \in Position  BY <3>1, <4>1
      <4> HIDE DEF o
      <4>3. Meant[o] = (UNION {Meant[Down(b, o[2])] : b \in NamedBelow(o[1], Head(o[2]))})
                       \union (IF Instantiates(o[1]) THEN Meant[Over(o[1], o[2])] ELSE {})
        <5>1. o[2] # << >>  BY <1>8, <4>2
        <5> QED  BY <4>2, <5>1, MeantUnfold
      <4>4. Meant[o] = (UNION {Meant[Down(b, q[2])] : b \in NamedBelow(m, s)}) \union {}
        BY <3>1, <4>2, <4>3
      <4> QED  BY <2>6, <3>1, <4>1, <4>4 DEF o
    <3> QED  BY <3>2, <3>3
  <2>8. Meant[q] = {}
    BY <1>5, <1>8, <1>m, <2>6, <2>7
  <2> QED  BY <1>3, <2>8
<1>9. CASE q[2] # << >> /\ Child(q) = NoNode
  <2>1. NamedBelow(n, s) = {}
    <3>1. FindsWhatIsBelow  BY FoundIsBelow
    <3>2. FindChildBySid(n, s) = NoNode  BY <1>9 DEF Child
    <3>3. NoNode \notin Node
      <4>1. tree \in Seq(NodeType)  BY DEF IInv, TypeOK, NodeType
      <4>2. Node = 1 .. Len(tree)  BY <4>1 DEF Node
      <4> QED  BY <4>2 DEF NoNode
    <3>4. ~ \E b \in Below(n) : tree[b].sid = s
      BY <1>5, <1>7, <1>9, <3>1, <3>2, <3>3 DEF FindsWhatIsBelow, Below
    <3> QED  BY <3>4 DEF NamedBelow
  <2>2. Instantiates(n)
    <3> SUFFICES ASSUME ~ Instantiates(n) PROVE FALSE  OBVIOUS
    <3>1. Meant[q] = {}  BY <1>9, <1>m, <2>1
    <3> QED  BY <1>3, <3>1
  <2> DEFINE r == Over(n, q[2])
  <2>3. r \in Position /\ Measure[r] < Measure[q]  BY <1>5, <1>9, <2>2, OverDescends
  <2>4. Resolved[q] = Resolved[r]  BY <1>9, <2>2, ResolvedUnfold DEF Ends, GoesOn
  <2>5. Meant[r] = {}  BY <1>3, <1>4, <2>3, <2>4
  <2>6. Meant[q] = {}  BY <1>9, <1>m, <2>1, <2>2, <2>5
  <2> QED  BY <1>3, <2>6
<1> QED  BY <1>6, <1>8, <1>9

LEMMA UrlsInit == Init => IdsHaveNoUrl
BY DEF Init, IdsHaveNoUrl

LEMMA UrlsNext == IInv /\ IdsHaveNoUrl /\ [Next]_vars => IdsHaveNoUrl'
<1> SUFFICES ASSUME IInv, IdsHaveNoUrl, [Next]_vars PROVE IdsHaveNoUrl'
  OBVIOUS
<1>1. ASSUME NEW id \in Id \union {None}, NEW s \in Sid \union {None},
             NEW url \in Id \union {None}, AddToSidTree(id, s, url)
      PROVE  IdsHaveNoUrl'
  <2> DEFINE x == Len(tree) + 1
             r == [sid |-> s, parent |-> current,
                   above |-> tree[current].above \union {current}, url |-> url]
  <2>1. tree' = Append(tree, r) /\ (url # None => id = None)
    BY <1>1 DEF AddToSidTree
  <2>2. x \notin Node /\ tree'[x] = r /\ \A m \in Node : tree'[m] = tree[m]
    <3>1. tree \in Seq(NodeType)  BY DEF IInv, TypeOK, NodeType
    <3> HIDE DEF r
    <3> QED  BY <2>1, <3>1 DEF Node
  <2>3. nodeOf' = IF id = None THEN nodeOf
                  ELSE [i \in DOMAIN nodeOf \union {id} |-> IF i = id THEN x ELSE nodeOf[i]]
    BY <1>1 DEF AddToSidTree
  <2>4. r.url = url  OBVIOUS
  <2>5. \A i \in DOMAIN nodeOf : nodeOf[i] \in Node  BY DEF IInv, TypeOK
  <2> HIDE DEF x, r
  <2> QED  BY <2>1, <2>2, <2>3, <2>4, <2>5 DEF IdsHaveNoUrl
<1>2. CASE UNCHANGED <<tree, nodeOf>>  BY <1>2 DEF IdsHaveNoUrl
<1> QED  BY <1>1, <1>2 DEF Next, MoveUpInSidTree, vars

\* An address is resolved to an element that it may mean, and if no sid occurs twice, whenever it
\* means one, also through instances (resolveSid, resolveSidInInstance), for any files and addresses.
THEOREM AlwaysResolvesWhatIsMeant == Spec => []ResolvesWhatIsMeant
<1>1. ASSUME IInv, IdsHaveNoUrl PROVE ResolvesWhatIsMeant
  <2> SUFFICES ASSUME NEW id \in Id, NEW sids \in Seq(Sid), id \in DOMAIN nodeOf
               PROVE  LET p == <<nodeOf[id], WithoutOwn(nodeOf[id], sids)>>
                      IN  /\ Resolved[p] # NoNode => Resolved[p] \in Meant[p]
                          /\ SidsAreUnique /\ Meant[p] # {} => Resolved[p] # NoNode
    <3>1. \A a \in Addresses : a[1] \in Id /\ a[2] \in Seq(Sid)
      BY DEF Addresses, SeqOf
    <3> QED  BY <3>1 DEF ResolvesWhatIsMeant, ResolveSid
  <2> DEFINE p == <<nodeOf[id], WithoutOwn(nodeOf[id], sids)>>
  <2>1. nodeOf[id] \in Node  BY <1>1 DEF IInv, TypeOK
  <2>2. WithoutOwn(nodeOf[id], sids) \in Seq(Sid)
    <3>1. CASE sids = << >>  BY <3>1 DEF WithoutOwn
    <3>2. CASE sids # << >>
      <4>1. Tail(sids) \in Seq(Sid)  BY <3>2
      <4> QED  BY <4>1 DEF WithoutOwn
    <3> QED  BY <3>1, <3>2
  <2>3. p \in Position  BY <2>1, <2>2 DEF Position
  <2> HIDE DEF p
  <2>4. Resolved[p] # NoNode => Resolved[p] \in Meant[p]  BY <1>1, <2>3, ResolvedIsMeant
  <2>5. SidsAreUnique /\ Meant[p] # {} => Resolved[p] # NoNode  BY <1>1, <2>3, MeantIsResolved
  <2> QED  BY <2>4, <2>5 DEF p
<1> QED  BY <1>1, UrlsInit, UrlsNext, Invariant, PTL DEF Spec

-----------------------------------------------------------------------------
(* Skin controllers.  Reading skins and instances changes the tree by the  *)
(* steps of SidTree only, so what is proved of SidTree holds whenever      *)
(* joints are resolved.                                                    *)

\* Each step of SkinControllers reads an element, leaves one, or does not touch the tree.
LEMMA StepOfTheTree == ASSUME [SkinNext]_allVars PROVE [Next]_vars
<1>1. CASE UNCHANGED allVars
  BY <1>1 DEF allVars
<1>2. ASSUME NEW id \in Id \union {None}, NEW s \in Sid \union {None},
             NEW url \in Id \union {None}, NEW isNode \in BOOLEAN,
             ReadElement(id, s, url, isNode)
      PROVE  Next
  BY <1>2 DEF ReadElement, Next
<1>3. CASE EndElement
  BY <1>3 DEF EndElement, Next
<1>4. ASSUME NEW roots \in RootLists, BeginInstanceController(roots)
      PROVE  UNCHANGED vars
  BY <1>4 DEF BeginInstanceController
<1>5. ASSUME NEW list \in JointLists, NEW isKnown \in BOOLEAN, BeginInputJoint(list, isKnown)
      PROVE  UNCHANGED vars
  BY <1>5 DEF BeginInputJoint
<1>6. CASE BeginInputJointMissing
  BY <1>6 DEF BeginInputJointMissing
<1>7. CASE CreateAndWriteSkinControllers
  BY <1>7 DEF CreateAndWriteSkinControllers
<1> QED BY <1>1, <1>2, <1>3, <1>4, <1>5, <1>6, <1>7 DEF SkinNext

\* Files with skins and instances build the tree as SidTree says, for any names of joints, any
\* skeletons, and any answers of the error handler and the writer.
THEOREM ImplementsSidTree == SkinSpec => Spec
<1>1. SkinInit => Init
  BY DEF SkinInit
<1> QED BY <1>1, StepOfTheTree, PTL DEF SkinSpec, Spec

\* Whenever joints are resolved, findChildBySid() finds a node below with the sid if and only if
\* there is one.
THEOREM JointsAreSearchedInATree == SkinSpec => [](TypeOK /\ FindsWhatIsBelow)
BY ImplementsSidTree, TypesAreRight, AlwaysFindsWhatIsBelow, PTL

-----------------------------------------------------------------------------
(* Loops that count.                                                       *)

\* What a loop over 1..n makes of v: its value after k rounds is f[k].
Counts(n, v, step, f) == f = [k \in 0..n |-> IF k = 0 THEN v ELSE step[<<k, f[k - 1]>>]]

LEMMA CountExists ==
    ASSUME NEW n \in Nat, NEW v, NEW step
    PROVE  \E f : Counts(n, v, step, f)
<1> DEFINE Bad == {k \in Nat : ~ \E f : Counts(k, v, step, f)}
<1>1. SUFFICES ASSUME Bad # {} PROVE FALSE  OBVIOUS
<1>2. PICK k \in Bad : \A m \in Bad : k <= m
  <2>1. Bad \in SUBSET Nat  OBVIOUS
  <2> HIDE DEF Bad
  <2> QED  BY <1>1, <2>1, Smallest
<1>3. k \in Nat /\ ~ \E f : Counts(k, v, step, f)  BY <1>2
<1>4. CASE k = 0
  <2> DEFINE f == [j \in 0..0 |-> v]
  <2>1. \A j \in 0..0 : j = 0  OBVIOUS
  <2>2. f = [j \in 0..0 |-> IF j = 0 THEN v ELSE step[<<j, f[j - 1]>>]]  BY <2>1
  <2> HIDE DEF f
  <2> QED  BY <1>3, <1>4, <2>2 DEF Counts
<1>5. CASE k # 0
  <2>1. k - 1 \in Nat /\ ~ (k <= k - 1)  BY <1>3, <1>5
  <2>2. PICK g : Counts(k - 1, v, step, g)  BY <1>2, <2>1
  <2> DEFINE f == [j \in 0..k |-> IF j = 0 THEN v ELSE step[<<j, g[j - 1]>>]]
  <2>3. \A j \in 0..k - 1 : f[j] = g[j]
    <3>1. \A j \in 0..k - 1 : j \in 0..k  BY <1>3
    <3> QED  BY <2>2, <3>1 DEF Counts
  <2>4. ASSUME NEW j \in 0..k PROVE f[j] = IF j = 0 THEN v ELSE step[<<j, f[j - 1]>>]
    <3>1. j # 0 => j - 1 \in 0..k - 1  BY <1>3
    <3>2. f[j] = IF j = 0 THEN v ELSE step[<<j, g[j - 1]>>]  OBVIOUS
    <3> HIDE DEF f
    <3>3. CASE j = 0  BY <3>2, <3>3
    <3>4. CASE j # 0
      <4>1. f[j - 1] = g[j - 1]  BY <2>3, <3>1, <3>4
      <4> QED  BY <3>2, <3>4, <4>1
    <3> QED  BY <3>3, <3>4
  <2>5. f = [j \in 0..k |-> f[j]]  OBVIOUS
  <2> HIDE DEF f, Bad
  <2>6. f = [j \in 0..k |-> IF j = 0 THEN v ELSE step[<<j, f[j - 1]>>]]  BY <2>4, <2>5, Zenon
  <2> QED  BY <1>3, <2>6 DEF Counts
<1> QED  BY <1>4, <1>5

\* What holds before a loop, and after each round if before it, holds after the loop.
LEMMA CountKeeps ==
    ASSUME NEW n \in Nat, NEW f, NEW good, f[0] \in good[0],
           \A k \in 1..n : f[k - 1] \in good[k - 1] => f[k] \in good[k]
    PROVE  f[n] \in good[n]
<1> DEFINE Bad == {k \in 0..n : f[k] \notin good[k]}
<1>1. SUFFICES ASSUME Bad # {} PROVE FALSE
  <2>1. n \in 0..n  OBVIOUS
  <2> QED  BY <1>1, <2>1
<1>2. PICK k \in Bad : \A m \in Bad : k <= m
  <2>1. Bad \in SUBSET Nat  OBVIOUS
  <2> HIDE DEF Bad
  <2> QED  BY <1>1, <2>1, Smallest
<1>3. k \in 0..n /\ f[k] \notin good[k]  BY <1>2
<1>4. k # 0  BY <1>3
<1>5. k \in 1..n /\ k - 1 \in 0..n /\ ~ (k <= k - 1)  BY <1>3, <1>4
<1>6. k - 1 \notin Bad  BY <1>2, <1>5
<1>7. f[k - 1] \in good[k - 1]  BY <1>5, <1>6
<1> QED  BY <1>3, <1>5, <1>7

-----------------------------------------------------------------------------
(* The joints of an instance.                                              *)

ListType == [areIds : BOOLEAN, names : Seq(Id \union Sid)]
Scene == IInv /\ IdsHaveNoUrl /\ objects \subseteq Node

\* The address of a root and one sid
LEMMA ResolveOne ==
    ASSUME IInv, IdsHaveNoUrl, NEW id \in DOMAIN nodeOf, NEW s \in Sid
    PROVE  ResolveSid(id, <<s>>) =
             IF tree[nodeOf[id]].sid = s THEN nodeOf[id] ELSE FindChildBySid(nodeOf[id], s)
<1> DEFINE m == nodeOf[id]
           p == <<m, WithoutOwn(m, <<s>>)>>
<1>0. m \in Node  BY DEF IInv, TypeOK
<1>1. ~ Instantiates(m)
  <2>1. None \notin DOMAIN nodeOf  BY SidTreeAssumption DEF IInv, TypeOK
  <2> QED  BY <2>1 DEF IdsHaveNoUrl, Instantiates
<1>2. ResolveSid(id, <<s>>) = Resolved[p]  BY DEF ResolveSid
<1>e. \A l \in Node : <<l, << >> >> \in Position
  <2>1. << >> \in Seq(Sid)  OBVIOUS
  <2> QED  BY <2>1, Zenon DEF Position
<1>3. <<s>> # << >> /\ Head(<<s>>) = s /\ Tail(<<s>>) = << >>  OBVIOUS
<1>4. \A q \in Position : q[2] = << >> => Resolved[q] = q[1]
  BY ResolvedUnfold DEF Ends, End
<1>5. CASE tree[m].sid = s
  <2>1. p = <<m, << >> >>  BY <1>3, <1>5 DEF WithoutOwn
  <2>2. p \in Position  BY <1>0, <1>e, <2>1
  <2>3. Resolved[p] = m  BY <1>4, <2>1, <2>2
  <2> QED  BY <1>2, <1>5, <2>3
<1>6. CASE tree[m].sid # s
  <2>1. p = <<m, <<s>> >>  BY <1>3, <1>6 DEF WithoutOwn
  <2>2. p \in Position  BY <1>0, <2>1 DEF Position
  <2>3. Child(p) = FindChildBySid(m, s) /\ p[2] # << >> /\ p[1] = m  BY <1>3, <2>1 DEF Child
  <2> HIDE DEF p
  <2>4. CASE Child(p) = NoNode
    <3>1. Ends(p) /\ End(p) = NoNode  BY <1>1, <2>3, <2>4 DEF Ends, End
    <3>2. Resolved[p] = NoNode  BY <2>2, <3>1, ResolvedUnfold
    <3> QED  BY <1>2, <1>6, <2>3, <2>4, <3>2
  <2>5. CASE Child(p) # NoNode
    <3>1. ~ Ends(p) /\ GoesOn(p) = <<Child(p), << >> >>
      BY <1>3, <2>1, <2>3, <2>5 DEF Ends, GoesOn, Down
    <3>2. Resolved[p] = Resolved[GoesOn(p)]  BY <2>2, <3>1, ResolvedUnfold
    <3>3. Child(p) \in Node  BY <2>2, <2>3, <2>5, ChildType
    <3>4. GoesOn(p) \in Position  BY <1>e, <3>1, <3>3
    <3>5. Resolved[GoesOn(p)] = Child(p)  BY <1>4, <3>1, <3>4
    <3> QED  BY <1>2, <1>6, <2>3, <3>2, <3>5
  <2> QED  BY <2>4, <2>5
<1> QED  BY <1>5, <1>6

LEMMA ResolveNone ==
    ASSUME IInv, IdsHaveNoUrl, NEW id
    PROVE  ResolveSid(id, << >>) = IF id \in DOMAIN nodeOf THEN nodeOf[id] ELSE NoNode
<1>1. CASE id \in DOMAIN nodeOf
  <2> DEFINE p == <<nodeOf[id], << >> >>
  <2>0. nodeOf[id] \in Node /\ << >> \in Seq(Sid)  BY <1>1 DEF IInv, TypeOK
  <2>1. p \in Position  BY <2>0, Zenon DEF Position
  <2>2. Resolved[p] = nodeOf[id]  BY <2>1, ResolvedUnfold DEF Ends, End
  <2>3. WithoutOwn(nodeOf[id], << >>) = << >>  BY DEF WithoutOwn
  <2> QED  BY <1>1, <2>2, <2>3 DEF ResolveSid
<1>2. CASE id \notin DOMAIN nodeOf  BY <1>2 DEF ResolveSid
<1> QED  BY <1>1, <1>2

\* The first joint of a sequence is in it, and there is one unless none is a node of the scene.
LEMMA FirstJointFacts ==
    ASSUME Scene, NEW found, DOMAIN found \subseteq Nat
    PROVE  /\ FirstJoint(found) # NoNode =>
                 \E r \in DOMAIN found : FirstJoint(found) = found[r] /\ found[r] \in objects
           /\ (\E r \in DOMAIN found : found[r] \in objects) => FirstJoint(found) # NoNode
<1> DEFINE N == {r \in DOMAIN found : found[r] \in objects}
<1>1. CASE N = {}  BY <1>1 DEF FirstJoint
<1>2. CASE N # {}
  <2>1. N \in SUBSET Nat  OBVIOUS
  <2>2. \E m \in N : \A n \in N : m <= n
    <3> HIDE DEF N
    <3> QED  BY <1>2, <2>1, Smallest
  <2>3. Min(N) \in N  BY <2>2 DEF Min
  <2>4. FirstJoint(found) = found[Min(N)]  BY <1>2 DEF FirstJoint
  <2>5. NoNode \notin Node
    <3>1. tree \in Seq(NodeType)  BY DEF Scene, IInv, TypeOK, NodeType
    <3>2. Node = 1 .. Len(tree)  BY <3>1 DEF Node
    <3> QED  BY <3>2 DEF NoNode
  <2> QED  BY <2>3, <2>4, <2>5 DEF Scene
<1> QED  BY <1>1, <1>2

\* Candidates, if the element with the root's id is there
LEMMA CandidatesFacts ==
    ASSUME IInv, IdsHaveNoUrl, NEW id \in DOMAIN nodeOf, NEW s \in Sid
    PROVE  LET x == ResolveSid(id, <<s>>)
           IN  /\ x # NoNode => x \in Candidates(id, s)
               /\ Candidates(id, s) # {} => x \in Candidates(id, s)
<1> DEFINE m == nodeOf[id]
           x == ResolveSid(id, <<s>>)
           f == FindChildBySid(m, s)
<1>0. m \in Node  BY DEF IInv, TypeOK
<1>1. x = IF tree[m].sid = s THEN m ELSE f  BY ResolveOne
<1>2. Candidates(id, s) = {n \in Below(m) \union {m} : tree[n].sid = s}  BY DEF Candidates
<1>3. CASE tree[m].sid = s  BY <1>1, <1>2, <1>3
<1>4. CASE tree[m].sid # s
  <2>1. IF \E n \in Below(m) : tree[n].sid = s THEN f \in Below(m) /\ tree[f].sid = s ELSE f = NoNode
    <3>1. FindsWhatIsBelow  BY FoundIsBelow
    <3> QED  BY <1>0, <3>1 DEF FindsWhatIsBelow
  <2>2. x = f  BY <1>1, <1>4
  <2> HIDE DEF x, f, m
  <2>3. Candidates(id, s) = {n \in Below(m) : tree[n].sid = s}  BY <1>2, <1>4
  <2> QED  BY <2>1, <2>2, <2>3 DEF x
<1> QED  BY <1>3, <1>4

\* A joint is a node of the scene and one of those that the name may mean, and it is there if the
\* name means one node, of the scene.
LEMMA JointIsMeant ==
    ASSUME Scene, NEW list \in ListType, NEW roots \in Seq(Id), NEW name \in Id \union Sid
    PROVE  LET j == Joint(list, roots, name)
           IN  /\ j # NoNode => j \in objects \intersect Meanings(list, roots, name)
               /\ Found(list, roots, name) => j # NoNode
<1> DEFINE j == Joint(list, roots, name)
<1>0. NoNode \notin Node
  <2>1. tree \in Seq(NodeType)  BY DEF Scene, IInv, TypeOK, NodeType
  <2>2. Node = 1 .. Len(tree)  BY <2>1 DEF Node
  <2> QED  BY <2>2 DEF NoNode
<1>1. CASE list.areIds \/ roots = << >>
  <2> DEFINE x == ResolveSid(name, << >>)
             found == IF name \in Id THEN <<x>> ELSE << >>
  <2>1. j = FirstJoint(found)  BY <1>1 DEF Joint
  <2>2. Meanings(list, roots, name) = {nodeOf[i] : i \in {name} \intersect DOMAIN nodeOf}
    BY <1>1 DEF Meanings
  <2>3. x = IF name \in DOMAIN nodeOf THEN nodeOf[name] ELSE NoNode  BY ResolveNone DEF Scene
  <2> HIDE DEF x
  <2>4. DOMAIN found \subseteq Nat /\ \A r \in DOMAIN found : r = 1 /\ found[r] = x /\ name \in Id
    OBVIOUS
  <2>5. name \in Id => 1 \in DOMAIN found /\ found[1] = x  OBVIOUS
  <2> HIDE DEF found, j
  <2>6. ASSUME j # NoNode PROVE j \in objects \intersect Meanings(list, roots, name)
    <3>1. j = x /\ j \in objects  BY <2>1, <2>4, <2>6, FirstJointFacts
    <3> QED  BY <1>0, <2>2, <2>3, <3>1 DEF Scene
  <2>7. ASSUME Found(list, roots, name) PROVE j # NoNode
    <3>1. Meanings(list, roots, name) \intersect objects # {}  BY <1>1, <2>7 DEF Found
    <3>2. name \in DOMAIN nodeOf /\ nodeOf[name] \in objects  BY <2>2, <3>1
    <3>3. name \in Id  BY <3>2 DEF Scene, IInv, TypeOK
    <3> QED  BY <2>1, <2>3, <2>4, <2>5, <3>2, <3>3, FirstJointFacts
  <2> QED  BY <2>6, <2>7 DEF j
<1>2. CASE ~ (list.areIds \/ roots = << >>)
  <2> DEFINE found == [r \in DOMAIN roots |->
                          IF name \in Sid THEN ResolveSid(roots[r], <<name>>) ELSE NoNode]
  <2>1. j = FirstJoint(found)  BY <1>2 DEF Joint
  <2>2. Meanings(list, roots, name) = UNION {Candidates(roots[r], name) : r \in DOMAIN roots}
    BY <1>2 DEF Meanings
  <2>3. DOMAIN found = DOMAIN roots /\ DOMAIN found \subseteq Nat  OBVIOUS
  <2>4. \A r \in DOMAIN roots :
           found[r] = IF name \in Sid THEN ResolveSid(roots[r], <<name>>) ELSE NoNode  OBVIOUS
  <2> HIDE DEF found, j
  <2>5. \A i : i \notin DOMAIN nodeOf => ResolveSid(i, <<name>>) = NoNode  BY DEF ResolveSid
  <2>6. ASSUME j # NoNode PROVE j \in objects \intersect Meanings(list, roots, name)
    <3>1. PICK r \in DOMAIN roots : j = found[r] /\ j \in objects
      BY <2>1, <2>3, <2>6, FirstJointFacts
    <3>2. name \in Sid /\ j = ResolveSid(roots[r], <<name>>)  BY <2>4, <2>6, <3>1
    <3>3. roots[r] \in DOMAIN nodeOf  BY <2>5, <2>6, <3>2
    <3>4. j \in Candidates(roots[r], name)  BY <2>6, <3>2, <3>3, CandidatesFacts DEF Scene
    <3> QED  BY <2>2, <3>1, <3>4
  <2>7. ASSUME Found(list, roots, name) PROVE j # NoNode
    <3>1. PICK r \in DOMAIN roots, n \in objects : Candidates(roots[r], name) = {n}
      BY <1>2, <2>7 DEF Found
    <3>2. roots[r] \in DOMAIN nodeOf /\ n \in Node /\ tree[n].sid = name
      BY <3>1 DEF Candidates, Scene
    <3>3. name \in Sid
      <4>1. tree[n] \in NodeType
        <5>1. tree \in Seq(NodeType)  BY DEF Scene, IInv, TypeOK, NodeType
        <5> QED  BY <3>2, <5>1 DEF Node
      <4>2. tree[n].sid \in Sid \union {None}  BY <4>1 DEF NodeType
      <4> QED  BY <3>2, <4>2, SidTreeAssumption
    <3>4. ResolveSid(roots[r], <<name>>) \in Candidates(roots[r], name)
      BY <3>1, <3>2, <3>3, CandidatesFacts DEF Scene
    <3>5. found[r] = n  BY <2>4, <3>1, <3>3, <3>4
    <3> QED  BY <2>1, <2>3, <3>1, <3>5, FirstJointFacts
  <2> QED  BY <2>6, <2>7 DEF j
<1> QED  BY <1>1, <1>2

\* The names up to k that mean a node
KeptNames(list, roots, k) == {l \in 1..k : Joint(list, roots, list.names[l]) # NoNode}

\* v is the sequence of the joints of these names.
JointsUpTo(list, roots, k, v) ==
    /\ v \in Seq(objects)
    /\ Len(v) = Cardinality(KeptNames(list, roots, k))
    /\ \A l \in KeptNames(list, roots, k) :
          v[Cardinality(KeptNames(list, roots, l))] = Joint(list, roots, list.names[l])

LEMMA KeptFacts ==
    ASSUME NEW list, NEW roots, NEW k \in Nat
    PROVE  /\ IsFiniteSet(KeptNames(list, roots, k))
           /\ Cardinality(KeptNames(list, roots, k)) \in 0..k
           /\ \A l \in KeptNames(list, roots, k) :
                 Cardinality(KeptNames(list, roots, l)) \in 1..Cardinality(KeptNames(list, roots, k))
<1> DEFINE K(l) == KeptNames(list, roots, l)
<1>1. \A l \in Nat : IsFiniteSet(K(l)) /\ Cardinality(K(l)) \in 0..l
  <2> SUFFICES ASSUME NEW l \in Nat PROVE IsFiniteSet(K(l)) /\ Cardinality(K(l)) \in 0..l
    OBVIOUS
  <2>1. IsFiniteSet(1..l) /\ Cardinality(1..l) = l
    <3>1. IsFiniteSet(1..l) /\ Cardinality(1..l) = IF 1 > l THEN 0 ELSE l - 1 + 1  BY FS_Interval
    <3> QED  BY <3>1
  <2>2. K(l) \subseteq 1..l  BY DEF KeptNames
  <2> HIDE DEF K
  <2>3. IsFiniteSet(K(l)) /\ Cardinality(K(l)) <= Cardinality(1..l)  BY <2>1, <2>2, FS_Subset
  <2>4. Cardinality(K(l)) \in Nat  BY <2>3, FS_CardinalityType
  <2> QED  BY <2>1, <2>3, <2>4
<1>2. ASSUME NEW l \in K(k) PROVE Cardinality(K(l)) \in 1..Cardinality(K(k))
  <2>1. l \in 1..k /\ l \in K(l) /\ K(l) \subseteq K(k)  BY DEF KeptNames
  <2>2. l \in Nat  BY <2>1
  <2> HIDE DEF K
  <2>3. Cardinality(K(l)) <= Cardinality(K(k))  BY <1>1, <2>1, FS_Subset
  <2>4. Cardinality(K(l)) # 0  BY <1>1, <2>1, <2>2, FS_EmptySet
  <2>5. Cardinality(K(l)) \in Nat /\ Cardinality(K(k)) \in Nat  BY <1>1, <2>2
  <2> QED  BY <2>3, <2>4, <2>5
<1> QED  BY <1>1, <1>2

LEMMA JointsStep ==
    ASSUME Scene, NEW list \in ListType, NEW roots \in Seq(Id), NEW k \in 1..Len(list.names),
           NEW v, JointsUpTo(list, roots, k - 1, v), NEW w,
           w = IF Joint(list, roots, list.names[k]) = NoNode THEN v
               ELSE Append(v, Joint(list, roots, list.names[k]))
    PROVE  JointsUpTo(list, roots, k, w)
<1> DEFINE J(l) == Joint(list, roots, list.names[l])
           K(l) == KeptNames(list, roots, l)
           c == Cardinality(K(k - 1))
<1>1. k \in Nat \ {0} /\ k - 1 \in Nat /\ list.names[k] \in Id \union Sid
  <2>1. list.names \in Seq(Id \union Sid)  BY DEF ListType
  <2> QED  BY <2>1
<1>2. v \in Seq(objects) /\ Len(v) = c /\ \A l \in K(k - 1) : v[Cardinality(K(l))] = J(l)
  BY DEF JointsUpTo
<1>3. IsFiniteSet(K(k - 1)) /\ c \in Nat /\ \A l \in K(k - 1) : Cardinality(K(l)) \in 1..c
  BY <1>1, KeptFacts
<1>4. CASE J(k) = NoNode
  <2>1. K(k) = K(k - 1)  BY <1>1, <1>4 DEF KeptNames
  <2>2. w = v  BY <1>4
  <2> QED  BY <1>2, <2>1, <2>2 DEF JointsUpTo
<1>5. CASE J(k) # NoNode
  <2>1. K(k) = K(k - 1) \union {k} /\ k \notin K(k - 1)  BY <1>1, <1>5 DEF KeptNames
  <2>2. Cardinality(K(k)) = c + 1  BY <1>3, <2>1, FS_AddElement
  <2>3. J(k) \in objects  BY <1>1, <1>5, JointIsMeant
  <2> DEFINE j == J(k)
  <2>4. w = Append(v, j)  BY <1>5
  <2> HIDE DEF j, c
  <2>5. Append(v, j) \in Seq(objects) /\ Len(Append(v, j)) = c + 1
        /\ Append(v, j)[c + 1] = j /\ \A i \in 1..c : Append(v, j)[i] = v[i]
    BY <1>2, <1>3, <2>3 DEF j
  <2> HIDE DEF K, J
  <2>6. ASSUME NEW l \in K(k) PROVE w[Cardinality(K(l))] = J(l)
    <3>1. CASE l = k  BY <2>2, <2>4, <2>5, <3>1 DEF j
    <3>2. CASE l # k
      <4>1. l \in K(k - 1)  BY <2>1, <3>2
      <4> QED  BY <1>2, <1>3, <2>4, <2>5, <4>1
    <3> QED  BY <3>1, <3>2
  <2>7. w \in Seq(objects) /\ Len(w) = Cardinality(K(k))  BY <2>2, <2>4, <2>5
  <2> QED  BY <2>6, <2>7 DEF JointsUpTo, K, J
<1> QED  BY <1>4, <1>5

LEMMA JointsFacts ==
    ASSUME Scene, NEW list \in ListType, NEW roots \in Seq(Id)
    PROVE  JointsUpTo(list, roots, Len(list.names), Joints(list, roots))
<1> DEFINE n == Len(list.names)
           J(k) == Joint(list, roots, list.names[k])
           Body(f) == [k \in 0..n |-> IF k = 0 THEN << >>
                                      ELSE LET joint == J(k)
                                           IN  IF joint = NoNode THEN f[k - 1]
                                               ELSE Append(f[k - 1], joint)]
           upTo == CHOOSE f : f = Body(f)
           Values == Seq(objects)
           step == [p \in (1..n) \X Values |-> IF J(p[1]) = NoNode THEN p[2] ELSE Append(p[2], J(p[1]))]
<1>1. n \in Nat
  <2>1. list.names \in Seq(Id \union Sid)  BY DEF ListType
  <2> QED  BY <2>1
<1>2. Joints(list, roots) = upTo[n]  BY DEF Joints
<1>3. \A k \in 1..n : J(k) # NoNode => J(k) \in objects
  <2>1. list.names \in Seq(Id \union Sid)  BY DEF ListType
  <2>2. \A k \in 1..n : list.names[k] \in Id \union Sid  BY <2>1
  <2> QED  BY <2>2, JointIsMeant
<1>4. PICK f : Counts(n, << >>, step, f)  BY <1>1, CountExists
<1>5. \A k \in 0..n : f[k] \in Values
  <2> SUFFICES ASSUME NEW k \in 0..n PROVE f[k] \in Values  OBVIOUS
  <2> DEFINE good == [j \in 0..k |-> Values]
  <2>1. f[0] = << >> /\ \A j \in 1..k : f[j] = step[<<j, f[j - 1]>>]
    <3>1. \A j \in 0..k : j \in 0..n  BY <1>1
    <3> HIDE DEF step, n
    <3>2. 0 \in 0..n /\ \A j \in 1..k : j \in 0..n /\ j # 0  BY <1>1
    <3> QED  BY <1>4, <3>2 DEF Counts
  <2>2. ASSUME NEW j \in 1..k, f[j - 1] \in Values PROVE f[j] \in Values
    <3>1. j \in 1..n  BY <1>1
    <3>2. f[j] = IF J(j) = NoNode THEN f[j - 1] ELSE Append(f[j - 1], J(j))
      <4> HIDE DEF J, Values, n
      <4> QED  BY <2>1, <2>2, <3>1
    <3> HIDE DEF J
    <3> QED  BY <1>3, <2>2, <3>1, <3>2
  <2>3. f[0] \in Values  BY <2>1
  <2> HIDE DEF Values
  <2>4. good[0] = Values /\ good[k] = Values
        /\ \A j \in 1..k : good[j] = Values /\ good[j - 1] = Values
    OBVIOUS
  <2> HIDE DEF good
  <2>5. \A j \in 1..k : f[j - 1] \in good[j - 1] => f[j] \in good[j]  BY <2>2, <2>4
  <2>6. f[k] \in good[k]  BY <2>3, <2>4, <2>5, CountKeeps
  <2> QED  BY <2>4, <2>6
<1>6. f = Body(f)
  <2>1. f = [k \in 0..n |-> f[k]]
    <3> HIDE DEF step, n
    <3> QED  BY <1>4 DEF Counts
  <2>2. ASSUME NEW k \in 0..n PROVE f[k] = Body(f)[k]
    <3>1. f[k] = IF k = 0 THEN << >> ELSE step[<<k, f[k - 1]>>]
      <4> HIDE DEF step, n
      <4> QED  BY <1>4 DEF Counts
    <3>2. CASE k = 0  BY <3>1, <3>2
    <3>3. CASE k # 0
      <4>1. k \in 1..n /\ k - 1 \in 0..n  BY <1>1, <3>3
      <4>2. f[k - 1] \in Values  BY <1>5, <4>1
      <4> HIDE DEF J, Values, n
      <4>3. f[k] = IF J(k) = NoNode THEN f[k - 1] ELSE Append(f[k - 1], J(k))
        BY <3>1, <3>3, <4>1, <4>2
      <4> QED  BY <3>3, <4>3
    <3> QED  BY <3>2, <3>3
  <2>3. \A g : Body(g) = [k \in 0..n |-> Body(g)[k]]  OBVIOUS
  <2> HIDE DEF Body
  <2>4. f = [k \in 0..n |-> Body(f)[k]]  BY <2>1, <2>2, Zenon
  <2> QED  BY <2>3, <2>4
<1> HIDE DEF Body
<1>7. upTo = Body(upTo)  BY <1>6
<1> HIDE DEF upTo
<1> USE DEF Body
<1>8. upTo[0] = << >> /\ \A k \in 1..n : upTo[k] = IF J(k) = NoNode THEN upTo[k - 1]
                                                  ELSE Append(upTo[k - 1], J(k))
  <2> HIDE DEF n, J
  <2>1. 0 \in 0..n /\ \A k \in 1..n : k \in 0..n /\ k # 0  BY <1>1
  <2> QED  BY <1>7, <2>1
<1> DEFINE U == {upTo[k] : k \in 0..n}
           good == [k \in 0..n |-> {v \in U : JointsUpTo(list, roots, k, v)}]
<1>9. upTo[0] \in good[0]
  <2>1. 0 \in 0..n  BY <1>1
  <2>2. KeptNames(list, roots, 0) = {}  BY DEF KeptNames
  <2>3. Cardinality(KeptNames(list, roots, 0)) = 0  BY <2>2, FS_EmptySet
  <2>4. JointsUpTo(list, roots, 0, << >>)  BY <2>2, <2>3 DEF JointsUpTo
  <2> HIDE DEF n, J
  <2> QED  BY <1>8, <2>1, <2>4
<1>10. ASSUME NEW k \in 1..n, upTo[k - 1] \in good[k - 1] PROVE upTo[k] \in good[k]
  <2>1. k \in 0..n /\ k - 1 \in 0..n  BY <1>1
  <2>2. JointsUpTo(list, roots, k - 1, upTo[k - 1])  BY <1>10, <2>1
  <2>3. upTo[k] = IF J(k) = NoNode THEN upTo[k - 1] ELSE Append(upTo[k - 1], J(k))  BY <1>8
  <2>4. JointsUpTo(list, roots, k, upTo[k])  BY <2>2, <2>3, JointsStep
  <2> QED  BY <2>1, <2>4
<1> HIDE DEF good, n
<1>11. upTo[n] \in good[n]  BY <1>1, <1>9, <1>10, CountKeeps
<1> QED  BY <1>1, <1>2, <1>11 DEF good, n

-----------------------------------------------------------------------------
(* What the loops over the instances come to.                              *)

InstanceType == [roots : RootLists, controller : Nat, listed : BOOLEAN]
OutcomeType == [instances : Seq(InstanceType), controllers : Seq(Seq(objects)), success : BOOLEAN]

\* Instance j has a controller with the joints that the list means for its roots.
HasJoints(s, list, roots, j) ==
    /\ s.instances[j].controller \in DOMAIN s.controllers
    /\ s.controllers[s.instances[j].controller] = Joints(list, roots)

\* The controllers of s are kept, and new ones have joints of the list.
Extends(s, t, list) ==
    /\ DOMAIN s.controllers \subseteq DOMAIN t.controllers
    /\ \A c \in DOMAIN s.controllers : t.controllers[c] = s.controllers[c]
    /\ \A c \in DOMAIN t.controllers \ DOMAIN s.controllers :
          Len(t.controllers[c]) <= Len(list.names)

\* What createAndWriteSkinController() does for instance i: it fails, or the instance has joints.
Tries(s, t, list, i) ==
    /\ t \in OutcomeType /\ DOMAIN t.instances = DOMAIN s.instances
    /\ Extends(s, t, list)
    /\ \A j \in DOMAIN s.instances :
          /\ t.instances[j].roots = s.instances[j].roots
          /\ t.instances[j].listed = s.instances[j].listed
          /\ j # i => t.instances[j] = s.instances[j]
    /\ \/ ~ t.success /\ t.instances[i].controller = s.instances[i].controller
       \/ HasJoints(t, list, s.instances[i].roots, i)

LEMMA JointsShort ==
    ASSUME Scene, NEW list \in ListType, NEW roots \in RootLists
    PROVE  Joints(list, roots) \in Seq(objects) /\ Len(Joints(list, roots)) <= Len(list.names)
<1>1. roots \in Seq(Id)  BY SkinAssumption
<1>2. JointsUpTo(list, roots, Len(list.names), Joints(list, roots))  BY <1>1, JointsFacts
<1>3. Len(list.names) \in Nat
  <2>1. list.names \in Seq(Id \union Sid)  BY DEF ListType
  <2> QED  BY <2>1
<1> DEFINE c == Cardinality(KeptNames(list, roots, Len(list.names)))
<1>4. c \in 0..Len(list.names)  BY <1>3, KeptFacts
<1>5. Joints(list, roots) \in Seq(objects) /\ Len(Joints(list, roots)) = c  BY <1>2 DEF JointsUpTo
<1> HIDE DEF c
<1> QED  BY <1>3, <1>4, <1>5

\* Instance i of is gets the controller c, and js is what comes of it.
Gets(is, i, c, js) ==
    /\ js \in Seq(InstanceType) /\ DOMAIN js = DOMAIN is
    /\ js[i].controller = c
    /\ \A j \in DOMAIN is : /\ js[j].roots = is[j].roots /\ js[j].listed = is[j].listed
                            /\ j # i => js[j] = is[j]

LEMMA WithController ==
    ASSUME NEW is, is \in Seq(InstanceType), NEW i, i \in DOMAIN is, NEW c, c \in Nat
    PROVE  Gets(is, i, c, [is EXCEPT ![i].controller = c])
<1>1. is[i] \in InstanceType /\ DOMAIN is = 1..Len(is) /\ Len(is) \in Nat  OBVIOUS
<1> DEFINE r == [is[i] EXCEPT !.controller = c]
           js == [is EXCEPT ![i] = r]
<1>2. r \in InstanceType /\ r.controller = c /\ r.roots = is[i].roots /\ r.listed = is[i].listed
  BY <1>1 DEF InstanceType
<1> HIDE DEF r
<1>3. js \in Seq(InstanceType)  BY <1>2
<1>4. Gets(is, i, c, js)  BY <1>1, <1>2, <1>3 DEF Gets
<1> QED  BY <1>4 DEF r

LEMMA CreateFacts ==
    ASSUME Scene, NEW list \in ListType, NEW s \in OutcomeType, NEW i \in DOMAIN s.instances,
           NEW t \in CreateAndWriteSkinController(s, list, i)
    PROVE  Tries(s, t, list, i)
<1> DEFINE is == s.instances
           cs == s.controllers
           roots == is[i].roots
           ofJoints == Joints(list, roots)
           known == {c \in DOMAIN cs : Alike(cs[c], ofJoints)}
           With(c) == [is EXCEPT ![i].controller = c]
           made == Append(cs, ofJoints)
<1>1. is \in Seq(InstanceType) /\ cs \in Seq(Seq(objects)) /\ s.success \in BOOLEAN
  BY DEF OutcomeType
<1>0. is[i] \in InstanceType
  <2> HIDE DEF is
  <2> QED  BY <1>1 DEF is
<1>2. roots \in RootLists  BY <1>0 DEF InstanceType
<1>3. ofJoints \in Seq(objects) /\ Len(ofJoints) <= Len(list.names)  BY <1>2, JointsShort
<1>4. \/ t = [s EXCEPT !.success = FALSE]
      \/ \E c \in known : t = [s EXCEPT !.instances = With(c), !.success = TRUE]
      \/ \E written \in BOOLEAN :
            t = [instances |-> With(Len(made)), controllers |-> made, success |-> written]
  BY DEF CreateAndWriteSkinController
<1>5. CASE t = [s EXCEPT !.success = FALSE]
  <2>1. /\ t \in OutcomeType /\ t.instances = is /\ t.controllers = cs /\ ~ t.success
    BY <1>5 DEF OutcomeType
  <2> QED  BY <2>1 DEF Tries, Extends
<1>6. ASSUME NEW c \in known, t = [s EXCEPT !.instances = With(c), !.success = TRUE]
      PROVE  Tries(s, t, list, i)
  <2>1. c \in Nat /\ c \in DOMAIN cs /\ cs[c] = ofJoints  BY <1>1 DEF Alike
  <2> DEFINE js == With(c)
  <2>2. Gets(is, i, c, js)  BY <1>1, <2>1, WithController
  <2> HIDE DEF js
  <2>3. t.instances = js /\ t.controllers = cs /\ t.success  BY <1>6 DEF js, OutcomeType
  <2>4. t \in OutcomeType  BY <1>1, <1>6, <2>2 DEF js, Gets, OutcomeType
  <2>5. HasJoints(t, list, roots, i)  BY <2>1, <2>2, <2>3 DEF Gets, HasJoints
  <2> QED  BY <2>2, <2>3, <2>4, <2>5 DEF Gets, Tries, Extends
<1>7. ASSUME NEW written \in BOOLEAN,
             t = [instances |-> With(Len(made)), controllers |-> made, success |-> written]
      PROVE  Tries(s, t, list, i)
  <2> DEFINE c == Len(made)
             js == With(c)
             n == Len(cs)
  <2>0. n \in Nat /\ DOMAIN cs = 1..n  BY <1>1
  <2>1. /\ made \in Seq(Seq(objects)) /\ c = n + 1 /\ DOMAIN made = 1..n + 1
        /\ made[n + 1] = ofJoints /\ \A d \in DOMAIN cs : made[d] = cs[d]
    <3> HIDE DEF ofJoints
    <3> QED  BY <1>1, <1>3
  <2> HIDE DEF made, n
  <2>2. c \in Nat /\ c \in DOMAIN made /\ made[c] = ofJoints  BY <2>0, <2>1
  <2> HIDE DEF c
  <2>3. Gets(is, i, c, js)  BY <1>1, <2>2, WithController
  <2>4. t = [instances |-> js, controllers |-> made, success |-> written]  BY <1>7 DEF c
  <2> HIDE DEF js
  <2>5. t.instances = js /\ t.controllers = made /\ t \in OutcomeType
    BY <2>1, <2>3, <2>4 DEF Gets, OutcomeType
  <2>6. HasJoints(t, list, roots, i)  BY <2>2, <2>3, <2>5 DEF Gets, HasJoints
  <2>7. Extends(s, t, list)
    <3>1. DOMAIN cs \subseteq DOMAIN made  BY <2>0, <2>1
    <3>2. \A d \in DOMAIN made \ DOMAIN cs : d = n + 1  BY <2>0, <2>1
    <3>3. \A d \in DOMAIN made \ DOMAIN cs : Len(made[d]) <= Len(list.names)
      BY <1>3, <2>1, <3>2
    <3> QED  BY <2>1, <2>5, <3>1, <3>3 DEF Extends
  <2> QED  BY <2>3, <2>5, <2>6, <2>7 DEF Gets, Tries
<1> QED  BY <1>4, <1>5, <1>6, <1>7

\* The variables before the loop
Start == [instances |-> instances, controllers |-> controllers, success |-> TRUE]

\* What the rounds so far did to instance j: k of them were done, and s is what they come to.
Fares(s, list, k, isLast, j) ==
    /\ s.instances[j].roots = instances[j].roots
    /\ j > k => s.instances[j] = instances[j]
    /\ \/ s.instances[j].controller = instances[j].controller
       \/ HasJoints(s, list, instances[j].roots, j)
    /\ ~ s.instances[j].listed => s.instances[j].controller # NoController
    /\ isLast /\ s.success /\ j <= k => s.instances[j].controller # NoController

After(s, list, k, isLast) ==
    /\ s \in OutcomeType /\ DOMAIN s.instances = DOMAIN instances
    /\ Extends(Start, s, list)
    /\ \A j \in DOMAIN instances : Fares(s, list, k, isLast, j)

\* Before the loop: an instance that is not listed any more has a controller.
Ready ==
    /\ instances \in Seq(InstanceType) /\ controllers \in Seq(Seq(objects))
    /\ \A j \in DOMAIN instances : ~ instances[j].listed => instances[j].controller # NoController

\* The entry of instance i is removed on success.
Removes(t, u, i) ==
    /\ u \in OutcomeType /\ DOMAIN u.instances = DOMAIN t.instances
    /\ u.controllers = t.controllers /\ u.success = t.success
    /\ u.instances[i].listed = ~ t.success
    /\ \A j \in DOMAIN t.instances : /\ u.instances[j].roots = t.instances[j].roots
                                     /\ u.instances[j].controller = t.instances[j].controller
                                     /\ j # i => u.instances[j] = t.instances[j]

LEMMA RemovesFacts ==
    ASSUME NEW t \in OutcomeType, NEW i \in DOMAIN t.instances
    PROVE  Removes(t, WithoutDone(t, i), i)
<1> DEFINE is == t.instances
           out == ~ t.success
           r == [is[i] EXCEPT !.listed = out]
           js == [is EXCEPT ![i] = r]
           u == [t EXCEPT !.instances = js]
<1>1. is \in Seq(InstanceType) /\ out \in BOOLEAN  BY DEF OutcomeType
<1>2. is[i] \in InstanceType /\ DOMAIN is = 1..Len(is) /\ Len(is) \in Nat
  <2> HIDE DEF is
  <2> QED  BY <1>1 DEF is
<1>3. WithoutDone(t, i) = u  BY DEF WithoutDone
<1> HIDE DEF out
<1>4. r \in InstanceType /\ r.controller = is[i].controller /\ r.roots = is[i].roots /\ r.listed = out
  BY <1>1, <1>2 DEF InstanceType
<1> HIDE DEF r
<1>5. js \in Seq(InstanceType) /\ DOMAIN js = DOMAIN is /\ js[i] = r
      /\ \A j \in DOMAIN is : j # i => js[j] = is[j]
  <2> HIDE DEF is
  <2> QED  BY <1>1, <1>2, <1>4 DEF is
<1> HIDE DEF js
<1>6. u \in OutcomeType /\ u.instances = js /\ u.controllers = t.controllers /\ u.success = t.success
  BY <1>5 DEF OutcomeType
<1> HIDE DEF u
<1>7. \A j \in DOMAIN is : js[j].roots = is[j].roots /\ js[j].controller = is[j].controller
  BY <1>4, <1>5
<1>8. u.instances[i].listed = ~ t.success  BY <1>4, <1>5, <1>6 DEF out
<1> QED  BY <1>3, <1>5, <1>6, <1>7, <1>8 DEF Removes

LEMMA ExtendsFurther ==
    ASSUME NEW s, NEW t, NEW list, Extends(Start, s, list), Extends(s, t, list)
    PROVE  Extends(Start, t, list)
<1>1. DOMAIN controllers \subseteq DOMAIN t.controllers
      /\ \A c \in DOMAIN controllers : t.controllers[c] = controllers[c]
  BY DEF Extends, Start
<1>2. ASSUME NEW c \in DOMAIN t.controllers \ DOMAIN controllers
      PROVE  Len(t.controllers[c]) <= Len(list.names)
  <2>1. CASE c \in DOMAIN s.controllers
    <3>1. t.controllers[c] = s.controllers[c]  BY <2>1 DEF Extends
    <3>2. Len(s.controllers[c]) <= Len(list.names)  BY <2>1, <1>2 DEF Extends, Start
    <3> QED  BY <3>1, <3>2
  <2>2. CASE c \notin DOMAIN s.controllers  BY <2>2, <1>2 DEF Extends
  <2> QED  BY <2>1, <2>2
<1> QED  BY <1>1, <1>2 DEF Extends, Start

LEMMA HasController ==
    ASSUME NEW s \in OutcomeType, NEW list, NEW roots, NEW j, HasJoints(s, list, roots, j)
    PROVE  s.instances[j].controller # NoController
<1>1. s.controllers \in Seq(Seq(objects))  BY DEF OutcomeType
<1>2. 0 \notin DOMAIN s.controllers  BY <1>1
<1> QED  BY <1>2 DEF HasJoints, NoController

\* A round that tries instance k, and one that does not, in the last loop
LEMMA TriedFacts ==
    ASSUME Scene, Ready, NEW list \in ListType, NEW isLast \in BOOLEAN, NEW k \in DOMAIN instances,
           NEW s, After(s, list, k - 1, isLast), NEW t, Tries(s, t, list, k),
           isLast => s.success, NEW u,
           IF isLast THEN u = t /\ t.instances[k].listed ELSE Removes(t, u, k)
    PROVE  After(u, list, k, isLast)
<1>0. k \in Nat /\ DOMAIN instances \subseteq Nat  BY DEF Ready
<1>1. s \in OutcomeType /\ DOMAIN s.instances = DOMAIN instances /\ Extends(Start, s, list)
      /\ \A j \in DOMAIN instances : Fares(s, list, k - 1, isLast, j)
  BY DEF After
<1>2. t \in OutcomeType /\ DOMAIN t.instances = DOMAIN instances /\ Extends(s, t, list)
  BY <1>1 DEF Tries
<1>3. u \in OutcomeType /\ DOMAIN u.instances = DOMAIN instances /\ u.controllers = t.controllers
      /\ u.success = t.success
      /\ \A j \in DOMAIN instances : /\ u.instances[j].roots = t.instances[j].roots
                                     /\ u.instances[j].controller = t.instances[j].controller
                                     /\ j # k => u.instances[j] = t.instances[j]
  <2>1. CASE isLast  BY <1>2, <2>1
  <2>2. CASE ~ isLast
    <3>1. Removes(t, u, k)  BY <2>2
    <3> QED  BY <1>2, <3>1 DEF Removes
  <2> QED  BY <2>1, <2>2
<1>4. Extends(Start, u, list)
  <2>1. Extends(Start, t, list)  BY <1>1, <1>2, ExtendsFurther
  <2> QED  BY <1>3, <2>1 DEF Extends
<1>5. ASSUME NEW j \in DOMAIN instances, j # k PROVE Fares(u, list, k, isLast, j)
  <2>1. u.instances[j] = s.instances[j]  BY <1>1, <1>3, <1>5 DEF Tries
  <2>2. j > k - 1 <=> j > k  BY <1>0, <1>5
  <2>3. j <= k => j <= k - 1  BY <1>0, <1>5
  <2>4. Fares(s, list, k - 1, isLast, j)  BY <1>1
  <2>5. HasJoints(s, list, instances[j].roots, j) => HasJoints(u, list, instances[j].roots, j)
    BY <1>2, <1>3, <2>1 DEF HasJoints, Extends
  <2>6. s.instances[j].controller = instances[j].controller \/ HasJoints(u, list, instances[j].roots, j)
    BY <2>4, <2>5 DEF Fares
  <2>7. isLast /\ u.success /\ j <= k => s.instances[j].controller # NoController
    BY <2>3, <2>4 DEF Fares
  <2>8. s.instances[j].roots = instances[j].roots /\ (j > k => s.instances[j] = instances[j])
        /\ (~ s.instances[j].listed => s.instances[j].controller # NoController)
    BY <2>2, <2>4 DEF Fares
  <2> QED  BY <2>1, <2>6, <2>7, <2>8 DEF Fares
<1>6. Fares(u, list, k, isLast, k)
  <2>1. s.instances[k] = instances[k]
    <3>1. k > k - 1  BY <1>0
    <3> QED  BY <1>1, <3>1 DEF Fares
  <2>2. u.instances[k].roots = instances[k].roots  BY <1>1, <1>3, <2>1 DEF Tries
  <2>3. \/ ~ u.success /\ u.instances[k].controller = instances[k].controller
        \/ HasJoints(u, list, instances[k].roots, k)
    <3>1. \/ ~ t.success /\ t.instances[k].controller = s.instances[k].controller
          \/ HasJoints(t, list, s.instances[k].roots, k)
      BY DEF Tries
    <3>2. HasJoints(t, list, instances[k].roots, k) => HasJoints(u, list, instances[k].roots, k)
      BY <1>3 DEF HasJoints
    <3> QED  BY <1>3, <2>1, <3>1, <3>2
  <2>4. HasJoints(u, list, instances[k].roots, k) => u.instances[k].controller # NoController
    BY <1>3, HasController
  <2>5. u.success => u.instances[k].controller # NoController  BY <2>3, <2>4
  <2>6. ~ u.instances[k].listed => u.success
    <3>1. CASE isLast  BY <3>1
    <3>2. CASE ~ isLast
      <4>1. Removes(t, u, k)  BY <3>2
      <4>2. u.instances[k].listed = ~ t.success /\ u.success = t.success  BY <4>1 DEF Removes
      <4> QED  BY <4>2
    <3> QED  BY <3>1, <3>2
  <2>7. ~ (k > k)  BY <1>0
  <2> QED  BY <2>2, <2>3, <2>5, <2>6, <2>7 DEF Fares
<1>7. \A j \in DOMAIN instances : Fares(u, list, k, isLast, j)  BY <1>5, <1>6
<1> QED  BY <1>3, <1>4, <1>7 DEF After

LEMMA RoundFacts ==
    ASSUME Scene, Ready, NEW list \in ListType, NEW isLast \in BOOLEAN, NEW k \in DOMAIN instances,
           NEW s, After(s, list, k - 1, isLast), NEW u \in Round(s, list, k, isLast)
    PROVE  After(u, list, k, isLast)
<1>1. s \in OutcomeType /\ DOMAIN s.instances = DOMAIN instances /\ Extends(Start, s, list)
      /\ \A j \in DOMAIN instances : Fares(s, list, k - 1, isLast, j)
  BY DEF After
<1>2. \A t \in CreateAndWriteSkinController(s, list, k) : Tries(s, t, list, k)
  BY <1>1, CreateFacts
<1>3. CASE ~ isLast
  <2>1. PICK t \in CreateAndWriteSkinController(s, list, k) : u = WithoutDone(t, k)
    BY <1>3 DEF Round
  <2>2. Tries(s, t, list, k)  BY <1>2
  <2>3. t \in OutcomeType /\ k \in DOMAIN t.instances  BY <1>1, <2>2 DEF Tries
  <2>4. Removes(t, u, k)  BY <2>1, <2>3, RemovesFacts
  <2> QED  BY <1>3, <2>2, <2>4, TriedFacts
<1>4. CASE isLast /\ s.success /\ s.instances[k].listed
  <2>1. Tries(s, u, list, k)  BY <1>2, <1>4 DEF Round
  <2>2. u.instances[k].listed  BY <1>1, <1>4, <2>1 DEF Tries
  <2> QED  BY <1>4, <2>1, <2>2, TriedFacts
<1>5. CASE isLast /\ ~ (s.success /\ s.instances[k].listed)
  <2>1. u = s  BY <1>5 DEF Round
  <2>0. k \in Nat /\ DOMAIN instances \subseteq Nat  BY DEF Ready
  <2>2. ASSUME NEW j \in DOMAIN instances PROVE Fares(s, list, k, isLast, j)
    <3>1. Fares(s, list, k - 1, isLast, j)  BY <1>1
    <3>2. j > k => j > k - 1  BY <2>0
    <3>3. j <= k => j <= k - 1 \/ j = k  BY <2>0
    <3>4. s.success => ~ s.instances[k].listed  BY <1>5
    <3>5. s.success /\ j <= k => s.instances[j].controller # NoController
      BY <1>5, <3>1, <3>3, <3>4 DEF Fares
    <3> QED  BY <3>1, <3>2, <3>5 DEF Fares
  <2> QED  BY <1>1, <2>1, <2>2 DEF After
<1> QED  BY <1>3, <1>4, <1>5

Fit == {s \in OutcomeType : DOMAIN s.instances = DOMAIN instances}

LEMMA RoundFits ==
    ASSUME Scene, NEW list \in ListType, NEW isLast \in BOOLEAN, NEW k \in DOMAIN instances,
           NEW s \in Fit, NEW u \in Round(s, list, k, isLast)
    PROVE  u \in Fit
<1>1. s \in OutcomeType /\ k \in DOMAIN s.instances /\ DOMAIN s.instances = DOMAIN instances
  BY DEF Fit
<1>2. ASSUME NEW t \in CreateAndWriteSkinController(s, list, k)
      PROVE  t \in Fit /\ WithoutDone(t, k) \in Fit
  <2>1. Tries(s, t, list, k)  BY <1>1, CreateFacts
  <2>2. t \in OutcomeType /\ DOMAIN t.instances = DOMAIN instances  BY <1>1, <2>1 DEF Tries
  <2>3. Removes(t, WithoutDone(t, k), k)  BY <2>2, RemovesFacts
  <2> QED  BY <2>2, <2>3 DEF Removes, Fit
<1> QED  BY <1>2 DEF Round

\* Every outcome of a loop is what all its rounds come to.
LEMMA OutcomesFacts ==
    ASSUME Scene, Ready, NEW list \in ListType, NEW isLast \in BOOLEAN, NEW u \in Outcomes(list, isLast)
    PROVE  After(u, list, Len(instances), isLast)
<1> DEFINE n == Len(instances)
           R(k, S) == UNION {Round(s, list, k, isLast) : s \in S}
           Body(f) == [i \in 0..n |->
                         IF i = 0
                         THEN {[instances |-> instances, controllers |-> controllers, success |-> TRUE]}
                         ELSE UNION {Round(s, list, i, isLast) : s \in f[i - 1]}]
           after == CHOOSE f : f = Body(f)
           Values == SUBSET Fit
           first == {Start}
           step == [p \in (1..n) \X Values |-> R(p[1], p[2])]
<1>1. n \in Nat /\ DOMAIN instances = 1..n  BY DEF Ready
<1>2. u \in after[n]  BY DEF Outcomes
<1>3. \A f : Body(f) = [i \in 0..n |-> IF i = 0 THEN first ELSE R(i, f[i - 1])]
  BY DEF Start
<1>4. first \in Values
  <2>1. Start \in OutcomeType /\ Start.instances = instances  BY DEF Start, Ready, OutcomeType
  <2> QED  BY <2>1 DEF Fit
<1>5. \A k \in 1..n : \A S \in Values : R(k, S) \in Values  BY <1>1, RoundFits
<1> HIDE DEF R, first, Body, Values, n
<1>6. \A k \in 1..n : \A S \in Values : step[<<k, S>>] = R(k, S)  OBVIOUS
<1> HIDE DEF step
<1>7. PICK f : Counts(n, first, step, f)  BY <1>1, CountExists
<1>8. f[0] = first /\ \A k \in 1..n : f[k] = step[<<k, f[k - 1]>>]
  <2>1. 0 \in 0..n /\ \A k \in 1..n : k \in 0..n /\ k # 0  BY <1>1
  <2> QED  BY <1>7, <2>1 DEF Counts
<1>9. \A k \in 0..n : f[k] \in Values
  <2> SUFFICES ASSUME NEW k \in 0..n PROVE f[k] \in Values  OBVIOUS
  <2> DEFINE good == [j \in 0..k |-> Values]
  <2>1. good[0] = Values /\ good[k] = Values
        /\ \A j \in 1..k : good[j] = Values /\ good[j - 1] = Values /\ j \in 1..n
    BY <1>1
  <2> HIDE DEF good
  <2>2. f[0] \in good[0]  BY <1>4, <1>8, <2>1
  <2>3. ASSUME NEW j \in 1..k, f[j - 1] \in good[j - 1] PROVE f[j] \in good[j]
    <3>1. j \in 1..n /\ f[j - 1] \in Values  BY <2>1, <2>3
    <3>2. f[j] = R(j, f[j - 1])  BY <1>6, <1>8, <3>1
    <3>3. f[j] \in Values  BY <1>5, <3>1, <3>2
    <3> QED  BY <2>1, <3>3
  <2>4. k \in Nat  BY <1>1
  <2>5. f[k] \in good[k]  BY <2>2, <2>3, <2>4, CountKeeps
  <2> QED  BY <2>1, <2>5
<1>10. f = Body(f)
  <2>1. f = [k \in 0..n |-> f[k]]  BY <1>7 DEF Counts
  <2>2. ASSUME NEW k \in 0..n PROVE f[k] = Body(f)[k]
    <3>1. Body(f)[k] = IF k = 0 THEN first ELSE R(k, f[k - 1])  BY <1>3
    <3>2. k # 0 => k \in 1..n /\ k - 1 \in 0..n  BY <1>1
    <3> QED  BY <1>6, <1>8, <1>9, <3>1, <3>2
  <2>3. Body(f) = [k \in 0..n |-> Body(f)[k]]  BY DEF Body
  <2>4. f = [k \in 0..n |-> Body(f)[k]]  BY <2>1, <2>2, Zenon
  <2> QED  BY <2>3, <2>4
<1>11. after = Body(after)  BY <1>10
<1> HIDE DEF after
<1>12. after[0] = first /\ \A k \in 1..n : after[k] = R(k, after[k - 1])
  <2>1. 0 \in 0..n /\ \A k \in 1..n : k \in 0..n /\ k # 0  BY <1>1
  <2> QED  BY <1>3, <1>11, <2>1
<1> DEFINE G(k) == {s \in Fit : After(s, list, k, isLast)}
           good == [k \in 0..n |-> SUBSET G(k)]
<1>13. \A k \in 0..n : good[k] = SUBSET G(k)  OBVIOUS
<1>14. after[0] \in SUBSET G(0)
  <2>1. Start \in OutcomeType /\ Start.instances = instances /\ Start.controllers = controllers
    BY DEF Start, Ready, OutcomeType
  <2>2. Extends(Start, Start, list)  BY DEF Extends
  <2>3. ASSUME NEW j \in DOMAIN instances PROVE Fares(Start, list, 0, isLast, j)
    <3>1. ~ (j <= 0)  BY <1>1
    <3> QED  BY <2>1, <3>1 DEF Fares, Ready
  <2>4. After(Start, list, 0, isLast)  BY <2>1, <2>2, <2>3 DEF After
  <2> QED  BY <1>12, <2>1, <2>4 DEF first, Fit
<1>15. ASSUME NEW k \in 1..n, after[k - 1] \in SUBSET G(k - 1) PROVE after[k] \in SUBSET G(k)
  <2>1. k \in DOMAIN instances  BY <1>1
  <2>2. ASSUME NEW s \in after[k - 1], NEW t \in Round(s, list, k, isLast) PROVE t \in G(k)
    <3>1. s \in Fit /\ After(s, list, k - 1, isLast)  BY <1>15
    <3>2. t \in Fit  BY <2>1, <3>1, RoundFits
    <3>3. After(t, list, k, isLast)  BY <2>1, <3>1, RoundFacts
    <3> QED  BY <3>2, <3>3
  <2> HIDE DEF G
  <2> QED  BY <1>12, <2>2 DEF R
<1> HIDE DEF good, G
<1>16. 0 \in 0..n /\ n \in 0..n /\ \A k \in 1..n : k \in 0..n /\ k - 1 \in 0..n  BY <1>1
<1>17. after[0] \in good[0] /\ \A k \in 1..n : after[k - 1] \in good[k - 1] => after[k] \in good[k]
  BY <1>13, <1>14, <1>15, <1>16
<1>18. after[n] \in good[n]  BY <1>1, <1>17, CountKeeps
<1>19. u \in G(n)  BY <1>2, <1>13, <1>16, <1>18
<1> QED  BY <1>19 DEF G, n

\* The joints of a controller are what the names mean.
LEMMA JointsMeant ==
    ASSUME Scene, NEW list \in ListType, NEW instance \in InstanceType
    PROVE  JointsAreMeant(instance, list, Joints(list, instance.roots))
<1> DEFINE n == Len(list.names)
           roots == instance.roots
           js == Joints(list, roots)
           kept == KeptNames(list, roots, n)
<1>1. roots \in Seq(Id)  BY SkinAssumption DEF InstanceType
<1>2. n \in Nat /\ DOMAIN list.names = 1..n /\ \A k \in 1..n : list.names[k] \in Id \union Sid
  <2>1. list.names \in Seq(Id \union Sid)  BY DEF ListType
  <2> QED  BY <2>1
<1>3. JointsUpTo(list, roots, n, js)  BY <1>1, JointsFacts
<1>4. kept \in SUBSET DOMAIN list.names  BY <1>2 DEF KeptNames
<1>5. Cardinality(kept) = Len(js)  BY <1>3 DEF JointsUpTo
<1>6. ASSUME NEW k \in kept
      PROVE  js[Cardinality({l \in kept : l <= k})]
                \in objects \intersect Meanings(list, instance.roots, list.names[k])
  <2>1. {l \in kept : l <= k} = KeptNames(list, roots, k)  BY <1>2, <1>4 DEF KeptNames
  <2>2. js[Cardinality(KeptNames(list, roots, k))] = Joint(list, roots, list.names[k])
    BY <1>3 DEF JointsUpTo
  <2>3. Joint(list, roots, list.names[k]) # NoNode  BY DEF KeptNames
  <2>4. list.names[k] \in Id \union Sid  BY <1>2, <1>4
  <2>5. Joint(list, roots, list.names[k]) \in objects \intersect Meanings(list, roots, list.names[k])
    BY <1>1, <2>3, <2>4, JointIsMeant
  <2> QED  BY <2>1, <2>2, <2>5
<1>7. ASSUME NEW k \in DOMAIN list.names, Found(list, instance.roots, list.names[k])
      PROVE  k \in kept
  <2>1. list.names[k] \in Id \union Sid /\ k \in 1..n  BY <1>2
  <2>2. Joint(list, roots, list.names[k]) # NoNode  BY <1>1, <1>7, <2>1, JointIsMeant
  <2> QED  BY <2>1, <2>2 DEF KeptNames
<1> HIDE DEF kept, js
<1>8. JointsAreMeant(instance, list, js)  BY <1>4, <1>5, <1>6, <1>7 DEF JointsAreMeant
<1> QED  BY <1>8 DEF js

-----------------------------------------------------------------------------
(* The invariant, and what follows from it.                                *)

\* Instances have controllers that were made, and controllers no more joints than the skin names;
\* there are none before the skin.
ControllersAreMade ==
    /\ \A j \in DOMAIN instances : instances[j].controller \in DOMAIN controllers \union {NoController}
    /\ \A c \in DOMAIN controllers : Len(controllers[c]) <= Len(joints.names)
    /\ source = "none" => controllers = << >>

\* Joints are nodes of the scene, which stand for no other element.
ObjectsAreNodes == objects \subseteq Node /\ \A n \in objects : tree[n].url = None

\* The inductive invariant of the skin's variables; IInv and IdsHaveNoUrl are that of the tree.
SkinInv ==
    /\ Ready /\ ObjectsAreNodes /\ ControllersAreMade /\ EveryInstanceHasAController
    /\ source \in {"none", "unknown", "known"} /\ joints \in JointLists \union {EmptyJoints}
    /\ loading \in {"files", "aborted", "done", "failed", "no source"}

\* The names of the skin, or none
LEMMA ListsAreTyped == JointLists \union {EmptyJoints} \subseteq ListType
<1>1. EmptyJoints \in ListType
  <2>1. << >> \in Seq(Id \union Sid)  OBVIOUS
  <2> QED  BY <2>1 DEF EmptyJoints, ListType
<1> QED  BY <1>1, SkinAssumption DEF ListType

\* The invariant holds before the files, and every step keeps it.
LEMMA SkinInitInvariant == SkinInit => SkinInv
<1> SUFFICES ASSUME SkinInit PROVE SkinInv  OBVIOUS
<1>1. /\ objects = {} /\ source = "none" /\ joints = EmptyJoints
      /\ instances = << >> /\ controllers = << >> /\ loading = "files"
  BY DEF SkinInit
<1>2. << >> \in Seq(InstanceType) /\ << >> \in Seq(Seq(objects)) /\ DOMAIN << >> = {}  OBVIOUS
<1> QED  BY <1>1, <1>2 DEF SkinInv, Ready, ObjectsAreNodes, ControllersAreMade, EveryInstanceHasAController

\* A loop over the instances, with the joints of a list
LEMMA LoopPreserves ==
    ASSUME IInv, IdsHaveNoUrl, SkinInv, NEW list \in ListType, list = joints',
           list = joints \/ source = "none", source' # "none",
           UNCHANGED objects, NEW isLast \in BOOLEAN, NEW s \in Outcomes(list, isLast), Becomes(s)
    PROVE  /\ Ready' /\ ControllersAreMade'
           /\ DOMAIN instances' = DOMAIN instances
           /\ \A j \in DOMAIN instances : Fares(s, list, Len(instances), isLast, j)
<1>1. Scene /\ Ready  BY DEF SkinInv, ObjectsAreNodes, Scene
<1>2. After(s, list, Len(instances), isLast)  BY <1>1, OutcomesFacts
<1>3. s \in OutcomeType /\ DOMAIN s.instances = DOMAIN instances /\ Extends(Start, s, list)
      /\ \A j \in DOMAIN instances : Fares(s, list, Len(instances), isLast, j)
  BY <1>2 DEF After
<1>4. instances' = s.instances /\ controllers' = s.controllers  BY DEF Becomes
<1>5. Ready'
  <2>1. s.instances \in Seq(InstanceType) /\ s.controllers \in Seq(Seq(objects))
    BY <1>3 DEF OutcomeType
  <2>2. \A j \in DOMAIN instances : ~ s.instances[j].listed => s.instances[j].controller # NoController
    BY <1>3 DEF Fares
  <2> QED  BY <1>3, <1>4, <2>1, <2>2 DEF Ready
<1>6. /\ DOMAIN controllers \subseteq DOMAIN controllers'
      /\ \A c \in DOMAIN controllers : controllers'[c] = controllers[c]
      /\ \A c \in DOMAIN controllers' \ DOMAIN controllers : Len(controllers'[c]) <= Len(list.names)
  BY <1>3, <1>4 DEF Extends, Start
<1>7. ControllersAreMade'
  <2>1. ASSUME NEW j \in DOMAIN instances'
        PROVE  instances'[j].controller \in DOMAIN controllers' \union {NoController}
    <3>1. j \in DOMAIN instances  BY <1>3, <1>4
    <3>2. \/ s.instances[j].controller = instances[j].controller
          \/ HasJoints(s, list, instances[j].roots, j)
      BY <1>3, <3>1 DEF Fares
    <3>3. instances[j].controller \in DOMAIN controllers \union {NoController}
      BY <3>1 DEF SkinInv, ControllersAreMade
    <3> QED  BY <1>4, <1>6, <3>2, <3>3 DEF HasJoints
  <2>2. ASSUME NEW c \in DOMAIN controllers' PROVE Len(controllers'[c]) <= Len(joints'.names)
    <3>1. CASE c \in DOMAIN controllers
      <4>1. list = joints
        <5>1. source # "none"
          <6>1. source = "none" => controllers = << >>  BY DEF SkinInv, ControllersAreMade
          <6> QED  BY <3>1, <6>1
        <5> QED  BY <5>1
      <4>2. Len(controllers[c]) <= Len(joints.names)  BY <3>1 DEF SkinInv, ControllersAreMade
      <4> QED  BY <1>6, <3>1, <4>1, <4>2
    <3>2. CASE c \notin DOMAIN controllers  BY <1>6, <2>2, <3>2
    <3> QED  BY <3>1, <3>2
  <2> QED  BY <2>1, <2>2 DEF ControllersAreMade
<1> QED  BY <1>3, <1>4, <1>5, <1>7

LEMMA SkinNextPreserves == IInv /\ IInv' /\ IdsHaveNoUrl /\ SkinInv /\ [SkinNext]_allVars => SkinInv'
<1> SUFFICES ASSUME IInv, IInv', IdsHaveNoUrl, SkinInv, [SkinNext]_allVars PROVE SkinInv'
  OBVIOUS
<1>0. /\ Ready /\ ObjectsAreNodes /\ ControllersAreMade /\ EveryInstanceHasAController
      /\ source \in {"none", "unknown", "known"} /\ joints \in JointLists \union {EmptyJoints}
      /\ loading \in {"files", "aborted", "done", "failed", "no source"}
  BY DEF SkinInv
<1>1. CASE UNCHANGED allVars
  BY <1>0, <1>1 DEF allVars, vars, skinVars, SkinInv, Ready, ObjectsAreNodes, ControllersAreMade,
     EveryInstanceHasAController, Node
<1>2. ASSUME NEW id \in Id \union {None}, NEW s \in Sid \union {None},
             NEW url \in Id \union {None}, NEW isNode \in BOOLEAN,
             ReadElement(id, s, url, isNode)
      PROVE  SkinInv'
  <2> DEFINE n == Len(tree) + 1
             r == [sid |-> s, parent |-> current,
                   above |-> tree[current].above \union {current}, url |-> url]
  <2>1. tree' = Append(tree, r) /\ current' = n  BY <1>2 DEF ReadElement, AddToSidTree
  <2>2. tree \in Seq(NodeType) /\ Node = 1..Len(tree) /\ Len(tree) \in Nat
    BY DEF IInv, TypeOK, NodeType, Node
  <2>3. r.url = url  OBVIOUS
  <2> HIDE DEF r
  <2>4. Node' = Node \union {n} /\ tree'[n] = r /\ \A m \in Node : tree'[m] = tree[m]
    <3>1. tree' \in Seq(NodeType)  BY DEF IInv, TypeOK, NodeType
    <3>2. DOMAIN tree' = 1..n /\ tree'[n] = r /\ \A m \in 1..Len(tree) : tree'[m] = tree[m]
      BY <2>1, <2>2
    <3> QED  BY <2>2, <3>2 DEF Node
  <2>5. objects' = IF isNode THEN objects \union {n} ELSE objects  BY <1>2, <2>1 DEF ReadElement
  <2>6. isNode => url = None  BY <1>2 DEF ReadElement
  <2>7. ObjectsAreNodes'
    <3> HIDE DEF n
    <3> QED  BY <1>0, <2>3, <2>4, <2>5, <2>6 DEF ObjectsAreNodes
  <2>8. UNCHANGED <<source, joints, instances, controllers, loading>>  BY <1>2 DEF ReadElement
  <2>9. Ready'
    <3>1. controllers \in Seq(Seq(objects'))
      <4> DEFINE O == objects'
      <4>1. controllers \in Seq(Seq(objects)) /\ objects \subseteq O  BY <1>0, <2>5 DEF Ready
      <4> HIDE DEF O
      <4>2. Seq(objects) \subseteq Seq(O)  BY <4>1
      <4>3. \A c \in 1..Len(controllers) : controllers[c] \in Seq(O)  BY <4>1, <4>2
      <4> DEFINE Q == Seq(O)
      <4> HIDE DEF Q
      <4>4. controllers \in Seq(Q)  BY <4>1, <4>3 DEF Q
      <4> QED  BY <4>4 DEF Q, O
    <3> QED  BY <1>0, <2>8, <3>1 DEF Ready
  <2> QED  BY <1>0, <2>7, <2>8, <2>9 DEF SkinInv, ControllersAreMade, EveryInstanceHasAController
<1>3. CASE EndElement
  BY <1>0, <1>3 DEF EndElement, MoveUpInSidTree, skinVars, SkinInv, Ready, ObjectsAreNodes,
     ControllersAreMade, EveryInstanceHasAController, Node
<1>4. ASSUME NEW roots \in RootLists, BeginInstanceController(roots)
      PROVE  SkinInv'
  <2> DEFINE r == [roots |-> roots, controller |-> NoController, listed |-> TRUE]
             n == Len(instances) + 1
  <2>1. instances' = Append(instances, r) /\ loading = "files"
        /\ UNCHANGED <<vars, objects, source, joints, controllers, loading>>
    BY <1>4 DEF BeginInstanceController, Reading
  <2>2. r \in InstanceType /\ r.controller = NoController /\ r.listed  BY DEF InstanceType, NoController
  <2> HIDE DEF r
  <2>3. instances \in Seq(InstanceType)  BY <1>0 DEF Ready
  <2>4. /\ instances' \in Seq(InstanceType) /\ DOMAIN instances' = DOMAIN instances \union {n}
        /\ instances'[n] = r /\ \A j \in DOMAIN instances : instances'[j] = instances[j]
    BY <2>1, <2>2, <2>3
  <2> HIDE DEF n
  <2>5. Ready'  BY <1>0, <2>1, <2>2, <2>4 DEF Ready
  <2>6. ControllersAreMade'  BY <1>0, <2>1, <2>2, <2>4 DEF ControllersAreMade
  <2>7. ObjectsAreNodes'  BY <1>0, <2>1 DEF ObjectsAreNodes, Node, vars
  <2>8. EveryInstanceHasAController'  BY <2>1 DEF EveryInstanceHasAController
  <2> QED  BY <1>0, <2>1, <2>5, <2>6, <2>7, <2>8 DEF SkinInv
<1>5. ASSUME NEW list \in JointLists, NEW isKnown \in BOOLEAN, BeginInputJoint(list, isKnown)
      PROVE  SkinInv'
  <2>1. /\ loading = "files" /\ source = "none" /\ joints' = list /\ source' \in {"known", "unknown"}
        /\ UNCHANGED <<vars, objects, loading>>
        /\ IF isKnown THEN \E s \in Outcomes(list, FALSE) : Becomes(s)
           ELSE UNCHANGED <<instances, controllers>>
    BY <1>5 DEF BeginInputJoint, Reading
  <2>2. list \in ListType  BY ListsAreTyped
  <2>3. Ready' /\ ControllersAreMade'
    <3>1. CASE isKnown
      <4>1. PICK s \in Outcomes(list, FALSE) : Becomes(s)  BY <2>1, <3>1
      <4>2. source' # "none"  BY <2>1
      <4> QED  BY <2>1, <2>2, <4>1, <4>2, LoopPreserves
    <3>2. CASE ~ isKnown
      <4>1. controllers = << >> /\ UNCHANGED <<instances, controllers, objects>>
        BY <1>0, <2>1, <3>2 DEF ControllersAreMade
      <4>2. DOMAIN controllers = {}  BY <4>1
      <4> QED  BY <1>0, <2>1, <4>1, <4>2 DEF Ready, ControllersAreMade
    <3> QED  BY <3>1, <3>2
  <2>4. ObjectsAreNodes'  BY <1>0, <2>1 DEF ObjectsAreNodes, Node, vars
  <2>5. EveryInstanceHasAController'  BY <2>1 DEF EveryInstanceHasAController
  <2> QED  BY <1>0, <2>1, <2>3, <2>4, <2>5 DEF SkinInv
<1>6. CASE BeginInputJointMissing
  <2>1. /\ loading = "files" /\ source = "none" /\ source' \in {"known", "unknown"}
        /\ loading' \in {"files", "aborted"}
        /\ UNCHANGED <<vars, objects, joints, instances, controllers>>
    BY <1>6 DEF BeginInputJointMissing, Reading
  <2>2. ObjectsAreNodes'  BY <1>0, <2>1 DEF ObjectsAreNodes, Node, vars
  <2>3. Ready' /\ ControllersAreMade'  BY <1>0, <2>1 DEF Ready, ControllersAreMade
  <2>4. EveryInstanceHasAController'  BY <2>1 DEF EveryInstanceHasAController
  <2> QED  BY <1>0, <2>1, <2>2, <2>3, <2>4 DEF SkinInv
<1>7. CASE CreateAndWriteSkinControllers
  <2>1. /\ loading = "files" /\ UNCHANGED <<vars, objects, source, joints>>
        /\ \/ /\ source # "none"
              /\ \E s \in Outcomes(joints, TRUE) :
                    Becomes(s) /\ loading' = IF s.success THEN "done" ELSE "failed"
           \/ loading' = "no source" /\ UNCHANGED <<instances, controllers>>
    BY <1>7 DEF CreateAndWriteSkinControllers, Reading
  <2>2. ObjectsAreNodes'  BY <1>0, <2>1 DEF ObjectsAreNodes, Node, vars
  <2>3. CASE loading' = "no source" /\ UNCHANGED <<instances, controllers>>
    <3>1. Ready' /\ ControllersAreMade'  BY <1>0, <2>1, <2>3 DEF Ready, ControllersAreMade
    <3>2. EveryInstanceHasAController'  BY <2>3 DEF EveryInstanceHasAController
    <3> QED  BY <1>0, <2>1, <2>2, <2>3, <3>1, <3>2 DEF SkinInv
  <2>4. ASSUME source # "none", NEW s \in Outcomes(joints, TRUE), Becomes(s),
               loading' = IF s.success THEN "done" ELSE "failed"
        PROVE  SkinInv'
    <3>1. joints \in ListType /\ joints = joints' /\ source' # "none" /\ UNCHANGED objects
      BY <1>0, <2>1, <2>4, ListsAreTyped
    <3>2. /\ Ready' /\ ControllersAreMade' /\ DOMAIN instances' = DOMAIN instances
          /\ \A j \in DOMAIN instances : Fares(s, joints, Len(instances), TRUE, j)
      BY <2>4, <3>1, LoopPreserves
    <3>3. EveryInstanceHasAController'
      <4>1. SUFFICES ASSUME s.success, NEW j \in DOMAIN instances
                     PROVE  instances'[j].controller # NoController
        BY <2>4, <3>2 DEF EveryInstanceHasAController
      <4>2. j <= Len(instances)
        <5>1. instances \in Seq(InstanceType)  BY <1>0 DEF Ready
        <5> QED  BY <5>1
      <4>3. s.instances[j].controller # NoController  BY <3>2, <4>1, <4>2 DEF Fares
      <4> QED  BY <2>4, <4>3 DEF Becomes
    <3>4. loading' \in {"done", "failed"}  BY <2>4
    <3> QED  BY <1>0, <2>1, <2>2, <3>2, <3>3, <3>4 DEF SkinInv
  <2> QED  BY <2>1, <2>3, <2>4
<1> QED  BY <1>1, <1>2, <1>3, <1>4, <1>5, <1>6, <1>7 DEF SkinNext

LEMMA SkinInvariant == SkinSpec => [](IInv /\ IdsHaveNoUrl /\ SkinInv)
<1>1. SkinInit => IInv /\ IdsHaveNoUrl /\ SkinInv  BY InitInvariant, UrlsInit, SkinInitInvariant DEF SkinInit
<1>2. (IInv /\ IdsHaveNoUrl /\ SkinInv) /\ [SkinNext]_allVars => (IInv /\ IdsHaveNoUrl /\ SkinInv)'
  BY StepOfTheTree, NextPreserves, UrlsNext, SkinNextPreserves
<1> QED  BY <1>1, <1>2, PTL DEF SkinSpec

\* The types of what DocumentProcessor keeps for skins: controllers have joints that are nodes of
\* the scene, not more than the skin has names, and instances have controllers that were made.
THEOREM SkinTypesAreRight == SkinSpec => []SkinTypeOK
<1>1. SkinInv => SkinTypeOK
  <2> SUFFICES ASSUME SkinInv PROVE SkinTypeOK  OBVIOUS
  <2>1. \A j \in DOMAIN instances : instances[j].roots \in RootLists
    <3>1. instances \in Seq(InstanceType)  BY DEF SkinInv, Ready
    <3>2. \A j \in DOMAIN instances : instances[j] \in InstanceType  BY <3>1
    <3> QED  BY <3>2 DEF InstanceType
  <2>2. \A c \in DOMAIN controllers : controllers[c] \in Seq(objects)
    <3>1. controllers \in Seq(Seq(objects))  BY DEF SkinInv, Ready
    <3> HIDE DEF SkinInv
    <3> QED  BY <3>1
  <2> QED  BY <2>1, <2>2 DEF SkinInv, ObjectsAreNodes, ControllersAreMade, SkinTypeOK
<1> QED  BY <1>1, SkinInvariant, PTL

\* createAndWriteSkinControllers() returns true only if every instance of the skin has a controller,
\* whatever the error handler and the writer answered, and whenever the instances were read.
THEOREM DoneIsComplete == SkinSpec => []EveryInstanceHasAController
<1>1. SkinInv => EveryInstanceHasAController  BY DEF SkinInv
<1> QED  BY <1>1, SkinInvariant, PTL

\* What a step does to the joints of the instances
GivesTheirJoints ==
    \A i \in DOMAIN instances :
        instances'[i].controller # instances[i].controller =>
            JointsAreMeant(instances[i], joints', controllers'[instances'[i].controller])

\* A loop gives an instance only a controller with the joints that the list means for it.
LEMMA LoopGivesJoints ==
    ASSUME IInv, IdsHaveNoUrl, SkinInv, NEW list \in ListType, list = joints',
           NEW isLast \in BOOLEAN, NEW s \in Outcomes(list, isLast), Becomes(s)
    PROVE  GivesTheirJoints
<1>1. Scene /\ Ready  BY DEF SkinInv, ObjectsAreNodes, Scene
<1>2. After(s, list, Len(instances), isLast)  BY <1>1, OutcomesFacts
<1>3. ASSUME NEW i \in DOMAIN instances, instances'[i].controller # instances[i].controller
      PROVE  JointsAreMeant(instances[i], list, controllers'[instances'[i].controller])
  <2>1. instances[i] \in InstanceType  BY <1>1 DEF Ready
  <2>2. HasJoints(s, list, instances[i].roots, i)  BY <1>2, <1>3 DEF After, Fares, Becomes
  <2>3. controllers'[instances'[i].controller] = Joints(list, instances[i].roots)
    BY <2>2 DEF HasJoints, Becomes
  <2>4. JointsAreMeant(instances[i], list, Joints(list, instances[i].roots))
    BY <1>1, <2>1, JointsMeant
  <2> QED  BY <2>3, <2>4
<1> QED  BY <1>3 DEF GivesTheirJoints

\* The controller that an instance gets has the joints that the skin's names mean below the roots of
\* this instance, in their order, with none missing that can only be one node: for any tree, any
\* number of instances, names and roots, and also if the controller was made for another instance.
THEOREM JointsAreRight == SkinSpec => InstancesGetTheirJoints
<1>1. IInv /\ IdsHaveNoUrl /\ SkinInv /\ [SkinNext]_allVars => [GivesTheirJoints]_allVars
  <2> SUFFICES ASSUME IInv, IdsHaveNoUrl, SkinInv, SkinNext PROVE GivesTheirJoints  OBVIOUS
  <2>1. ASSUME UNCHANGED instances PROVE GivesTheirJoints  BY <2>1 DEF GivesTheirJoints
  <2>2. ASSUME NEW id \in Id \union {None}, NEW s \in Sid \union {None},
               NEW url \in Id \union {None}, NEW isNode \in BOOLEAN,
               ReadElement(id, s, url, isNode)
        PROVE  GivesTheirJoints
    BY <2>1, <2>2 DEF ReadElement
  <2>3. CASE EndElement  BY <2>1, <2>3 DEF EndElement, skinVars
  <2>4. ASSUME NEW roots \in RootLists, BeginInstanceController(roots)
        PROVE  GivesTheirJoints
    <3> DEFINE r == [roots |-> roots, controller |-> NoController, listed |-> TRUE]
    <3>1. instances' = Append(instances, r)  BY <2>4 DEF BeginInstanceController
    <3>2. instances \in Seq(InstanceType)  BY DEF SkinInv, Ready
    <3> HIDE DEF r
    <3>3. \A i \in DOMAIN instances : instances'[i] = instances[i]  BY <3>1, <3>2
    <3> QED  BY <3>3 DEF GivesTheirJoints
  <2>5. ASSUME NEW list \in JointLists, NEW isKnown \in BOOLEAN, BeginInputJoint(list, isKnown)
        PROVE  GivesTheirJoints
    <3>1. list \in ListType /\ list = joints'  BY <2>5, ListsAreTyped DEF BeginInputJoint
    <3>2. CASE isKnown
      <4>1. PICK s \in Outcomes(list, FALSE) : Becomes(s)  BY <2>5, <3>2 DEF BeginInputJoint
      <4> QED  BY <3>1, <4>1, LoopGivesJoints
    <3>3. CASE ~ isKnown  BY <2>1, <2>5, <3>3 DEF BeginInputJoint
    <3> QED  BY <3>2, <3>3
  <2>6. CASE BeginInputJointMissing  BY <2>1, <2>6 DEF BeginInputJointMissing
  <2>7. CASE CreateAndWriteSkinControllers
    <3>1. joints \in ListType /\ joints = joints'
      BY <2>7, ListsAreTyped DEF CreateAndWriteSkinControllers, SkinInv
    <3>2. (\E s \in Outcomes(joints, TRUE) : Becomes(s)) \/ UNCHANGED instances
      BY <2>7 DEF CreateAndWriteSkinControllers
    <3>3. ASSUME NEW s \in Outcomes(joints, TRUE), Becomes(s) PROVE GivesTheirJoints
      BY <3>1, <3>3, LoopGivesJoints
    <3> QED  BY <2>1, <3>2, <3>3
  <2> QED  BY <2>2, <2>3, <2>4, <2>5, <2>6, <2>7 DEF SkinNext
<1> QED  BY <1>1, SkinInvariant, PTL DEF SkinSpec, InstancesGetTheirJoints, GivesTheirJoints
=============================================================================

----------------------------- MODULE MeshProofs -----------------------------
(***************************************************************************)
(* The primitives of a mesh, for any sources with any strides, any inputs  *)
(* and texts of any length: the counters of MeshLoader are consistent, an  *)
(* index leads into its source, if that is Plain, and the index lists of a *)
(* primitive are the vertices of its text, but for lists of tangents and   *)
(* binormals if a strip was taken back.                                    *)
(*                                                                         *)
(* Handlers are taken one at a time.  Consistent is about the types and    *)
(* counters; Shape, CountsFit, Fresh, PositionsFirst, ListsFit, NoResult   *)
(* and ResultFits say, in the middle of a text too, how the members of     *)
(* MeshLoader follow from the part of the text that has been read.         *)
(***************************************************************************)
EXTENDS Mesh, SequenceTheorems, WellFoundedInduction, TLAPS

-----------------------------------------------------------------------------
(* Recursive functions                                                     *)

\* A set of naturals that is not empty has a least element.
LEMMA Smallest ==
    ASSUME NEW N \in SUBSET Nat, N # {}
    PROVE  \E m \in N : \A n \in N : m <= n
<1>1. PICK m \in N : \A n \in N : ~ (<<n, m>> \in OpToRel(<, Nat))
  BY WFMin, NatLessThanWellFounded
<1>2. \A n \in Nat : n < m => <<n, m>> \in OpToRel(<, Nat)  BY Zenon DEF OpToRel
<1>3. \A n \in N : ~ (n < m)  BY <1>1, <1>2, Zenon
<1> QED  BY <1>3

LEMMA MinFacts ==
    ASSUME NEW N \in SUBSET Nat, N # {}
    PROVE  Min(N) \in N /\ \A n \in N : Min(N) <= n
BY Smallest DEF Min

\* Functions of 0 .. n that begin alike and go on alike are alike.
GoAlike(n, f, g) == f[0] = g[0] /\ \A k \in 1 .. n : f[k - 1] = g[k - 1] => f[k] = g[k]
LEMMA GoOnAlike ==
    ASSUME NEW n \in Nat, NEW f, NEW g, GoAlike(n, f, g)
    PROVE  \A k \in 0 .. n : f[k] = g[k]
<1> DEFINE Bad == {k \in 0 .. n : f[k] # g[k]}
<1>1. SUFFICES ASSUME Bad # {} PROVE FALSE  OBVIOUS
<1>2. PICK k \in Bad : \A m \in Bad : k <= m
  <2>1. Bad \in SUBSET Nat  OBVIOUS
  <2> HIDE DEF Bad
  <2> QED  BY <1>1, <2>1, Smallest
<1>3. k \in 0 .. n /\ f[k] # g[k] /\ k # 0  BY <1>2 DEF GoAlike
<1>4. k \in 1 .. n /\ k - 1 \in 0 .. n /\ ~ (k <= k - 1)  BY <1>3
<1>5. f[k - 1] = g[k - 1]  BY <1>2, <1>4
<1> QED  BY <1>3, <1>4, <1>5 DEF GoAlike

\* A loop of n rounds over values in V: f[k] is the value after round k.
Rounds(n, V, v, step, f) ==
    /\ f \in [0 .. n -> V] /\ f[0] = v
    /\ \A k \in 1 .. n : f[k] = step[<<k, f[k - 1]>>]

LEMMA RoundsExist ==
    ASSUME NEW n \in Nat, NEW V, NEW v \in V, NEW step \in [(1 .. n) \X V -> V]
    PROVE  \E f : Rounds(n, V, v, step, f)
<1> DEFINE Bad == {k \in 0 .. n : ~ \E f : Rounds(k, V, v, step, f)}
<1>1. SUFFICES ASSUME Bad # {} PROVE FALSE
  <2>1. n \in 0 .. n  OBVIOUS
  <2> QED  BY <1>1, <2>1
<1>2. PICK k \in Bad : \A m \in Bad : k <= m
  <2>1. Bad \in SUBSET Nat  OBVIOUS
  <2> HIDE DEF Bad
  <2> QED  BY <1>1, <2>1, Smallest
<1>3. k \in 0 .. n /\ ~ \E f : Rounds(k, V, v, step, f)  BY <1>2
<1>4. CASE k = 0
  <2> DEFINE f == [j \in 0 .. 0 |-> v]
  <2>1. f \in [0 .. 0 -> V] /\ f[0] = v /\ \A j \in 1 .. 0 : f[j] = step[<<j, f[j - 1]>>]
    OBVIOUS
  <2> HIDE DEF f
  <2>2. Rounds(0, V, v, step, f)  BY <2>1 DEF Rounds
  <2> QED  BY <1>3, <1>4, <2>2
<1>5. CASE k # 0
  <2>1. k \in 1 .. n /\ k - 1 \in 0 .. n /\ ~ (k <= k - 1)  BY <1>3, <1>5
  <2>2. PICK g : Rounds(k - 1, V, v, step, g)  BY <1>2, <2>1
  <2>3. g \in [0 .. k - 1 -> V] /\ g[0] = v
        /\ \A j \in 1 .. k - 1 : g[j] = step[<<j, g[j - 1]>>]
    BY <2>2 DEF Rounds
  <2> DEFINE f == [j \in 0 .. k |-> IF j = k THEN step[<<k, g[k - 1]>>] ELSE g[j]]
  <2>4. g[k - 1] \in V  BY <2>1, <2>3
  <2>5. step[<<k, g[k - 1]>>] \in V  BY <2>1, <2>4
  <2>6. /\ \A j \in 0 .. k - 1 : j \in 0 .. k /\ j # k
        /\ k \in 0 .. k /\ 0 \in 0 .. k - 1 /\ k - 1 \in 0 .. k - 1
        /\ \A j \in 1 .. k : j = k \/ (j \in 1 .. k - 1 /\ j - 1 \in 0 .. k - 1)
    BY <2>1
  <2>7. f[k] = step[<<k, g[k - 1]>>] /\ \A j \in 0 .. k - 1 : f[j] = g[j]  BY <2>6
  <2>8. f \in [0 .. k -> V]  BY <2>3, <2>5
  <2> HIDE DEF f
  <2>9. \A j \in 1 .. k : f[j] = step[<<j, f[j - 1]>>]
    <3> SUFFICES ASSUME NEW j \in 1 .. k PROVE f[j] = step[<<j, f[j - 1]>>]  OBVIOUS
    <3>1. CASE j = k  BY <2>6, <2>7, <3>1
    <3>2. CASE j # k
      <4>1. j \in 1 .. k - 1 /\ j - 1 \in 0 .. k - 1 /\ j \in 0 .. k - 1  BY <2>1, <3>2
      <4> QED  BY <2>3, <2>7, <4>1
    <3> QED  BY <3>1, <3>2
  <2>10. f[0] = v  BY <2>3, <2>6, <2>7
  <2> QED  BY <1>3, <2>8, <2>9, <2>10 DEF Rounds
<1> QED  BY <1>4, <1>5

-----------------------------------------------------------------------------
(* The lists of values                                                     *)

\* The number of values of a source
Size(s) == Stride[s] * Count[s]

LEMMA SizeType == \A s \in Sources : Size(s) \in Nat /\ Stride[s] \in Nat /\ Stride[s] > 0 /\ Count[s] \in Nat
<1> SUFFICES ASSUME NEW s \in Sources
             PROVE  Size(s) \in Nat /\ Stride[s] \in Nat /\ Stride[s] > 0 /\ Count[s] \in Nat
  OBVIOUS
<1>1. Stride[s] \in Nat \ {0} /\ Count[s] \in Nat  BY MeshAssumption
<1>2. \A a, b \in Nat : a * b \in Nat  OBVIOUS
<1> QED  BY <1>1, <1>2 DEF Size

\* The sums of the sizes of a list's sources
LEMMA ValuesUpToFacts ==
    ASSUME NEW list \in Seq(Sources)
    PROVE  /\ ValuesUpTo(list) \in [0 .. Len(list) -> Nat] /\ ValuesUpTo(list)[0] = 0
           /\ \A k \in 1 .. Len(list) : ValuesUpTo(list)[k] = ValuesUpTo(list)[k - 1] + Size(list[k])
<1> DEFINE n == Len(list)
           V == Nat
           R(k, x) == x + Size(list[k])
           step == [y \in (1 .. n) \X V |-> R(y[1], y[2])]
           Body(g) == [k \in 0 .. n |-> IF k = 0 THEN 0 ELSE g[k - 1] + Stride[list[k]] * Count[list[k]]]
           X == ValuesUpTo(list)
<1>1. n \in Nat /\ 0 \in V  OBVIOUS
<1>2. \A k \in 1 .. n, x \in V : R(k, x) \in V
  <2>1. \A k \in 1 .. n : list[k] \in Sources  OBVIOUS
  <2> HIDE DEF n
  <2> QED  BY <2>1, SizeType
<1>3. step \in [(1 .. n) \X V -> V]
  <2> HIDE DEF n, V, R
  <2> QED  BY <1>2
<1>4. PICK f : Rounds(n, V, 0, step, f)
  <2> HIDE DEF n, V, step
  <2> QED  BY <1>1, <1>3, RoundsExist
<1>5. f \in [0 .. n -> V] /\ f[0] = 0 /\ \A k \in 1 .. n : f[k] = step[<<k, f[k - 1]>>]
  <2> HIDE DEF n, V, step
  <2> QED  BY <1>4 DEF Rounds
<1>6. \A k \in 1 .. n : f[k] = R(k, f[k - 1])
  <2> SUFFICES ASSUME NEW k \in 1 .. n PROVE f[k] = R(k, f[k - 1])  OBVIOUS
  <2> HIDE DEF n, V, R
  <2>1. f[k - 1] \in V  BY <1>1, <1>5
  <2> QED  BY <1>5, <2>1
<1>7. f = Body(f)
  <2>1. f = [k \in 0 .. n |-> f[k]]
    <3> HIDE DEF n, V
    <3> QED  BY <1>5
  <2>2. \A k \in 0 .. n : k # 0 => k \in 1 .. n
    <3> HIDE DEF n
    <3> QED  BY <1>1
  <2>3. ASSUME NEW k \in 0 .. n PROVE f[k] = Body(f)[k]
    <3>1. Body(f)[k] = IF k = 0 THEN 0 ELSE R(k, f[k - 1])  BY DEF Size
    <3> HIDE DEF n, V, R, Body
    <3> QED  BY <1>5, <1>6, <2>2, <3>1
  <2>4. Body(f) = [k \in 0 .. n |-> Body(f)[k]]  OBVIOUS
  <2> HIDE DEF n, Body
  <2> QED  BY <2>1, <2>3, <2>4, Zenon
<1>8. X = CHOOSE g : g = Body(g)  BY DEF ValuesUpTo
<1>9. X = Body(X)
  <2> HIDE DEF X, Body
  <2> QED  BY <1>7, <1>8
<1>10. X[0] = 0 /\ \A k \in 1 .. n : X[k] = R(k, X[k - 1])
  <2>1. 0 \in 0 .. n /\ \A k \in 1 .. n : k \in 0 .. n /\ k # 0
    <3> HIDE DEF n
    <3> QED  BY <1>1
  <2>2. \A k \in 0 .. n : X[k] = IF k = 0 THEN 0 ELSE R(k, X[k - 1])
    <3> SUFFICES ASSUME NEW k \in 0 .. n PROVE X[k] = IF k = 0 THEN 0 ELSE R(k, X[k - 1])
      OBVIOUS
    <3>1. Body(X)[k] = IF k = 0 THEN 0 ELSE R(k, X[k - 1])  BY DEF Size
    <3> HIDE DEF X, n, V, R, Body
    <3> QED  BY <1>9, <3>1
  <2> HIDE DEF X, n, V, R
  <2> QED  BY <2>1, <2>2
<1>11. \A k \in 0 .. n : X[k] = f[k]
  <2> HIDE DEF X, n, V, R
  <2>1. GoAlike(n, X, f)  BY <1>5, <1>6, <1>10 DEF GoAlike
  <2>2. n \in Nat  BY <1>1
  <2> QED  BY ONLY <2>1, <2>2, GoOnAlike
<1>12. X \in [0 .. n -> V]
  <2>1. X = [k \in 0 .. n |-> X[k]]
    <3>1. Body(X) = [k \in 0 .. n |-> Body(X)[k]]  OBVIOUS
    <3> HIDE DEF X, n, Body
    <3> QED  BY <1>9, <3>1
  <2> HIDE DEF X, n, V
  <2> QED  BY <1>5, <1>11, <2>1
<1>13. ValuesUpTo(list) \in [0 .. Len(list) -> Nat]  BY <1>12
<1> HIDE DEF X, V
<1> QED  BY <1>10, <1>13 DEF X

-----------------------------------------------------------------------------
\* The inputs of the primitive, in which the inputs of <vertices> stand for the one with VERTEX
Input == [semantic : Semantics, source : STRING, offset : Nat]

\* The three variables about sources
ListsType == [loaded : [Sources -> SUBSET Semantics], initialIndex : [Sources -> Nat],
              values : [Lists -> Seq(Sources)]]

LEMMA ValuesCountType ==
    ASSUME NEW list \in Seq(Sources)
    PROVE  ValuesCount(list) \in Nat /\ ValuesCount(list) = ValuesUpTo(list)[Len(list)]
<1>1. Len(list) \in 0 .. Len(list)  OBVIOUS
<1> QED  BY <1>1, ValuesUpToFacts DEF ValuesCount

LEMMA LoadSourceType ==
    ASSUME NEW m \in ListsType, NEW input \in Input
    PROVE  LoadSource(m, input) \in ListsType
<1> DEFINE s == input.source
           list == ListOf(input.semantic)
<1>1. CASE s \notin Sources \/ input.semantic \in m.loaded[s]
  BY <1>1 DEF LoadSource
<1>2. CASE ~ (s \notin Sources \/ input.semantic \in m.loaded[s])
  <2>1. input.semantic \in Semantics /\ list \in Lists
    BY DEF Input, ListOf, Semantics, Lists
  <2>2. m.values[list] \in Seq(Sources)  BY <2>1 DEF ListsType
  <2>3. ValuesCount(m.values[list]) \in Nat  BY <2>2, ValuesCountType
  <2>4. Append(m.values[list], s) \in Seq(Sources)  BY <1>2, <2>2
  <2>5. [m.loaded EXCEPT ![s] = @ \cup {input.semantic}] \in [Sources -> SUBSET Semantics]
    BY <1>2, <2>1 DEF ListsType
  <2>6. (IF Stride[s] \in StridesFor(input.semantic)
         THEN [m.initialIndex EXCEPT ![s] = ValuesCount(m.values[list])]
         ELSE m.initialIndex) \in [Sources -> Nat]
    BY <1>2, <2>3 DEF ListsType
  <2>7. (IF Stride[s] \in StridesFor(input.semantic)
         THEN [m.values EXCEPT ![list] = Append(@, s)]
         ELSE m.values) \in [Lists -> Seq(Sources)]
    BY <2>1, <2>4 DEF ListsType
  <2> QED  BY <1>2, <2>5, <2>6, <2>7 DEF LoadSource, ListsType
<1> QED  BY <1>1, <1>2

Start == [loaded |-> loaded, initialIndex |-> initialIndex, values |-> values]

\* The lists after the first inputs
LEMMA LoadedAfterFacts ==
    ASSUME NEW inputs \in Seq(Input), Start \in ListsType
    PROVE  /\ LoadedAfter(inputs) \in [0 .. Len(inputs) -> ListsType] /\ LoadedAfter(inputs)[0] = Start
           /\ \A k \in 1 .. Len(inputs) : LoadedAfter(inputs)[k] =
                 LoadSource(LoadedAfter(inputs)[k - 1], inputs[k])
<1> DEFINE n == Len(inputs)
           V == ListsType
           R(k, x) == LoadSource(x, inputs[k])
           step == [y \in (1 .. n) \X V |-> R(y[1], y[2])]
           Body(g) == [k \in 0 .. n |-> IF k = 0 THEN Start ELSE LoadSource(g[k - 1], inputs[k])]
           X == LoadedAfter(inputs)
<1>1. n \in Nat /\ Start \in V  OBVIOUS
<1>2. \A k \in 1 .. n, x \in V : R(k, x) \in V
  <2>1. \A k \in 1 .. n : inputs[k] \in Input  OBVIOUS
  <2> HIDE DEF n
  <2> QED  BY <2>1, LoadSourceType
<1>3. step \in [(1 .. n) \X V -> V]
  <2> HIDE DEF n, V, R
  <2> QED  BY <1>2
<1>4. PICK f : Rounds(n, V, Start, step, f)
  <2> HIDE DEF n, V, step
  <2> QED  BY <1>1, <1>3, RoundsExist
<1>5. f \in [0 .. n -> V] /\ f[0] = Start /\ \A k \in 1 .. n : f[k] = step[<<k, f[k - 1]>>]
  <2> HIDE DEF n, V, step
  <2> QED  BY <1>4 DEF Rounds
<1>6. \A k \in 1 .. n : f[k] = R(k, f[k - 1])
  <2> SUFFICES ASSUME NEW k \in 1 .. n PROVE f[k] = R(k, f[k - 1])  OBVIOUS
  <2> HIDE DEF n, V, R
  <2>1. f[k - 1] \in V  BY <1>1, <1>5
  <2> QED  BY <1>5, <2>1
<1>7. f = Body(f)
  <2>1. f = [k \in 0 .. n |-> f[k]]
    <3> HIDE DEF n, V
    <3> QED  BY <1>5
  <2>2. \A k \in 0 .. n : k # 0 => k \in 1 .. n
    <3> HIDE DEF n
    <3> QED  BY <1>1
  <2>3. ASSUME NEW k \in 0 .. n PROVE f[k] = Body(f)[k]
    <3>1. Body(f)[k] = IF k = 0 THEN Start ELSE R(k, f[k - 1])  OBVIOUS
    <3> HIDE DEF n, V, R, Body
    <3> QED  BY <1>5, <1>6, <2>2, <3>1
  <2>4. Body(f) = [k \in 0 .. n |-> Body(f)[k]]  OBVIOUS
  <2> HIDE DEF n, Body
  <2> QED  BY <2>1, <2>3, <2>4, Zenon
<1>8. X = CHOOSE g : g = Body(g)  BY DEF LoadedAfter, Start
<1>9. X = Body(X)
  <2> HIDE DEF X, Body
  <2> QED  BY <1>7, <1>8
<1>10. X[0] = Start /\ \A k \in 1 .. n : X[k] = R(k, X[k - 1])
  <2>1. 0 \in 0 .. n /\ \A k \in 1 .. n : k \in 0 .. n /\ k # 0
    <3> HIDE DEF n
    <3> QED  BY <1>1
  <2>2. \A k \in 0 .. n : X[k] = IF k = 0 THEN Start ELSE R(k, X[k - 1])
    <3> SUFFICES ASSUME NEW k \in 0 .. n PROVE X[k] = IF k = 0 THEN Start ELSE R(k, X[k - 1])
      OBVIOUS
    <3>1. Body(X)[k] = IF k = 0 THEN Start ELSE R(k, X[k - 1])  OBVIOUS
    <3> HIDE DEF X, n, V, R, Body
    <3> QED  BY <1>9, <3>1
  <2> HIDE DEF X, n, V, R
  <2> QED  BY <2>1, <2>2
<1>11. \A k \in 0 .. n : X[k] = f[k]
  <2> HIDE DEF X, n, V, R
  <2>1. GoAlike(n, X, f)  BY <1>5, <1>6, <1>10 DEF GoAlike
  <2>2. n \in Nat  BY <1>1
  <2> QED  BY ONLY <2>1, <2>2, GoOnAlike
<1>12. X \in [0 .. n -> V]
  <2>1. X = [k \in 0 .. n |-> X[k]]
    <3>1. Body(X) = [k \in 0 .. n |-> Body(X)[k]]  OBVIOUS
    <3> HIDE DEF X, n, Body
    <3> QED  BY <1>9, <3>1
  <2> HIDE DEF X, n, V
  <2> QED  BY <1>5, <1>11, <2>1
<1>13. LoadedAfter(inputs) \in [0 .. Len(inputs) -> ListsType]  BY <1>12
<1> HIDE DEF X, V
<1> QED  BY <1>10, <1>13 DEF X

-----------------------------------------------------------------------------
(* Uses                                                                    *)

\* Dividing by a positive number
LEMMA Division ==
    ASSUME NEW a \in Nat, NEW b \in Nat, b > 0
    PROVE  a \div b \in Nat
OBVIOUS

\* Initial indices that uses have, with offsets up to max
UsesOf(initial, max) ==
    {u \in [list : Lists, source : Sources, offset : 0 .. max, initial : Nat] :
        u.initial = IndexOffset(u.list, u.source, initial)}

LEMMA IndexOffsetType ==
    ASSUME NEW initial \in [Sources -> Nat], NEW list, NEW s \in Sources
    PROVE  IndexOffset(list, s, initial) \in Nat
<1>1. initial[s] \in Nat /\ Stride[s] \in Nat /\ Stride[s] > 0  BY SizeType
<1>2. initial[s] \div Stride[s] \in Nat  BY ONLY <1>1, Division
<1> QED  BY <1>1, <1>2 DEF IndexOffset

LEMMA UseFacts ==
    ASSUME NEW input \in Input, NEW initial \in [Sources -> Nat], NEW max \in Nat,
           input.semantic \in Lists, input.source \in Sources, input.offset <= max
    PROVE  Use(input, initial) \in UsesOf(initial, max) /\ Use(input, initial).list = input.semantic
<1>1. IndexOffset(input.semantic, input.source, initial) \in Nat  BY IndexOffsetType
<1>2. input.offset \in 0 .. max  BY DEF Input
<1> QED  BY <1>1, <1>2 DEF Use, UsesOf

\* An input may serve this semantic
InputsUpTo(inputs, max) == inputs \in Seq(Input) /\ \A i \in DOMAIN inputs : inputs[i].offset <= max

LEMMA SingleUseType ==
    ASSUME NEW inputs, NEW initial \in [Sources -> Nat], NEW max \in Nat, InputsUpTo(inputs, max),
           NEW semantic \in Lists
    PROVE  SingleUse(inputs, semantic, initial) \in Seq(UsesOf(initial, max))
<1> DEFINE found == WithSemantic(inputs, semantic)
<1>1. CASE found = {} \/ inputs[Min(found)].source \notin Sources
           \/ (semantic # "POSITION" /\ Stride[inputs[Min(found)].source] # 3)
  BY <1>1 DEF SingleUse
<1>2. CASE ~ (found = {} \/ inputs[Min(found)].source \notin Sources
              \/ (semantic # "POSITION" /\ Stride[inputs[Min(found)].source] # 3))
  <2>1. found \in SUBSET Nat /\ found \in SUBSET DOMAIN inputs
    BY DEF WithSemantic, InputsUpTo
  <2>2. Min(found) \in found  BY ONLY <1>2, <2>1, MinFacts
  <2>3. inputs[Min(found)] \in Input /\ inputs[Min(found)].semantic = semantic
        /\ inputs[Min(found)].offset <= max
    BY <2>1, <2>2 DEF WithSemantic, InputsUpTo
  <2>4. Use(inputs[Min(found)], initial) \in UsesOf(initial, max)  BY <1>2, <2>3, UseFacts
  <2>5. SingleUse(inputs, semantic, initial) = <<Use(inputs[Min(found)], initial)>>
    BY <1>2 DEF SingleUse
  <2> QED  BY <2>4, <2>5
<1> QED  BY <1>1, <1>2

\* The input is used in the list of its semantic: none before it, nor itself, has no source.
Counts(inputs, semantic, k) ==
    /\ k \in WithSemantic(inputs, semantic)
    /\ \A i \in {i \in WithSemantic(inputs, semantic) : inputs[i].source \notin Sources} : k < i

\* The uses for the first inputs
LEMMA UsesUpToFacts ==
    ASSUME NEW inputs, NEW initial \in [Sources -> Nat], NEW max \in Nat,
           InputsUpTo(inputs, max), NEW semantic \in Lists
    PROVE  /\ UsesUpTo(inputs, semantic, initial) \in [0 .. Len(inputs) -> Seq(UsesOf(initial, max))]
           /\ UsesUpTo(inputs, semantic, initial)[0] = << >>
           /\ \A k \in 1 .. Len(inputs) :
                 UsesUpTo(inputs, semantic, initial)[k] =
                    (IF Counts(inputs, semantic, k)
                     THEN Append(UsesUpTo(inputs, semantic, initial)[k - 1], Use(inputs[k], initial))
                     ELSE UsesUpTo(inputs, semantic, initial)[k - 1])
<1> DEFINE n == Len(inputs)
           V == Seq(UsesOf(initial, max))
           R(k, x) == (IF Counts(inputs, semantic, k) THEN Append(x, Use(inputs[k], initial)) ELSE x)
           step == [y \in (1 .. n) \X V |-> R(y[1], y[2])]
           Body(g) == [k \in 0 .. n |-> IF k = 0 THEN << >> ELSE IF k \in WithSemantic(inputs, semantic)
                             /\ \A i \in {i \in WithSemantic(inputs, semantic) :
                                              inputs[i].source \notin Sources} : k < i
                          THEN Append(g[k - 1], Use(inputs[k], initial)) ELSE g[k - 1]]
           X == UsesUpTo(inputs, semantic, initial)
<1>1. n \in Nat /\ << >> \in V  BY DEF InputsUpTo
<1>2. \A k \in 1 .. n, x \in V : R(k, x) \in V
  <2> SUFFICES ASSUME NEW k \in 1 .. n, NEW x \in V, Counts(inputs, semantic, k)
               PROVE  Append(x, Use(inputs[k], initial)) \in V
    OBVIOUS
  <2>1. inputs[k] \in Input /\ inputs[k].offset <= max /\ ~ (k < k)
    BY DEF InputsUpTo
  <2>2. inputs[k].semantic = semantic /\ inputs[k].source \in Sources
    BY <2>1 DEF Counts, WithSemantic
  <2>3. Use(inputs[k], initial) \in UsesOf(initial, max)  BY <2>1, <2>2, UseFacts
  <2> QED  BY <2>3
<1>3. step \in [(1 .. n) \X V -> V]
  <2> HIDE DEF n, V, R
  <2> QED  BY <1>2
<1>4. PICK f : Rounds(n, V, << >>, step, f)
  <2> HIDE DEF n, V, step
  <2> QED  BY <1>1, <1>3, RoundsExist
<1>5. f \in [0 .. n -> V] /\ f[0] = << >> /\ \A k \in 1 .. n : f[k] = step[<<k, f[k - 1]>>]
  <2> HIDE DEF n, V, step
  <2> QED  BY <1>4 DEF Rounds
<1>6. \A k \in 1 .. n : f[k] = R(k, f[k - 1])
  <2> SUFFICES ASSUME NEW k \in 1 .. n PROVE f[k] = R(k, f[k - 1])  OBVIOUS
  <2> HIDE DEF n, V, R
  <2>1. f[k - 1] \in V  BY <1>1, <1>5
  <2> QED  BY <1>5, <2>1
<1>7. f = Body(f)
  <2>1. f = [k \in 0 .. n |-> f[k]]
    <3> HIDE DEF n, V
    <3> QED  BY <1>5
  <2>2. \A k \in 0 .. n : k # 0 => k \in 1 .. n
    <3> HIDE DEF n
    <3> QED  BY <1>1
  <2>3. ASSUME NEW k \in 0 .. n PROVE f[k] = Body(f)[k]
    <3>1. Body(f)[k] = IF k = 0 THEN << >> ELSE R(k, f[k - 1])  BY DEF Counts
    <3> HIDE DEF n, V, R, Body
    <3> QED  BY <1>5, <1>6, <2>2, <3>1
  <2>4. Body(f) = [k \in 0 .. n |-> Body(f)[k]]  OBVIOUS
  <2> HIDE DEF n, Body
  <2> QED  BY <2>1, <2>3, <2>4, Zenon
<1>8. X = CHOOSE g : g = Body(g)  BY DEF UsesUpTo
<1>9. X = Body(X)
  <2> HIDE DEF X, Body
  <2> QED  BY <1>7, <1>8
<1>10. X[0] = << >> /\ \A k \in 1 .. n : X[k] = R(k, X[k - 1])
  <2>1. 0 \in 0 .. n /\ \A k \in 1 .. n : k \in 0 .. n /\ k # 0
    <3> HIDE DEF n
    <3> QED  BY <1>1
  <2>2. \A k \in 0 .. n : X[k] = IF k = 0 THEN << >> ELSE R(k, X[k - 1])
    <3> SUFFICES ASSUME NEW k \in 0 .. n PROVE X[k] = IF k = 0 THEN << >> ELSE R(k, X[k - 1])
      OBVIOUS
    <3>1. Body(X)[k] = IF k = 0 THEN << >> ELSE R(k, X[k - 1])  BY DEF Counts
    <3> HIDE DEF X, n, V, R, Body
    <3> QED  BY <1>9, <3>1
  <2> HIDE DEF X, n, V, R
  <2> QED  BY <2>1, <2>2
<1>11. \A k \in 0 .. n : X[k] = f[k]
  <2> HIDE DEF X, n, V, R
  <2>1. GoAlike(n, X, f)  BY <1>5, <1>6, <1>10 DEF GoAlike
  <2>2. n \in Nat  BY <1>1
  <2> QED  BY ONLY <2>1, <2>2, GoOnAlike
<1>12. X \in [0 .. n -> V]
  <2>1. X = [k \in 0 .. n |-> X[k]]
    <3>1. Body(X) = [k \in 0 .. n |-> Body(X)[k]]  OBVIOUS
    <3> HIDE DEF X, n, Body
    <3> QED  BY <1>9, <3>1
  <2> HIDE DEF X, n, V
  <2> QED  BY <1>5, <1>11, <2>1
<1>13. UsesUpTo(inputs, semantic, initial) \in [0 .. Len(inputs) -> Seq(UsesOf(initial, max))]  BY <1>12
<1> HIDE DEF X, V
<1> QED  BY <1>10, <1>13 DEF X

LEMMA UsesType ==
    ASSUME NEW inputs, NEW initial \in [Sources -> Nat], NEW max \in Nat, InputsUpTo(inputs, max)
    PROVE  Uses(inputs, initial) \in Seq(UsesOf(initial, max))
<1> DEFINE S == Seq(UsesOf(initial, max))
<1>1. \A semantic \in Lists : SingleUse(inputs, semantic, initial) \in S  BY SingleUseType
<1>2. \A semantic \in Lists : EveryUse(inputs, semantic, initial) \in S
  <2> SUFFICES ASSUME NEW semantic \in Lists PROVE EveryUse(inputs, semantic, initial) \in S
    OBVIOUS
  <2>1. Len(inputs) \in 0 .. Len(inputs)  BY DEF InputsUpTo
  <2>2. UsesUpTo(inputs, semantic, initial) \in [0 .. Len(inputs) -> S]  BY UsesUpToFacts
  <2> QED  BY <2>1, <2>2 DEF EveryUse
<1>3. \A a, b \in S : a \o b \in S  OBVIOUS
<1> HIDE DEF S
<1>4. {"POSITION", "NORMAL", "COLOR", "TEXCOORD", "TEXTANGENT", "TEXBINORMAL"} \subseteq Lists
  BY DEF Lists
<1>5. Uses(inputs, initial) \in S
  BY <1>1, <1>2, <1>3, <1>4 DEF Uses
<1> QED  BY <1>5 DEF S

\* What initializeOffsets() does not stop at has a list of position indices first.
LEMMA PositionFirst ==
    ASSUME NEW inputs, NEW initial \in [Sources -> Nat], NEW max \in Nat, InputsUpTo(inputs, max),
           WithSemantic(inputs, "POSITION") # {}, ~Critical(inputs)
    PROVE  Uses(inputs, initial) # << >> /\ Uses(inputs, initial)[1].list = "POSITION"
<1> DEFINE S == Seq(UsesOf(initial, max))
           found == WithSemantic(inputs, "POSITION")
<1>1. \A semantic \in Lists : SingleUse(inputs, semantic, initial) \in S  BY SingleUseType
<1>2. \A semantic \in Lists : EveryUse(inputs, semantic, initial) \in S
  <2> SUFFICES ASSUME NEW semantic \in Lists PROVE EveryUse(inputs, semantic, initial) \in S
    OBVIOUS
  <2>1. Len(inputs) \in 0 .. Len(inputs)  BY DEF InputsUpTo
  <2>2. UsesUpTo(inputs, semantic, initial) \in [0 .. Len(inputs) -> S]  BY UsesUpToFacts
  <2> QED  BY <2>1, <2>2 DEF EveryUse
<1>3. {"POSITION", "NORMAL", "COLOR", "TEXCOORD", "TEXTANGENT", "TEXBINORMAL"} \subseteq Lists
  BY DEF Lists
<1>4. SingleUse(inputs, "POSITION", initial) = <<Use(inputs[Min(found)], initial)>>
  BY DEF SingleUse, Critical, PositionSource
<1>5. found \in SUBSET Nat /\ found \in SUBSET DOMAIN inputs  BY DEF WithSemantic, InputsUpTo
<1>6. inputs[Min(found)].semantic = "POSITION"
  <2>1. Min(found) \in found  BY ONLY <1>5, WithSemantic(inputs, "POSITION") # {}, MinFacts
  <2> QED  BY <2>1 DEF WithSemantic
<1>7. \A a, b \in S : a \o b \in S /\ (Len(a) >= 1 => Len(a \o b) >= 1 /\ (a \o b)[1] = a[1])
  OBVIOUS
<1>8. /\ SingleUse(inputs, "POSITION", initial) \in S /\ SingleUse(inputs, "NORMAL", initial) \in S
      /\ EveryUse(inputs, "COLOR", initial) \in S /\ EveryUse(inputs, "TEXCOORD", initial) \in S
      /\ SingleUse(inputs, "TEXTANGENT", initial) \in S /\ SingleUse(inputs, "TEXBINORMAL", initial) \in S
  BY <1>1, <1>2, <1>3
<1>9. /\ Len(SingleUse(inputs, "POSITION", initial)) = 1
      /\ SingleUse(inputs, "POSITION", initial)[1].list = "POSITION"
  BY <1>4, <1>6 DEF Use
<1>10. Uses(inputs, initial) \in S /\ Len(Uses(inputs, initial)) >= 1
       /\ Uses(inputs, initial)[1] = SingleUse(inputs, "POSITION", initial)[1]
  <2> DEFINE a == SingleUse(inputs, "POSITION", initial)
             b == SingleUse(inputs, "NORMAL", initial)
             c == EveryUse(inputs, "COLOR", initial)
             d == EveryUse(inputs, "TEXCOORD", initial)
             e == SingleUse(inputs, "TEXTANGENT", initial)
             f == SingleUse(inputs, "TEXBINORMAL", initial)
  <2>1. Uses(inputs, initial) = a \o b \o c \o d \o e \o f  BY DEF Uses
  <2>2. a \in S /\ b \in S /\ c \in S /\ d \in S /\ e \in S /\ f \in S /\ Len(a) = 1
    BY <1>8, <1>9
  <2> HIDE DEF S, a, b, c, d, e, f
  <2> DEFINE Alike(x) == x \in S /\ Len(x) >= 1 /\ x[1] = a[1]
  <2>3. Alike(a \o b)  BY <1>7, <2>2
  <2>4. Alike(a \o b \o c)  BY <1>7, <2>2, <2>3
  <2>5. Alike(a \o b \o c \o d)  BY <1>7, <2>2, <2>4
  <2>6. Alike(a \o b \o c \o d \o e)  BY <1>7, <2>2, <2>5
  <2>7. Alike(a \o b \o c \o d \o e \o f)  BY <1>7, <2>2, <2>6
  <2>8. Alike(Uses(inputs, initial))  BY <2>1, <2>7
  <2> QED  BY <2>8 DEF a
<1> QED  BY <1>9, <1>10

-----------------------------------------------------------------------------
(* Types                                                                   *)

Texts == [tag : {"p", "ph", "h"}, first : Nat, length : Nat]
IndexLists == [list : Lists, source : Sources, offset : Nat, initial : Nat]
Members == [type : Types \cup {"NONE"}, inputs : Seq(Input), maxOffset : Nat, uses : Seq(IndexLists),
            indices : Seq(Seq(Int)), vcounts : Seq(Int), strips : Nat, offset : Nat, vertexCount : Nat,
            lastCount : Nat, expected : Nat, faces : Nat, texts : Nat, emptyP : BOOLEAN]

\* Numbers are read for the index lists.
Reading == element \in {"p", "ph p"} \/ (element = "h" /\ ~prim.emptyP)

Typed ==
    /\ Start \in ListsType /\ prim \in Members /\ InputsUpTo(prim.inputs, prim.maxOffset)
    /\ raw \in Seq(Inputs) /\ element \in Elements /\ text \in Seq(Texts)
    /\ primitives \in 0 .. MaxPrimitives /\ aborted \in BOOLEAN
    /\ element = "mesh" => prim = NoPrimitive
    /\ element # "mesh" => prim.type \in Types

\* The vertices counted are some of those of the text.  Where the index lists are made, none is counted.
Counted ==
    /\ Vertices <= MaxVertices /\ prim.lastCount <= prim.vertexCount /\ prim.vertexCount <= Vertices
    /\ prim.offset <= prim.maxOffset /\ (prim.offset > 0 => Reading /\ Vertices < MaxVertices)
    /\ text = << >> => prim.vertexCount = 0 /\ element \in {"mesh", "primitive"}
    /\ prim.texts = 0 /\ element \in {"primitive", "new ph"} => prim.vertexCount = 0

\* Every index list has a number for each vertex since the last strip or polygon, and one for the
\* vertex that is being read if the list's offset has been passed.
GrownBy(p) ==
    /\ Len(p.indices) = Len(p.uses)
    /\ \A i \in DOMAIN p.uses :
          /\ p.uses[i].offset <= p.maxOffset
          /\ Len(p.indices[i]) >= p.vertexCount - p.lastCount + (IF p.uses[i].offset < p.offset THEN 1 ELSE 0)

Consistent == Typed /\ Counted /\ GrownBy(prim)

LEMMA NoPrimitiveType == NoPrimitive \in Members /\ GrownBy(NoPrimitive) /\ InputsUpTo(NoPrimitive.inputs, 0)
BY DEF NoPrimitive, Members, GrownBy, InputsUpTo

LEMMA VerticesType ==
    ASSUME NEW t \in Seq(Texts)
    PROVE  (IF t = << >> THEN 0 ELSE t[Len(t)].first + t[Len(t)].length) \in Nat
<1>1. CASE t = << >>  BY <1>1
<1>2. CASE t # << >>
  <2>1. t[Len(t)] \in Texts  BY <1>2
  <2> QED  BY <1>2, <2>1 DEF Texts
<1> QED  BY <1>1, <1>2

LEMMA ElementsTyped ==
    ASSUME NEW p \in Members, Len(p.indices) = Len(p.uses), NEW i \in 1 .. Len(p.uses)
    PROVE  /\ p.uses[i] \in IndexLists /\ p.uses[i].offset \in Nat /\ p.uses[i].initial \in Nat
           /\ p.indices[i] \in Seq(Int) /\ Len(p.indices[i]) \in Nat
<1>1. p.uses \in Seq(IndexLists) /\ p.indices \in Seq(Seq(Int))  BY DEF Members
<1>2. p.uses[i] \in IndexLists  BY <1>1
<1>3. p.indices[i] \in Seq(Int)  BY <1>1
<1>4. Len(p.indices[i]) \in Nat  BY ONLY <1>3
<1> QED  BY <1>2, <1>3, <1>4 DEF IndexLists

-----------------------------------------------------------------------------
(* The parts of the handlers                                               *)

LEMMA WriteIndexFacts ==
    ASSUME NEW p \in Members, NEW number \in Nat, GrownBy(p), p.offset <= p.maxOffset,
           p.lastCount <= p.vertexCount
    PROVE  LET q == WriteIndex(p, number)
           IN  /\ q \in Members /\ GrownBy(q)
               /\ q = [p EXCEPT !.indices = q.indices, !.offset = q.offset, !.vertexCount = q.vertexCount]
               /\ q.offset = (IF p.offset = p.maxOffset THEN 0 ELSE p.offset + 1)
               /\ q.vertexCount = (IF p.offset = p.maxOffset THEN p.vertexCount + 1 ELSE p.vertexCount)
               /\ q.indices = [i \in 1 .. Len(p.uses) |->
                    IF p.uses[i].offset = p.offset THEN Append(p.indices[i], number + p.uses[i].initial)
                    ELSE p.indices[i]]
<1> DEFINE q == WriteIndex(p, number)
           n == Len(p.uses)
           written == [i \in 1 .. n |->
                         IF p.uses[i].offset = p.offset THEN Append(p.indices[i], number + p.uses[i].initial)
                         ELSE p.indices[i]]
           offset == IF p.offset = p.maxOffset THEN 0 ELSE p.offset + 1
           count == IF p.offset = p.maxOffset THEN p.vertexCount + 1 ELSE p.vertexCount
<1>1. /\ p.uses \in Seq(IndexLists) /\ p.indices \in Seq(Seq(Int)) /\ p.offset \in Nat /\ p.maxOffset \in Nat
      /\ p.vertexCount \in Nat /\ p.lastCount \in Nat
  BY DEF Members
<1>2. n \in Nat /\ DOMAIN p.uses = 1 .. n /\ Len(p.indices) = n
  BY <1>1 DEF GrownBy
<1>3. \A i \in 1 .. n : /\ p.uses[i].offset \in Nat /\ p.uses[i].initial \in Nat
                        /\ p.indices[i] \in Seq(Int) /\ Len(p.indices[i]) \in Nat
  BY <1>2, ElementsTyped
<1>4. q = [p EXCEPT !.indices = written, !.offset = offset, !.vertexCount = count]
  BY <1>2 DEF WriteIndex, Members
<1>5. offset \in Nat /\ count \in Nat  BY <1>1
<1>6. \A i \in 1 .. n : written[i] \in Seq(Int)
                        /\ Len(written[i]) = Len(p.indices[i]) + (IF p.uses[i].offset = p.offset THEN 1 ELSE 0)
  <2> SUFFICES ASSUME NEW i \in 1 .. n
               PROVE  /\ written[i] \in Seq(Int)
                      /\ Len(written[i]) = Len(p.indices[i]) + (IF p.uses[i].offset = p.offset THEN 1 ELSE 0)
    OBVIOUS
  <2> DEFINE list == p.indices[i]
             x == number + p.uses[i].initial
  <2>1. list \in Seq(Int) /\ x \in Int  BY <1>3
  <2>2. written[i] = IF p.uses[i].offset = p.offset THEN Append(list, x) ELSE list  OBVIOUS
  <2> HIDE DEF list, x, written
  <2>3. Append(list, x) \in Seq(Int) /\ Len(Append(list, x)) = Len(list) + 1 /\ Len(list) \in Nat
    BY <2>1
  <2>4. written[i] \in Seq(Int)
        /\ Len(written[i]) = Len(list) + (IF p.uses[i].offset = p.offset THEN 1 ELSE 0)
    BY <2>1, <2>2, <2>3
  <2> QED  BY <2>4 DEF list
<1>7. written \in Seq(Seq(Int)) /\ Len(written) = n
  <2> DEFINE S == Seq(Int)
  <2>1. \A i \in 1 .. n : written[i] \in S  BY <1>6
  <2>2. written = [i \in 1 .. n |-> written[i]]  OBVIOUS
  <2> HIDE DEF written, n, S
  <2>3. written \in Seq(S) /\ Len(written) = n  BY <1>2, <2>1, <2>2
  <2> QED  BY <2>3 DEF S
<1> HIDE DEF written, offset, count, q
<1>8. /\ q \in Members /\ q.indices = written /\ q.offset = offset /\ q.vertexCount = count
      /\ q.uses = p.uses /\ q.maxOffset = p.maxOffset /\ q.lastCount = p.lastCount
  BY <1>4, <1>5, <1>7 DEF Members
<1>9. q = [p EXCEPT !.indices = q.indices, !.offset = q.offset, !.vertexCount = q.vertexCount]
  BY <1>4, <1>8
<1>10. GrownBy(q)
  <2> SUFFICES ASSUME NEW i \in 1 .. n
               PROVE  /\ p.uses[i].offset <= p.maxOffset
                      /\ Len(written[i]) >= count - p.lastCount + (IF p.uses[i].offset < offset THEN 1 ELSE 0)
    BY <1>2, <1>7, <1>8 DEF GrownBy
  <2>1. p.uses[i].offset <= p.maxOffset
        /\ Len(p.indices[i]) >= p.vertexCount - p.lastCount + (IF p.uses[i].offset < p.offset THEN 1 ELSE 0)
    BY <1>2 DEF GrownBy
  <2>2. Len(written[i]) = Len(p.indices[i]) + (IF p.uses[i].offset = p.offset THEN 1 ELSE 0)
    BY <1>6
  <2> DEFINE o == p.uses[i].offset
             before == Len(p.indices[i])
             after == Len(written[i])
  <2>3. o \in Nat /\ before \in Nat  BY <1>3
  <2>4. /\ o <= p.maxOffset /\ before >= p.vertexCount - p.lastCount + (IF o < p.offset THEN 1 ELSE 0)
        /\ after = before + (IF o = p.offset THEN 1 ELSE 0)
    BY <2>1, <2>2
  <2> HIDE DEF o, before, after
  <2>5. after >= count - p.lastCount + (IF o < offset THEN 1 ELSE 0)
    <3>1. CASE p.offset = p.maxOffset
      <4>1. count = p.vertexCount + 1 /\ offset = 0  BY <3>1 DEF count, offset
      <4>2. o = p.offset \/ o < p.offset  BY <1>1, <2>3, <2>4, <3>1
      <4>3. after >= p.vertexCount - p.lastCount + 1  BY <1>1, <2>3, <2>4, <4>2
      <4>4. ~ (o < 0)  BY <2>3
      <4> QED  BY <1>1, <4>1, <4>3, <4>4
    <3>2. CASE p.offset # p.maxOffset
      <4>1. count = p.vertexCount /\ offset = p.offset + 1  BY <3>2 DEF count, offset
      <4>2. o < offset <=> o < p.offset \/ o = p.offset  BY <1>1, <2>3, <4>1
      <4> QED  BY <1>1, <2>3, <2>4, <4>1, <4>2
    <3> QED  BY <3>1, <3>2
  <2> QED  BY <2>1, <2>5 DEF o, after
<1> QED  BY <1>8, <1>9, <1>10 DEF written, offset, count, q

\* A strip or polygon ends: what is taken back is there.
LEMMA EraseFacts ==
    ASSUME NEW p \in Members, GrownBy(p), NEW n \in Nat, p.vertexCount - p.lastCount = n
    PROVE  LET erased == Erase(p, n)
           IN  /\ erased \in Seq(Seq(Int)) /\ Len(erased) = Len(p.uses)
               /\ \A i \in 1 .. Len(p.uses) :
                     erased[i] = IF p.uses[i].list \in {"TEXTANGENT", "TEXBINORMAL"} THEN p.indices[i]
                                 ELSE SubSeq(p.indices[i], 1, Len(p.indices[i]) - n)
<1> DEFINE erased == Erase(p, n)
           k == Len(p.uses)
<1>1. p.uses \in Seq(IndexLists) /\ p.indices \in Seq(Seq(Int)) /\ p.vertexCount \in Nat /\ p.lastCount \in Nat
      /\ p.offset \in Nat
  BY DEF Members
<1>2. k \in Nat /\ DOMAIN p.uses = 1 .. k /\ Len(p.indices) = k
  BY <1>1 DEF GrownBy
<1>3. \A i \in 1 .. k : p.indices[i] \in Seq(Int) /\ Len(p.indices[i]) \in Nat /\ p.uses[i].offset \in Nat
  BY <1>2, ElementsTyped
<1>4. \A i \in 1 .. k : Len(p.indices[i]) >= n
  <2> SUFFICES ASSUME NEW i \in 1 .. k PROVE Len(p.indices[i]) >= n  OBVIOUS
  <2>1. Len(p.indices[i]) >= p.vertexCount - p.lastCount + (IF p.uses[i].offset < p.offset THEN 1 ELSE 0)
    BY <1>2 DEF GrownBy
  <2> QED  BY <1>3, <2>1
<1>5. \A i \in 1 .. k :
         erased[i] = IF p.uses[i].list \in {"TEXTANGENT", "TEXBINORMAL"} THEN p.indices[i]
                     ELSE SubSeq(p.indices[i], 1, Len(p.indices[i]) - n)
  BY <1>2, <1>3, <1>4 DEF Erase
<1>6. \A i \in 1 .. k : SubSeq(p.indices[i], 1, Len(p.indices[i]) - n) \in Seq(Int)
  <2> SUFFICES ASSUME NEW i \in 1 .. k PROVE SubSeq(p.indices[i], 1, Len(p.indices[i]) - n) \in Seq(Int)
    OBVIOUS
  <2>1. p.indices[i] \in Seq(Int) /\ Len(p.indices[i]) - n \in 0 .. Len(p.indices[i])
    BY <1>3, <1>4
  <2>2. \A j \in 1 .. Len(p.indices[i]) - n : j \in 1 .. Len(p.indices[i])  BY <1>3, <2>1
  <2> QED  BY <2>1, <2>2, SubSeqProperties
<1>7. erased = [i \in 1 .. k |-> erased[i]]  BY <1>2 DEF Erase
<1> HIDE DEF erased
<1>8. \A i \in 1 .. k : erased[i] \in Seq(Int)  BY <1>3, <1>5, <1>6
<1>9. erased \in Seq(Seq(Int)) /\ Len(erased) = k  BY <1>2, <1>7, <1>8
<1> QED  BY <1>5, <1>9 DEF erased

\* After the end of a strip, polygon or hole: the vertices up to here have been counted.
Settled(p, q) ==
    /\ q \in Members /\ GrownBy(q) /\ q.lastCount = q.vertexCount
    /\ q.type = p.type /\ q.inputs = p.inputs /\ q.maxOffset = p.maxOffset /\ q.uses = p.uses
    /\ q.offset = p.offset /\ q.vertexCount = p.vertexCount /\ q.texts = p.texts /\ q.expected = p.expected

\* Nothing is asked of index lists when no vertex has been counted since.
LEMMA SettledGrows ==
    ASSUME NEW p \in Members, GrownBy(p), p.offset = 0,
           NEW q \in Members, q.uses = p.uses, q.maxOffset = p.maxOffset, q.offset = p.offset,
           q.lastCount = q.vertexCount, Len(q.indices) = Len(q.uses)
    PROVE  GrownBy(q)
<1> SUFFICES ASSUME NEW i \in DOMAIN q.uses
             PROVE  /\ q.uses[i].offset <= q.maxOffset
                    /\ Len(q.indices[i]) >= q.vertexCount - q.lastCount
                                            + (IF q.uses[i].offset < q.offset THEN 1 ELSE 0)
  BY DEF GrownBy
<1>1. i \in 1 .. Len(q.uses) /\ i \in DOMAIN p.uses
  <2>1. q.uses \in Seq(IndexLists)  BY DEF Members
  <2> QED  BY <2>1
<1>2. q.uses[i].offset \in Nat /\ Len(q.indices[i]) \in Nat  BY <1>1, ElementsTyped
<1>3. q.uses[i].offset <= q.maxOffset  BY <1>1 DEF GrownBy
<1>4. ~ (q.uses[i].offset < q.offset)  BY <1>2
<1>5. q.vertexCount - q.lastCount = 0  BY DEF Members
<1> QED  BY <1>2, <1>3, <1>4, <1>5

LEMMA EndStripFacts ==
    ASSUME NEW p \in Members, GrownBy(p), p.offset = 0, p.lastCount <= p.vertexCount
    PROVE  Settled(p, EndStrip(p)) /\ EndStrip(p).emptyP = p.emptyP
<1> DEFINE q == EndStrip(p)
           n == p.vertexCount - p.lastCount
           least == Least(p.type)
<1>1. /\ p.vertexCount \in Nat /\ p.lastCount \in Nat /\ p.vcounts \in Seq(Int) /\ p.faces \in Nat
      /\ p.strips \in Nat /\ p.indices \in Seq(Seq(Int)) /\ p.uses \in Seq(IndexLists)
  BY DEF Members
<1>2. n \in Nat /\ least \in {2, 3}  BY <1>1 DEF Least
<1>3. CASE n = 0
  <2>1. q = p /\ p.lastCount = p.vertexCount  BY <1>1, <1>3 DEF EndStrip
  <2> QED  BY <2>1 DEF Settled
<1>4. CASE n # 0 /\ n >= least
  <2>1. q = [p EXCEPT !.vcounts = Append(@, n), !.strips = @ + 1,
                      !.faces = @ + n - (least - 1), !.lastCount = p.vertexCount]
    BY <1>4 DEF EndStrip
  <2> HIDE DEF n, least, q
  <2>2. Append(p.vcounts, n) \in Seq(Int) /\ p.strips + 1 \in Nat /\ p.faces + n - (least - 1) \in Nat
    BY <1>1, <1>2, <1>4
  <2>3. q \in Members  BY <1>1, <2>1, <2>2 DEF Members
  <2>4. /\ q.type = p.type /\ q.inputs = p.inputs /\ q.maxOffset = p.maxOffset /\ q.uses = p.uses
        /\ q.offset = p.offset /\ q.vertexCount = p.vertexCount /\ q.texts = p.texts
        /\ q.expected = p.expected /\ q.emptyP = p.emptyP
        /\ q.lastCount = p.vertexCount /\ q.indices = p.indices
    BY <2>1 DEF Members
  <2>5. Len(q.indices) = Len(q.uses)  BY <2>4 DEF GrownBy
  <2>6. GrownBy(q)  BY <2>3, <2>4, <2>5, SettledGrows
  <2>7. Settled(p, q) /\ q.emptyP = p.emptyP  BY <2>3, <2>4, <2>6 DEF Settled
  <2> QED  BY <2>7 DEF q
<1>5. CASE n # 0 /\ ~ (n >= least)
  <2>1. q = [p EXCEPT !.indices = Erase(p, n), !.lastCount = p.vertexCount]
    BY <1>5 DEF EndStrip
  <2>2. Erase(p, n) \in Seq(Seq(Int)) /\ Len(Erase(p, n)) = Len(p.uses)  BY <1>2, EraseFacts
  <2> HIDE DEF n, least, q
  <2>3. q \in Members  BY <1>1, <2>1, <2>2 DEF Members
  <2>4. /\ q.type = p.type /\ q.inputs = p.inputs /\ q.maxOffset = p.maxOffset /\ q.uses = p.uses
        /\ q.offset = p.offset /\ q.vertexCount = p.vertexCount /\ q.texts = p.texts
        /\ q.expected = p.expected /\ q.emptyP = p.emptyP
        /\ q.lastCount = p.vertexCount /\ q.indices = Erase(p, n)
    BY <2>1 DEF Members
  <2>5. GrownBy(q)  BY <2>2, <2>3, <2>4, SettledGrows
  <2>6. Settled(p, q) /\ q.emptyP = p.emptyP  BY <2>3, <2>4, <2>5 DEF Settled
  <2> QED  BY <2>6 DEF q
<1> QED  BY <1>3, <1>4, <1>5

LEMMA EndPolygonFacts ==
    ASSUME NEW p \in Members, GrownBy(p), p.offset = 0, p.lastCount <= p.vertexCount,
           NEW hasHoles \in BOOLEAN
    PROVE  /\ Settled(p, EndPolygon(p, hasHoles)) /\ EndPolygon(p, hasHoles).indices = p.indices
           /\ EndPolygon(p, hasHoles).emptyP =
                 IF hasHoles THEN p.vertexCount = p.lastCount ELSE p.emptyP
<1> DEFINE q == EndPolygon(p, hasHoles)
           n == p.vertexCount - p.lastCount
           empty == IF hasHoles THEN n = 0 ELSE p.emptyP
           r == [p EXCEPT !.emptyP = empty, !.lastCount = p.vertexCount]
<1>1. /\ p.vertexCount \in Nat /\ p.lastCount \in Nat /\ p.vcounts \in Seq(Int) /\ p.faces \in Nat
      /\ p.indices \in Seq(Seq(Int)) /\ p.uses \in Seq(IndexLists) /\ p.emptyP \in BOOLEAN
  BY DEF Members
<1>2. n \in Nat /\ empty \in BOOLEAN /\ (n = 0 <=> p.vertexCount = p.lastCount)
  <2>1. n \in Nat  BY <1>1
  <2>2. n = 0 <=> p.vertexCount = p.lastCount  BY <1>1
  <2>3. (n = 0) \in BOOLEAN  OBVIOUS
  <2>4. empty \in BOOLEAN  BY <1>1, <2>3, Zenon
  <2> QED  BY <2>1, <2>2, <2>4
<1>3. q = IF n = 0 THEN r ELSE [r EXCEPT !.vcounts = Append(@, n), !.faces = @ + 1]
  BY DEF EndPolygon, Members
<1>4. Append(p.vcounts, n) \in Seq(Int) /\ p.faces + 1 \in Nat  BY <1>1, <1>2
<1>5. empty = IF hasHoles THEN p.vertexCount = p.lastCount ELSE p.emptyP  BY <1>2, Zenon
<1> HIDE DEF n, empty, q
<1>6. q \in Members  BY <1>1, <1>2, <1>3, <1>4 DEF Members
<1>7. /\ q.type = p.type /\ q.inputs = p.inputs /\ q.maxOffset = p.maxOffset /\ q.uses = p.uses
      /\ q.offset = p.offset /\ q.vertexCount = p.vertexCount /\ q.texts = p.texts
      /\ q.expected = p.expected /\ q.lastCount = p.vertexCount /\ q.indices = p.indices
  BY <1>3 DEF Members
<1>8. q.emptyP = empty
  BY <1>2, <1>3 DEF Members
<1>9. Len(q.indices) = Len(q.uses)  BY <1>7 DEF GrownBy
<1>10. GrownBy(q)  BY <1>6, <1>7, <1>9, SettledGrows
<1>11. Settled(p, q)  BY <1>6, <1>7, <1>10 DEF Settled
<1>12. q.emptyP = IF hasHoles THEN p.vertexCount = p.lastCount ELSE p.emptyP  BY <1>5, <1>8, Zenon
<1> QED  BY <1>7, <1>11, <1>12, Zenon DEF q

-----------------------------------------------------------------------------
(* Every step keeps the members consistent                                 *)

LEMMA VerticesInNat == Typed => Vertices \in Nat
BY VerticesType DEF Typed, Vertices

LEMMA OpenTextFacts ==
    ASSUME Typed, NEW tag \in {"p", "ph", "h"}, OpenText(tag)
    PROVE  /\ text' \in Seq(Texts) /\ text' # << >> /\ Vertices' = Vertices /\ Vertices \in Nat
           /\ Len(text') = Len(text) + 1 /\ \A i \in 1 .. Len(text) : text'[i] = text[i]
           /\ text'[Len(text) + 1] = [tag |-> tag, first |-> Vertices, length |-> 0]
<1>1. text \in Seq(Texts) /\ Vertices \in Nat  BY VerticesInNat DEF Typed
<1> DEFINE opened == [tag |-> tag, first |-> Vertices, length |-> 0]
           v == Vertices
<1>2. opened \in Texts  BY <1>1 DEF Texts
<1>3. text' = Append(text, opened)  BY DEF OpenText
<1> HIDE DEF opened
<1>4. /\ text' \in Seq(Texts) /\ text' # << >> /\ Len(text') = Len(text) + 1
      /\ \A i \in 1 .. Len(text) : text'[i] = text[i]
      /\ text'[Len(text')] = opened /\ text'[Len(text) + 1] = opened
  BY <1>1, <1>2, <1>3
<1>5. Vertices' = opened.first + opened.length  BY <1>4 DEF Vertices
<1>6. opened.first + opened.length = v  BY <1>1 DEF opened
<1> QED  BY <1>1, <1>4, <1>5, <1>6 DEF opened

LEMMA LengthenFacts ==
    ASSUME Typed, text # << >>, Lengthen
    PROVE  /\ text' \in Seq(Texts) /\ text' # << >> /\ Vertices' = Vertices + 1 /\ Vertices \in Nat
           /\ Len(text') = Len(text) /\ \A i \in 1 .. Len(text) - 1 : text'[i] = text[i]
           /\ text'[Len(text)] = [text[Len(text)] EXCEPT !.length = @ + 1]
<1> DEFINE n == Len(text)
           last == text[n]
           longer == [last EXCEPT !.length = @ + 1]
<1>1. text \in Seq(Texts) /\ n \in Nat /\ n # 0 /\ n \in 1 .. n /\ last \in Texts  BY DEF Typed
<1>2. longer \in Texts /\ longer.first = last.first /\ longer.length = last.length + 1
      /\ last.first \in Nat /\ last.length \in Nat
  BY <1>1 DEF Texts
<1>3. text' = [text EXCEPT ![n] = longer]  BY <1>1 DEF Lengthen
<1>4. Vertices = last.first + last.length  BY DEF Vertices
<1>5. \A i \in 1 .. n - 1 : i \in 1 .. n /\ i # n  BY <1>1
<1> HIDE DEF longer
<1>6. /\ text' \in Seq(Texts) /\ Len(text') = n /\ text' # << >> /\ text'[n] = longer
      /\ \A i \in 1 .. n - 1 : text'[i] = text[i]
  BY <1>1, <1>2, <1>3, <1>5
<1>7. Vertices' = longer.first + longer.length  BY <1>6 DEF Vertices
<1>8. Vertices' = Vertices + 1  BY <1>2, <1>4, <1>7
<1> QED  BY <1>2, <1>4, <1>6, <1>8 DEF longer

LEMMA InitConsistent == Init => Consistent
<1> SUFFICES ASSUME Init PROVE Consistent  OBVIOUS
<1>1. NoPrimitive \in Members /\ GrownBy(prim) /\ prim = NoPrimitive
  BY NoPrimitiveType DEF Init
<1>2. Start \in ListsType  BY DEF Init, Start, ListsType
<1>3. MaxPrimitives \in Nat /\ MaxVertices \in Nat  BY MeshAssumption
<1>4. Typed
  <2>1. InputsUpTo(prim.inputs, prim.maxOffset)  BY <1>1, NoPrimitiveType DEF NoPrimitive
  <2>2. element = "mesh" /\ element \in Elements /\ raw = << >> /\ text = << >> /\ aborted = FALSE
        /\ primitives = 0
    BY DEF Init, Elements
  <2>3. raw \in Seq(Inputs) /\ text \in Seq(Texts)  BY <2>2
  <2>4. primitives \in 0 .. MaxPrimitives
    <3>1. primitives = 0  BY <2>2
    <3> QED  BY <1>3, <3>1
  <2>6. aborted \in BOOLEAN  BY <2>2, Zenon
  <2>5. prim \in Members  BY <1>1
  <2> QED  BY <1>1, <1>2, <2>1, <2>2, <2>3, <2>4, <2>5, <2>6, Zenon DEF Typed
<1>5. Counted
  BY <1>1, <1>3 DEF Init, Counted, NoPrimitive, Vertices
<1> QED  BY <1>1, <1>4, <1>5 DEF Consistent

LEMMA BeginConsistent ==
    ASSUME Consistent, NEW type \in Types, Begin(type)
    PROVE  Consistent'
<1>1. prim = NoPrimitive /\ prim \in Members  BY DEF Consistent, Typed, Begin
<1>2. prim' = [prim EXCEPT !.type = type]  BY DEF Begin
<1>3. prim' \in Members /\ prim'.type = type  BY <1>1, <1>2 DEF Members
<1>4. /\ prim'.uses = << >> /\ prim'.indices = << >> /\ prim'.inputs = << >> /\ prim'.maxOffset = 0
      /\ prim'.offset = 0 /\ prim'.vertexCount = 0 /\ prim'.lastCount = 0 /\ prim'.texts = 0
  BY <1>1, <1>2 DEF NoPrimitive
<1>5. MaxVertices \in Nat /\ MaxPrimitives \in Nat /\ primitives \in Nat  BY MeshAssumption DEF Consistent, Typed
<1>6. Start' = Start  BY DEF Begin, meshVars, Start
<1>7. Typed'
  BY <1>3, <1>4, <1>5, <1>6 DEF Consistent, Typed, Begin, InputsUpTo, Elements, Types
<1>8. Vertices' = 0  BY DEF Begin, Vertices
<1>9. Counted'  BY <1>4, <1>5, <1>8 DEF Counted, Begin
<1>10. GrownBy(prim')  BY <1>4 DEF GrownBy
<1> QED  BY <1>7, <1>9, <1>10 DEF Consistent

\* The inputs of <vertices>, with the offset of the VERTEX input
OwnInputs(offset) == [i \in DOMAIN VertexInputs |->
                        [semantic |-> VertexInputs[i].semantic, source |-> VertexInputs[i].source,
                         offset |-> offset]]

LEMMA OwnInputsType ==
    ASSUME NEW offset \in Nat
    PROVE  /\ OwnInputs(offset) \in Seq(Input) /\ Len(OwnInputs(offset)) = Len(VertexInputs)
           /\ Len(VertexInputs) \in Nat /\ DOMAIN VertexInputs = 1 .. Len(VertexInputs)
           /\ \A i \in 1 .. Len(VertexInputs) :
                 /\ OwnInputs(offset)[i].offset = offset
                 /\ OwnInputs(offset)[i].semantic = VertexInputs[i].semantic
<1> DEFINE own == OwnInputs(offset)
<1>1. VertexInputs \in Seq([semantic : Semantics, source : STRING])  BY MeshAssumption
<1>2. \A i \in DOMAIN VertexInputs : VertexInputs[i] \in [semantic : Semantics, source : STRING]
  <2> DEFINE S == [semantic : Semantics, source : STRING]
  <2>1. VertexInputs \in Seq(S)  BY <1>1
  <2> HIDE DEF S
  <2>2. \A i \in DOMAIN VertexInputs : VertexInputs[i] \in S  BY <2>1
  <2> QED  BY <2>2 DEF S
<1>3. \A i \in DOMAIN VertexInputs : own[i] \in Input /\ own[i].offset = offset
                                    /\ own[i].semantic = VertexInputs[i].semantic
  BY <1>2 DEF Input, OwnInputs
<1>4. DOMAIN VertexInputs = 1 .. Len(VertexInputs) /\ Len(VertexInputs) \in Nat  BY <1>1
<1>5. own = [i \in 1 .. Len(VertexInputs) |-> own[i]] /\ DOMAIN own = 1 .. Len(VertexInputs)
  BY <1>4 DEF OwnInputs
<1> HIDE DEF own
<1>6. own \in Seq(Input) /\ Len(own) = Len(VertexInputs)  BY <1>3, <1>4, <1>5
<1> QED  BY <1>3, <1>4, <1>6 DEF own

LEMMA BeginInputConsistent ==
    ASSUME Consistent, NEW input \in Inputs, BeginInput(input)
    PROVE  Consistent'
<1> DEFINE own == OwnInputs(input.offset)
           more == IF input.semantic = "VERTEX" THEN own ELSE <<input>>
           max == IF input.offset > prim.maxOffset THEN input.offset ELSE prim.maxOffset
           inputs == prim.inputs
<1>1. /\ prim \in Members /\ InputsUpTo(inputs, prim.maxOffset) /\ inputs \in Seq(Input)
      /\ prim.maxOffset \in Nat /\ text = << >> /\ element = "primitive"
  BY DEF Consistent, Typed, BeginInput, Members
<1>2. input.offset \in Nat /\ input.semantic \in Semantics \cup {"VERTEX"} /\ input.source \in STRING
  BY DEF Inputs
<1>3. max \in Nat /\ input.offset <= max /\ prim.maxOffset <= max  BY <1>1, <1>2
<1>4. own \in Seq(Input) /\ \A i \in DOMAIN own : own[i].offset = input.offset
  <2> HIDE DEF own
  <2>1. /\ own \in Seq(Input) /\ Len(own) = Len(VertexInputs)
        /\ \A i \in 1 .. Len(VertexInputs) : own[i].offset = input.offset
    BY <1>2, OwnInputsType DEF own
  <2> QED  BY <2>1
<1>5. more \in Seq(Input) /\ \A i \in DOMAIN more : more[i].offset = input.offset
  <2>1. CASE input.semantic = "VERTEX"  BY <1>4, <2>1
  <2>2. CASE input.semantic # "VERTEX"
    <3>1. input \in Input  BY <1>2, <2>2 DEF Input, Inputs
    <3> QED  BY <2>2, <3>1
  <2> QED  BY <2>1, <2>2
<1>6. prim' = [prim EXCEPT !.maxOffset = max, !.inputs = inputs \o more]
  <2>1. input.semantic # "VERTEX" => Append(inputs, input) = inputs \o <<input>>  BY <1>1
  <2> QED  BY <1>1, <2>1 DEF BeginInput, Members, OwnInputs
<1> HIDE DEF own, more, max
<1>7. inputs \o more \in Seq(Input) /\ \A i \in DOMAIN (inputs \o more) : (inputs \o more)[i].offset <= max
  <2>1. inputs \o more \in Seq(Input)  BY <1>1, <1>5
  <2>2. SUFFICES ASSUME NEW i \in DOMAIN (inputs \o more) PROVE (inputs \o more)[i].offset <= max
    BY <2>1
  <2>3. i \in 1 .. Len(inputs) + Len(more) /\ Len(inputs) \in Nat /\ Len(more) \in Nat  BY <1>1, <1>5
  <2>4. CASE i \in 1 .. Len(inputs)
    <3>1. (inputs \o more)[i] = inputs[i] /\ inputs[i] \in Input /\ i \in DOMAIN inputs
      BY <1>1, <1>5, <2>4
    <3>2. inputs[i].offset <= prim.maxOffset /\ inputs[i].offset \in Nat
      BY <1>1, <3>1 DEF InputsUpTo, Input
    <3> QED  BY <1>1, <1>3, <3>1, <3>2
  <2>5. CASE i \notin 1 .. Len(inputs)
    <3>1. i - Len(inputs) \in 1 .. Len(more)  BY <2>3, <2>5
    <3>2. (inputs \o more)[i] = more[i - Len(inputs)]  BY <1>1, <1>5, <2>3, <2>5
    <3>3. i - Len(inputs) \in DOMAIN more  BY <1>5, <3>1
    <3>4. (inputs \o more)[i].offset = input.offset  BY <1>5, <3>2, <3>3
    <3> QED  BY <1>3, <3>4
  <2> QED  BY <2>4, <2>5
<1>8. /\ prim' \in Members /\ prim'.inputs = inputs \o more /\ prim'.maxOffset = max
      /\ prim'.uses = prim.uses /\ prim'.indices = prim.indices /\ prim'.offset = prim.offset
      /\ prim'.vertexCount = prim.vertexCount /\ prim'.lastCount = prim.lastCount
      /\ prim'.texts = prim.texts /\ prim'.type = prim.type /\ prim'.emptyP = prim.emptyP
  BY <1>1, <1>3, <1>6, <1>7 DEF Members
<1>9. InputsUpTo(prim'.inputs, prim'.maxOffset)  BY <1>7, <1>8 DEF InputsUpTo
<1>10. Start' = Start  BY DEF BeginInput, meshVars, Start
<1>11. raw' \in Seq(Inputs)  BY DEF BeginInput, Consistent, Typed
<1>12. Typed'
  BY <1>8, <1>9, <1>10, <1>11 DEF Consistent, Typed, BeginInput
<1>13. Vertices' = Vertices  BY DEF BeginInput, Vertices
<1>14. ~Reading /\ prim.offset = 0
  BY <1>1 DEF Consistent, Counted, Reading, Members
<1>15. Counted'
  BY <1>1, <1>3, <1>8, <1>13, <1>14 DEF Consistent, Counted, BeginInput
<1>16. GrownBy(prim')
  <2> SUFFICES ASSUME NEW i \in DOMAIN prim.uses
               PROVE  /\ prim.uses[i].offset <= max
                      /\ Len(prim.indices[i]) >= prim.vertexCount - prim.lastCount
                            + (IF prim.uses[i].offset < prim.offset THEN 1 ELSE 0)
    BY <1>8 DEF Consistent, GrownBy
  <2>1. prim.uses \in Seq(IndexLists) /\ Len(prim.indices) = Len(prim.uses)
    BY <1>1 DEF Consistent, GrownBy, Members
  <2>2. i \in 1 .. Len(prim.uses)  BY <2>1
  <2>3. prim.uses[i].offset \in Nat  BY <1>1, <2>1, <2>2, ElementsTyped
  <2> QED  BY <1>1, <1>3, <2>3 DEF Consistent, GrownBy
<1> QED  BY <1>12, <1>15, <1>16 DEF Consistent

LEMMA LoadSourceElementsType ==
    ASSUME Start \in ListsType, NEW inputs \in Seq(Input)
    PROVE  LoadSourceElements(inputs) \in ListsType
<1>1. Len(inputs) \in 0 .. Len(inputs)  OBVIOUS
<1>2. LoadedAfter(inputs) \in [0 .. Len(inputs) -> ListsType]  BY LoadedAfterFacts
<1> QED  BY <1>1, <1>2 DEF LoadSourceElements

\* The members when the index lists have been made
LEMMA StartIndicesFacts ==
    ASSUME Typed, prim.vertexCount = 0, prim.lastCount = 0, StartIndices(prim)
    PROVE  /\ Start' = LoadSourceElements(prim.inputs) /\ Start' \in ListsType /\ aborted' \in BOOLEAN
           /\ Critical(prim.inputs) => aborted' = TRUE
           /\ initialIndex' = LoadSourceElements(prim.inputs).initialIndex
           /\ initialIndex' \in [Sources -> Nat]
           /\ prim'.uses = Uses(prim.inputs, initialIndex')
           /\ prim'.uses \in Seq(UsesOf(initialIndex', prim.maxOffset))
           /\ prim'.indices = [i \in 1 .. Len(prim'.uses) |-> << >>]
           /\ prim' = [prim EXCEPT !.offset = 0, !.uses = prim'.uses, !.indices = prim'.indices]
           /\ prim' \in Members /\ GrownBy(prim')
<1> DEFINE m == LoadSourceElements(prim.inputs)
           uses == Uses(prim.inputs, m.initialIndex)
           indices == [i \in 1 .. Len(uses) |-> << >>]
<1>1. prim \in Members /\ prim.inputs \in Seq(Input) /\ InputsUpTo(prim.inputs, prim.maxOffset)
      /\ prim.maxOffset \in Nat /\ Start \in ListsType
  BY DEF Typed, Members
<1>2. m \in ListsType  BY <1>1, LoadSourceElementsType
<1>3. m = [loaded |-> m.loaded, initialIndex |-> m.initialIndex, values |-> m.values]
      /\ m.initialIndex \in [Sources -> Nat]
  BY <1>2 DEF ListsType
<1>4. uses \in Seq(UsesOf(m.initialIndex, prim.maxOffset))  BY <1>1, <1>3, UsesType
<1>5. DOMAIN uses = 1 .. Len(uses) /\ Len(uses) \in Nat  BY <1>4
<1>6. \A i \in 1 .. Len(uses) : uses[i] \in IndexLists /\ uses[i].offset <= prim.maxOffset
  <2> SUFFICES ASSUME NEW i \in 1 .. Len(uses)
               PROVE  uses[i] \in IndexLists /\ uses[i].offset <= prim.maxOffset
    OBVIOUS
  <2> DEFINE S == UsesOf(m.initialIndex, prim.maxOffset)
  <2>1. uses[i] \in S
    <3> HIDE DEF S, uses
    <3> QED  BY <1>4 DEF S
  <2>2. S \subseteq [list : Lists, source : Sources, offset : 0 .. prim.maxOffset, initial : Nat]
    BY DEF UsesOf
  <2> HIDE DEF S, uses
  <2>3. uses[i] \in [list : Lists, source : Sources, offset : 0 .. prim.maxOffset, initial : Nat]
    BY <2>1, <2>2
  <2> QED  BY <1>1, <2>3 DEF IndexLists
<1>7. loaded' = m.loaded /\ initialIndex' = m.initialIndex /\ values' = m.values
  BY DEF StartIndices
<1>8. prim' = [prim EXCEPT !.offset = 0, !.uses = uses, !.indices = indices]
  BY <1>5 DEF StartIndices
<1>9. aborted' \in BOOLEAN /\ (Critical(prim.inputs) => aborted' = TRUE)
  BY DEF StartIndices
<1> HIDE DEF m, uses
<1>10. uses \in Seq(IndexLists)
  <2>1. uses = [i \in 1 .. Len(uses) |-> uses[i]]
    <3> DEFINE S == UsesOf(m.initialIndex, prim.maxOffset)
    <3>1. uses \in Seq(S)  BY <1>4
    <3> HIDE DEF S
    <3> QED  BY <3>1
  <2> QED  BY <1>5, <1>6, <2>1
<1>11. indices \in Seq(Seq(Int)) /\ Len(indices) = Len(uses) /\ \A i \in 1 .. Len(uses) : indices[i] = << >>
  <2>1. \A i \in 1 .. Len(uses) : indices[i] = << >>  OBVIOUS
  <2> DEFINE S == Seq(Int)
  <2>2. << >> \in S  OBVIOUS
  <2>3. indices = [i \in 1 .. Len(uses) |-> indices[i]] /\ DOMAIN indices = 1 .. Len(uses)  OBVIOUS
  <2> HIDE DEF indices, S
  <2>4. indices \in Seq(S) /\ Len(indices) = Len(uses)  BY <1>5, <2>1, <2>2, <2>3
  <2> QED  BY <2>1, <2>4 DEF S
<1>12. Start' = m  BY <1>3, <1>7 DEF Start
<1>13. prim'.indices = [i \in 1 .. Len(uses) |-> << >>]  BY <1>1, <1>8 DEF Members
<1> HIDE DEF indices
<1>14. /\ prim'.uses = uses /\ prim'.indices = indices /\ prim'.offset = 0 /\ prim' \in Members
       /\ prim'.maxOffset = prim.maxOffset /\ prim'.vertexCount = 0 /\ prim'.lastCount = 0
  BY <1>1, <1>8, <1>10, <1>11 DEF Members
<1>15. GrownBy(prim')
  <2>1. Len(prim'.indices) = Len(prim'.uses)  BY <1>11, <1>14
  <2> SUFFICES ASSUME NEW i \in 1 .. Len(uses)
               PROVE  /\ uses[i].offset <= prim.maxOffset
                      /\ Len(indices[i]) >= 0 - 0 + (IF uses[i].offset < 0 THEN 1 ELSE 0)
    BY <1>5, <1>14, <2>1 DEF GrownBy
  <2>2. uses[i].offset \in Nat /\ Len(indices[i]) = 0  BY <1>6, <1>11 DEF IndexLists
  <2> QED  BY <1>6, <2>2
<1>16. prim' = [prim EXCEPT !.offset = 0, !.uses = prim'.uses, !.indices = prim'.indices]
  BY <1>8, <1>14
<1>17. prim'.uses = Uses(prim.inputs, initialIndex') /\ prim'.uses \in Seq(UsesOf(initialIndex', prim.maxOffset))
  BY <1>4, <1>7, <1>14 DEF uses
<1> QED  BY <1>2, <1>3, <1>7, <1>9, <1>12, <1>13, <1>14, <1>15, <1>16, <1>17 DEF m

LEMMA DataVcountConsistent ==
    ASSUME Consistent, NEW n \in VertexCounts, DataVcount(n)
    PROVE  Consistent'
<1>1. n \in Nat  BY MeshAssumption
<1>2. prim \in Members /\ prim.vcounts \in Seq(Int) /\ prim.expected \in Nat
  BY DEF Consistent, Typed, Members
<1>3. prim' = [prim EXCEPT !.vcounts = Append(@, n), !.expected = @ + n]  BY DEF DataVcount
<1>4. Append(prim.vcounts, n) \in Seq(Int) /\ prim.expected + n \in Nat  BY <1>1, <1>2
<1>5. /\ prim' \in Members
      /\ prim'.inputs = prim.inputs /\ prim'.maxOffset = prim.maxOffset
      /\ prim'.uses = prim.uses /\ prim'.indices = prim.indices /\ prim'.offset = prim.offset
      /\ prim'.vertexCount = prim.vertexCount /\ prim'.lastCount = prim.lastCount
      /\ prim'.texts = prim.texts /\ prim'.type = prim.type /\ prim'.emptyP = prim.emptyP
  BY <1>2, <1>3, <1>4 DEF Members
<1>6. Start' = Start /\ Vertices' = Vertices /\ element = "primitive"
  BY DEF DataVcount, meshVars, Start, Vertices
<1>7. Typed'  BY <1>5, <1>6 DEF Consistent, Typed, DataVcount
<1>8. Reading' <=> Reading  BY <1>5 DEF Reading, DataVcount
<1>9. Counted'  BY <1>5, <1>6, <1>8 DEF Consistent, Counted, DataVcount
<1>10. GrownBy(prim')  BY <1>5 DEF Consistent, GrownBy
<1> QED  BY <1>7, <1>9, <1>10 DEF Consistent

\* begin__p() makes index lists only when no vertex has been counted.
LEMMA StartsFresh ==
    ASSUME Consistent, BeginP, prim.type \in {"TRIANGLES", "LINES"} \/ prim.texts = 0
    PROVE  StartIndices(prim) /\ prim.vertexCount = 0 /\ prim.lastCount = 0
<1>1. StartIndices(prim)  BY DEF BeginP
<1>2. prim.vertexCount = 0
  <2>1. CASE prim.type \in {"TRIANGLES", "LINES"}
    <3>1. text = << >>  BY <2>1 DEF BeginP, Single
    <3> QED  BY <3>1 DEF Consistent, Counted
  <2>2. CASE prim.texts = 0
    <3>1. element \in {"primitive", "new ph"}  BY DEF BeginP
    <3> QED  BY <2>2, <3>1 DEF Consistent, Counted
  <2> QED  BY <2>1, <2>2
<1>3. prim.lastCount \in Nat /\ prim.lastCount <= prim.vertexCount
  BY DEF Consistent, Counted, Typed, Members
<1>4. prim.lastCount = 0  BY <1>2, <1>3
<1> QED  BY <1>1, <1>2, <1>4

LEMMA BeginPConsistent ==
    ASSUME Consistent, BeginP
    PROVE  Consistent'
<1>1. /\ prim \in Members /\ prim.vertexCount \in Nat /\ prim.lastCount \in Nat /\ prim.offset \in Nat
      /\ prim.maxOffset \in Nat
  BY DEF Consistent, Typed, Members
<1>2. element \in {"primitive", "new ph"} /\ element' \in {"p", "ph p"}  BY DEF BeginP
<1>3. prim.offset = 0
  <2>1. ~Reading  BY <1>2 DEF Reading
  <2>2. prim.offset > 0 => Reading  BY DEF Consistent, Counted
  <2> QED  BY <1>1, <2>1, <2>2
<1>4. text' \in Seq(Texts) /\ text' # << >> /\ Vertices' = Vertices /\ Vertices \in Nat
  <2>1. CASE element = "primitive"
    <3>1. OpenText("p")  BY <2>1 DEF BeginP
    <3> QED  BY <3>1, OpenTextFacts DEF Consistent
  <2>2. CASE element # "primitive"
    <3>1. text' = text /\ element = "new ph"  BY <2>2 DEF BeginP
    <3>2. text # << >> /\ text \in Seq(Texts)  BY <3>1 DEF Consistent, Counted, Typed
    <3> QED  BY <3>1, <3>2, VerticesInNat DEF Consistent, Vertices
  <2> QED  BY <2>1, <2>2
<1>5. /\ prim' \in Members /\ GrownBy(prim') /\ prim'.lastCount <= prim'.vertexCount
      /\ prim'.vertexCount = prim.vertexCount /\ prim'.offset = 0 /\ prim'.type = prim.type
      /\ prim'.inputs = prim.inputs /\ prim'.maxOffset = prim.maxOffset
      /\ Start' \in ListsType /\ aborted' \in BOOLEAN
  <2>1. CASE prim.type \in {"TRIANGLES", "LINES"} \/ prim.texts = 0
    <3>1. StartIndices(prim) /\ prim.vertexCount = 0 /\ prim.lastCount = 0  BY <2>1, StartsFresh
    <3>4. /\ prim' \in Members /\ GrownBy(prim') /\ Start' \in ListsType /\ aborted' \in BOOLEAN
          /\ prim' = [prim EXCEPT !.offset = 0, !.uses = prim'.uses, !.indices = prim'.indices]
      BY <3>1, StartIndicesFacts DEF Consistent
    <3>5. /\ prim'.vertexCount = prim.vertexCount /\ prim'.lastCount = prim.lastCount /\ prim'.offset = 0
          /\ prim'.type = prim.type /\ prim'.inputs = prim.inputs /\ prim'.maxOffset = prim.maxOffset
      BY <1>1, <3>4 DEF Members
    <3> QED  BY <3>1, <3>4, <3>5
  <2>2. CASE ~ (prim.type \in {"TRIANGLES", "LINES"} \/ prim.texts = 0)
    <3>1. /\ prim' = IF prim.type = "TRIFANS" THEN EndStrip(prim) ELSE prim
          /\ UNCHANGED <<meshVars, aborted>>
      BY <2>2 DEF BeginP
    <3>2. Start' = Start /\ aborted' = aborted  BY <3>1 DEF meshVars, Start
    <3>3. CASE prim.type = "TRIFANS"
      <4>1. prim' = EndStrip(prim)  BY <3>1, <3>3
      <4>2. Settled(prim, EndStrip(prim))
        BY <1>1, <1>3, EndStripFacts DEF Consistent, Counted
      <4>3. Settled(prim, prim')  BY <4>1, <4>2
      <4> QED  BY <1>1, <1>3, <3>2, <4>3 DEF Settled, Consistent, Typed, Members
    <3>4. CASE prim.type # "TRIFANS"
      <4>1. prim' = prim  BY <3>1, <3>4
      <4> QED  BY <1>1, <1>3, <3>2, <4>1 DEF Consistent, Typed, Counted
    <3> QED  BY <3>3, <3>4
  <2> QED  BY <2>1, <2>2
<1>6. raw' = raw /\ primitives' = primitives  BY DEF BeginP
<1>7. Typed'
  BY <1>2, <1>4, <1>5, <1>6 DEF Consistent, Typed, Elements
<1>8. Counted'
  <2>1. prim.lastCount <= prim.vertexCount /\ prim.vertexCount <= Vertices /\ Vertices <= MaxVertices
    BY DEF Consistent, Counted
  <2>2. /\ Vertices' <= MaxVertices /\ prim'.lastCount <= prim'.vertexCount /\ prim'.vertexCount <= Vertices'
        /\ prim'.offset <= prim'.maxOffset /\ ~ (prim'.offset > 0)
    BY <1>1, <1>4, <1>5, <2>1
  <2>3. text' # << >> /\ element' \notin {"primitive", "new ph"}  BY <1>2, <1>4
  <2> QED  BY <2>2, <2>3 DEF Counted
<1> QED  BY <1>5, <1>7, <1>8 DEF Consistent

LEMMA DataConsistent ==
    ASSUME Consistent, Data
    PROVE  Consistent'
<1> DEFINE number == Number(Vertices, prim.offset)
           q == WriteIndex(prim, number)
<1>1. /\ prim \in Members /\ prim.vertexCount \in Nat /\ prim.lastCount \in Nat /\ prim.offset \in Nat
      /\ prim.maxOffset \in Nat /\ MaxVertices \in Nat
  BY MeshAssumption DEF Consistent, Typed, Members
<1>2. /\ Reading /\ text # << >> /\ Vertices \in Nat
  BY VerticesInNat DEF Data, Reading, Consistent, Counted
<1>3. number \in Nat  BY <1>1, <1>2 DEF Number
<1>4. /\ q \in Members /\ GrownBy(q)
      /\ q = [prim EXCEPT !.indices = q.indices, !.offset = q.offset, !.vertexCount = q.vertexCount]
      /\ q.offset = (IF prim.offset = prim.maxOffset THEN 0 ELSE prim.offset + 1)
      /\ q.vertexCount = (IF prim.offset = prim.maxOffset THEN prim.vertexCount + 1 ELSE prim.vertexCount)
  BY <1>1, <1>3, WriteIndexFacts DEF Consistent, Counted
<1>5. prim' = q  BY DEF Data
<1> HIDE DEF q, number
<1>6. /\ q.type = prim.type /\ q.inputs = prim.inputs /\ q.maxOffset = prim.maxOffset
      /\ q.lastCount = prim.lastCount /\ q.emptyP = prim.emptyP /\ q.texts = prim.texts
  BY <1>1, <1>4 DEF Members
<1>7. Vertices < MaxVertices
  <2>1. CASE prim.offset = 0  BY <2>1 DEF Data
  <2>2. CASE prim.offset # 0
    <3>1. prim.offset > 0  BY <1>1, <2>2
    <3> QED  BY <3>1 DEF Consistent, Counted
  <2> QED  BY <2>1, <2>2
<1>8. /\ text' \in Seq(Texts) /\ text' # << >>
      /\ Vertices' = IF prim.offset = prim.maxOffset THEN Vertices + 1 ELSE Vertices
  <2>1. CASE prim.offset = prim.maxOffset
    <3>1. Lengthen  BY <2>1 DEF Data
    <3> QED  BY <1>2, <2>1, <3>1, LengthenFacts DEF Consistent
  <2>2. CASE prim.offset # prim.maxOffset
    <3>1. text' = text  BY <2>2 DEF Data
    <3> QED  BY <1>2, <2>2, <3>1 DEF Consistent, Typed, Vertices
  <2> QED  BY <2>1, <2>2
<1>9. Start' = Start /\ element' = element /\ raw' = raw /\ primitives' = primitives /\ aborted' = aborted
  BY DEF Data, meshVars, Start
<1>10. element \notin {"mesh", "primitive", "new ph"}  BY DEF Data
<1>11. Typed'  BY <1>4, <1>5, <1>6, <1>8, <1>9, <1>10 DEF Consistent, Typed
<1>12. Reading'  BY <1>2, <1>5, <1>6, <1>9 DEF Reading
<1>13. Counted'
  <2>1. prim.offset <= prim.maxOffset /\ prim.vertexCount <= Vertices /\ prim.lastCount <= prim.vertexCount
    BY DEF Consistent, Counted
  <2>2. q.offset <= q.maxOffset /\ q.offset \in Nat  BY <1>1, <1>4, <1>6, <2>1
  <2>3. /\ Vertices' <= MaxVertices /\ q.lastCount <= q.vertexCount /\ q.vertexCount <= Vertices'
        /\ (q.offset > 0 => Vertices' < MaxVertices)
    BY <1>1, <1>2, <1>4, <1>6, <1>7, <1>8, <2>1
  <2> QED  BY <1>5, <1>8, <1>9, <1>10, <1>12, <2>2, <2>3 DEF Counted
<1> QED  BY <1>4, <1>5, <1>11, <1>13 DEF Consistent

LEMMA DataIgnoredConsistent ==
    ASSUME Consistent, DataIgnored
    PROVE  Consistent'
<1>1. /\ prim \in Members /\ prim.vertexCount \in Nat /\ prim.offset \in Nat /\ MaxVertices \in Nat
  BY MeshAssumption DEF Consistent, Typed, Members
<1>2. text # << >> /\ Vertices \in Nat /\ Vertices < MaxVertices /\ ~Reading
  BY VerticesInNat DEF DataIgnored, Reading, Consistent, Counted
<1>3. text' \in Seq(Texts) /\ text' # << >> /\ Vertices' = Vertices + 1
  BY <1>2, LengthenFacts DEF Consistent, DataIgnored
<1>4. Start' = Start /\ prim' = prim /\ element' = element /\ raw' = raw /\ primitives' = primitives
      /\ aborted' = aborted
  BY DEF DataIgnored, meshVars, Start
<1>5. Typed'  BY <1>3, <1>4 DEF Consistent, Typed
<1>6. Counted'
  <2>1. /\ prim.lastCount <= prim.vertexCount /\ prim.vertexCount <= Vertices
        /\ prim.offset <= prim.maxOffset /\ (prim.offset > 0 => Reading)
        /\ (prim.texts = 0 /\ element \in {"primitive", "new ph"} => prim.vertexCount = 0)
    BY DEF Consistent, Counted
  <2>2. ~ (prim.offset > 0)  BY <1>2, <2>1
  <2>3. Vertices' <= MaxVertices /\ prim.vertexCount <= Vertices'
    <3>1. \A v, w, x, y \in Nat : v < x /\ w = v + 1 /\ y <= v => w <= x /\ y <= w  OBVIOUS
    <3>2. Vertices' \in Nat  BY <1>2, <1>3
    <3> QED  BY <1>1, <1>2, <1>3, <2>1, <3>1, <3>2
  <2> QED  BY <1>3, <1>4, <2>1, <2>2, <2>3 DEF Counted
<1> QED  BY <1>4, <1>5, <1>6 DEF Consistent

\* A step that leaves the lists, the text and the primitive's inputs alone
Elsewhere ==
    /\ UNCHANGED <<meshVars, raw, text, primitives, aborted>>
    /\ element' \in {"primitive", "ph"}
    /\ text # << >> /\ element # "mesh"
    /\ prim' \in Members /\ GrownBy(prim') /\ prim'.type = prim.type
    /\ prim'.inputs = prim.inputs /\ prim'.maxOffset = prim.maxOffset /\ prim'.offset = 0
    /\ prim'.lastCount <= prim'.vertexCount
    /\ \/ prim'.vertexCount = prim.vertexCount /\ (element' = "primitive" => prim'.texts # 0)
       \/ prim'.vertexCount = 0

LEMMA ElsewhereConsistent ==
    ASSUME Consistent, Elsewhere
    PROVE  Consistent'
<1>1. Start' = Start /\ Vertices' = Vertices  BY DEF Elsewhere, meshVars, Start, Vertices
<1>2. Typed'
  <2>1. prim' \in Members /\ InputsUpTo(prim'.inputs, prim'.maxOffset) /\ prim'.type \in Types
    BY DEF Elsewhere, Consistent, Typed
  <2>2. element' \in Elements /\ element' # "mesh"  BY DEF Elsewhere, Elements
  <2> QED  BY <1>1, <2>1, <2>2 DEF Elsewhere, Consistent, Typed
<1>3. Counted'
  <2>1. prim.vertexCount \in Nat /\ Vertices \in Nat /\ prim.vertexCount <= Vertices /\ Vertices <= MaxVertices
    BY VerticesInNat DEF Consistent, Counted, Typed, Members
  <2>2. prim'.vertexCount <= Vertices  BY <2>1 DEF Elsewhere
  <2>3. prim'.offset <= prim'.maxOffset /\ ~ (prim'.offset > 0)  BY DEF Elsewhere, Members
  <2>4. text' # << >>  BY DEF Elsewhere
  <2>5. prim'.texts = 0 /\ element' \in {"primitive", "new ph"} => prim'.vertexCount = 0
    BY DEF Elsewhere
  <2> QED  BY <1>1, <2>1, <2>2, <2>3, <2>4, <2>5 DEF Elsewhere, Counted
<1> QED  BY <1>2, <1>3 DEF Elsewhere, Consistent

LEMMA EndPConsistent ==
    ASSUME Consistent, EndP
    PROVE  Elsewhere
<1> DEFINE p == [prim EXCEPT !.texts = @ + 1]
           hasHoles == element = "ph p"
<1>1. /\ prim \in Members /\ GrownBy(prim) /\ prim.lastCount <= prim.vertexCount /\ prim.offset = 0
      /\ prim.texts \in Nat /\ prim.type \in Types /\ prim.inputs \in Seq(Input) /\ prim.maxOffset \in Nat
      /\ text # << >>
  BY DEF EndP, Consistent, Typed, Counted, Members
<1>2. /\ p \in Members /\ p.texts = prim.texts + 1 /\ p.type = prim.type /\ p.inputs = prim.inputs
      /\ p.maxOffset = prim.maxOffset /\ p.uses = prim.uses /\ p.indices = prim.indices
      /\ p.offset = 0 /\ p.vertexCount = prim.vertexCount /\ p.lastCount = prim.lastCount
  <2>1. prim.texts + 1 \in Nat  BY <1>1
  <2> QED  BY <1>1, <2>1 DEF Members
<1>3. GrownBy(p)  BY <1>1, <1>2 DEF GrownBy
<1>4. prim'.type = prim.type /\ prim' \in Members /\ GrownBy(prim') /\ prim'.inputs = prim.inputs
      /\ prim'.maxOffset = prim.maxOffset /\ prim'.offset = 0 /\ prim'.lastCount <= prim'.vertexCount
      /\ \/ prim'.vertexCount = prim.vertexCount /\ prim'.texts # 0
         \/ prim'.vertexCount = 0
  <2> DEFINE Same(q) == /\ q.type = prim.type /\ q \in Members /\ GrownBy(q) /\ q.inputs = prim.inputs
                        /\ q.maxOffset = prim.maxOffset /\ q.offset = 0 /\ q.lastCount <= q.vertexCount
                        /\ q.vertexCount = prim.vertexCount /\ q.texts # 0
  <2>1. ASSUME NEW q, Settled(p, q) PROVE Same(q)
    <3>1. q.vertexCount \in Nat
      <4>1. q \in Members  BY <2>1 DEF Settled
      <4> QED  BY <4>1 DEF Members
    <3>2. p.texts # 0  BY <1>1, <1>2
    <3> HIDE DEF p
    <3> QED  BY <1>2, <2>1, <3>1, <3>2 DEF Settled
  <2>2. CASE p.type \in {"LINESTRIPS", "TRISTRIPS", "TRIFANS"}
    <3>1. prim' = EndStrip(p)  BY <2>2 DEF EndP
    <3> HIDE DEF p
    <3>2. Settled(p, prim')  BY <1>1, <1>2, <1>3, <3>1, EndStripFacts
    <3>3. Same(prim')  BY <2>1, <3>2
    <3> QED  BY <3>3
  <2>3. CASE p.type = "POLYGONS"
    <3>1. prim' = EndPolygon(p, hasHoles)  BY <2>3 DEF EndP
    <3>2. hasHoles \in BOOLEAN  OBVIOUS
    <3> HIDE DEF p, hasHoles
    <3>3. Settled(p, prim')  BY <1>1, <1>2, <1>3, <3>1, <3>2, EndPolygonFacts
    <3>4. Same(prim')  BY <2>1, <3>3
    <3> QED  BY <3>4
  <2>4. CASE p.type = "LINES"
    <3>1. prim' = [NoPrimitive EXCEPT !.type = p.type, !.inputs = p.inputs, !.maxOffset = p.maxOffset]
      BY <2>4 DEF EndP, NoPrimitiveAfter
    <3>2. NoPrimitive \in Members  BY NoPrimitiveType
    <3> HIDE DEF p
    <3>3. /\ prim' \in Members /\ prim'.type = p.type /\ prim'.inputs = p.inputs
          /\ prim'.maxOffset = p.maxOffset
      BY <1>1, <1>2, <3>1, <3>2 DEF Members
    <3>4. /\ prim'.uses = << >> /\ prim'.indices = << >> /\ prim'.offset = 0 /\ prim'.vertexCount = 0
          /\ prim'.lastCount = 0
      BY <3>1 DEF NoPrimitive
    <3>5. GrownBy(prim')  BY <3>4 DEF GrownBy
    <3> QED  BY <1>2, <3>3, <3>4, <3>5
  <2>5. CASE p.type \notin {"LINESTRIPS", "TRISTRIPS", "TRIFANS", "POLYGONS", "LINES"}
    <3>1. prim' = p  BY <2>5 DEF EndP
    <3> HIDE DEF p
    <3>2. prim'.texts # 0  BY <1>1, <1>2, <3>1
    <3> QED  BY <1>1, <1>2, <1>3, <3>1, <3>2
  <2> QED  BY <2>2, <2>3, <2>4, <2>5
<1>5. element' \in {"primitive", "ph"} /\ element # "mesh"  BY DEF EndP
<1>6. UNCHANGED <<meshVars, raw, text, primitives, aborted>>  BY DEF EndP
<1> HIDE DEF p
<1> QED  BY <1>1, <1>4, <1>5, <1>6 DEF Elsewhere

LEMMA EndPhConsistent ==
    ASSUME Consistent, EndPh
    PROVE  Elsewhere
<1>1. /\ prim \in Members /\ GrownBy(prim) /\ prim.lastCount <= prim.vertexCount /\ prim.offset \in Nat
      /\ prim.texts \in Nat /\ text # << >> /\ (prim.offset > 0 => Reading)
  BY DEF EndPh, Consistent, Typed, Counted, Members
<1>2. ~Reading  BY DEF EndPh, Reading
<1>3. prim.offset = 0  BY <1>1, <1>2
<1>4. prim' = [prim EXCEPT !.texts = @ + 1]  BY DEF EndPh
<1>5. /\ prim' \in Members /\ prim'.texts = prim.texts + 1 /\ prim'.type = prim.type
      /\ prim'.inputs = prim.inputs /\ prim'.maxOffset = prim.maxOffset /\ prim'.uses = prim.uses
      /\ prim'.indices = prim.indices /\ prim'.offset = 0 /\ prim'.vertexCount = prim.vertexCount
      /\ prim'.lastCount = prim.lastCount
  <2>1. prim.texts + 1 \in Nat  BY <1>1
  <2> QED  BY <1>1, <1>3, <1>4, <2>1 DEF Members
<1>6. GrownBy(prim')  BY <1>1, <1>3, <1>5 DEF GrownBy
<1>7. prim'.texts # 0  BY <1>1, <1>5
<1> QED  BY <1>1, <1>5, <1>6, <1>7 DEF EndPh, Elsewhere

LEMMA EndHConsistent ==
    ASSUME Consistent, EndH
    PROVE  Elsewhere
<1> DEFINE n == prim.vertexCount - prim.lastCount
<1>1. /\ prim \in Members /\ GrownBy(prim) /\ prim.lastCount <= prim.vertexCount /\ prim.offset = 0
      /\ prim.texts \in Nat /\ text # << >> /\ prim.vertexCount \in Nat /\ prim.lastCount \in Nat
      /\ prim.vcounts \in Seq(Int)
  BY DEF EndH, Consistent, Typed, Counted, Members
<1>2. /\ prim' \in Members /\ prim'.type = prim.type
      /\ prim'.inputs = prim.inputs /\ prim'.maxOffset = prim.maxOffset /\ prim'.uses = prim.uses
      /\ prim'.indices = prim.indices /\ prim'.offset = 0 /\ prim'.vertexCount = prim.vertexCount
      /\ GrownBy(prim') /\ prim'.lastCount <= prim'.vertexCount
  <2>1. CASE n = 0
    <3>1. prim' = prim  BY <2>1 DEF EndH
    <3> QED  BY <1>1, <3>1
  <2>2. CASE n # 0
    <3>1. prim' = [prim EXCEPT !.vcounts = Append(@, -n), !.lastCount = prim.vertexCount]
      BY <2>2 DEF EndH
    <3>2. Append(prim.vcounts, -n) \in Seq(Int)  BY <1>1
    <3> HIDE DEF n
    <3>3. /\ prim' \in Members /\ prim'.type = prim.type
          /\ prim'.inputs = prim.inputs /\ prim'.maxOffset = prim.maxOffset /\ prim'.uses = prim.uses
          /\ prim'.indices = prim.indices /\ prim'.offset = 0 /\ prim'.vertexCount = prim.vertexCount
          /\ prim'.lastCount = prim.vertexCount
      BY <1>1, <3>1, <3>2 DEF Members
    <3>4. Len(prim'.indices) = Len(prim'.uses)  BY <1>1, <3>3 DEF GrownBy
    <3>5. GrownBy(prim')  BY <1>1, <3>3, <3>4, SettledGrows
    <3> QED  BY <1>1, <3>3, <3>5
  <2> QED  BY <2>1, <2>2
<1> HIDE DEF n
<1> QED  BY <1>1, <1>2 DEF EndH, Elsewhere

LEMMA BeginPhConsistent ==
    ASSUME Consistent, BeginPh
    PROVE  Consistent'
<1>1. prim \in Members /\ prim.offset \in Nat /\ (prim.offset > 0 => Reading) /\ prim.vertexCount \in Nat
  BY DEF Consistent, Typed, Counted, Members
<1>2. ~Reading  BY DEF BeginPh, Reading
<1>3. prim' = [prim EXCEPT !.emptyP = TRUE] /\ OpenText("ph") /\ element = "primitive"  BY DEF BeginPh
<1>4. /\ prim' \in Members /\ prim'.type = prim.type /\ prim'.inputs = prim.inputs
      /\ prim'.maxOffset = prim.maxOffset /\ prim'.uses = prim.uses /\ prim'.indices = prim.indices
      /\ prim'.offset = prim.offset /\ prim'.vertexCount = prim.vertexCount
      /\ prim'.lastCount = prim.lastCount /\ prim'.texts = prim.texts
  BY <1>1, <1>3 DEF Members
<1>5. text' \in Seq(Texts) /\ text' # << >> /\ Vertices' = Vertices
  BY <1>3, OpenTextFacts DEF Consistent
<1>6. Start' = Start  BY DEF BeginPh, meshVars, Start
<1>7. element' \in Elements /\ element' = "new ph"  BY DEF BeginPh, Elements
<1>8. Typed'  BY <1>3, <1>4, <1>5, <1>6, <1>7 DEF BeginPh, Consistent, Typed
<1>9. ~ (prim'.offset > 0)  BY <1>1, <1>2, <1>4
<1>10. Counted'  BY <1>1, <1>3, <1>4, <1>5, <1>7, <1>9 DEF Consistent, Counted
<1>11. GrownBy(prim')  BY <1>4 DEF Consistent, GrownBy
<1> QED  BY <1>8, <1>10, <1>11 DEF Consistent

LEMMA BeginHConsistent ==
    ASSUME Consistent, BeginH
    PROVE  Consistent'
<1>1. prim \in Members /\ prim.offset \in Nat /\ (prim.offset > 0 => Reading)
  BY DEF Consistent, Typed, Counted, Members
<1>2. ~Reading  BY DEF BeginH, Reading
<1>3. prim' = prim /\ OpenText("h") /\ element = "ph"  BY DEF BeginH
<1>4. text' \in Seq(Texts) /\ text' # << >> /\ Vertices' = Vertices
  BY <1>3, OpenTextFacts DEF Consistent
<1>5. Start' = Start  BY DEF BeginH, meshVars, Start
<1>6. element' \in Elements /\ element' = "h"  BY DEF BeginH, Elements
<1>7. Typed'  BY <1>3, <1>4, <1>5, <1>6 DEF BeginH, Consistent, Typed
<1>8. ~ (prim.offset > 0)  BY <1>1, <1>2
<1>9. Counted'  BY <1>3, <1>4, <1>6, <1>8 DEF Consistent, Counted
<1> QED  BY <1>3, <1>7, <1>9 DEF Consistent

LEMMA EndConsistent ==
    ASSUME Consistent, End
    PROVE  Consistent'
<1>1. prim' = NoPrimitive /\ element' = "mesh"  BY DEF End, NoPrimitiveAfter
<1>2. NoPrimitive \in Members /\ GrownBy(prim') /\ InputsUpTo(prim'.inputs, 0)
  BY <1>1, NoPrimitiveType
<1>3. /\ prim'.maxOffset = 0 /\ prim'.offset = 0 /\ prim'.vertexCount = 0 /\ prim'.lastCount = 0
  BY <1>1 DEF NoPrimitive
<1>4. Start' = Start /\ Vertices' = Vertices /\ text' = text /\ raw' = raw /\ aborted' = aborted
      /\ primitives' = primitives
  BY DEF End, meshVars, Start, Vertices
<1>5. Vertices \in Nat  BY VerticesInNat DEF Consistent
<1>6. InputsUpTo(prim'.inputs, prim'.maxOffset)  BY <1>2, <1>3
<1>7. Typed'  BY <1>1, <1>2, <1>4, <1>6 DEF Consistent, Typed, Elements
<1>8. Counted'
  <2>1. Vertices' <= MaxVertices /\ prim'.vertexCount <= Vertices' /\ prim'.lastCount <= prim'.vertexCount
    <3>1. Vertices <= MaxVertices  BY DEF Consistent, Counted
    <3>2. 0 <= Vertices  BY <1>5
    <3> QED  BY <1>3, <1>4, <3>1, <3>2
  <2>2. prim'.offset <= prim'.maxOffset /\ ~ (prim'.offset > 0)  BY <1>3
  <2> QED  BY <1>1, <1>3, <2>1, <2>2 DEF Counted
<1> QED  BY <1>2, <1>7, <1>8 DEF Consistent

LEMMA StepConsistent == Consistent /\ [Next]_vars => Consistent'
<1> SUFFICES ASSUME Consistent, [Next]_vars PROVE Consistent'  OBVIOUS
<1>1. ASSUME NEW type \in Types, Begin(type) PROVE Consistent'  BY <1>1, BeginConsistent
<1>2. ASSUME NEW l \in InputLists, NEW i \in DOMAIN l, BeginInput(l[i]) PROVE Consistent'
  <2>1. l \in Seq(Inputs)  BY MeshAssumption
  <2>2. l[i] \in Inputs  BY <2>1
  <2> QED  BY <1>2, <2>2, BeginInputConsistent
<1>3. ASSUME NEW n \in VertexCounts, DataVcount(n) PROVE Consistent'  BY <1>3, DataVcountConsistent
<1>4. CASE BeginP  BY <1>4, BeginPConsistent
<1>5. CASE Data  BY <1>5, DataConsistent
<1>6. CASE DataIgnored  BY <1>6, DataIgnoredConsistent
<1>7. CASE EndP  BY <1>7, EndPConsistent, ElsewhereConsistent
<1>8. CASE BeginPh  BY <1>8, BeginPhConsistent
<1>9. CASE EndPh  BY <1>9, EndPhConsistent, ElsewhereConsistent
<1>10. CASE BeginH  BY <1>10, BeginHConsistent
<1>11. CASE EndH  BY <1>11, EndHConsistent, ElsewhereConsistent
<1>12. CASE End  BY <1>12, EndConsistent
<1>13. CASE UNCHANGED vars
  <2>1. /\ Start' = Start /\ prim' = prim /\ raw' = raw /\ element' = element /\ text' = text
        /\ primitives' = primitives /\ aborted' = aborted /\ Vertices' = Vertices
    BY <1>13 DEF vars, meshVars, Start, Vertices
  <2>2. Reading' <=> Reading  BY <2>1 DEF Reading
  <2>3. Typed'  BY <2>1 DEF Consistent, Typed
  <2>4. Counted'  BY <2>1, <2>2 DEF Consistent, Counted
  <2> QED  BY <2>1, <2>3, <2>4 DEF Consistent
<1> QED
  BY <1>1, <1>2, <1>3, <1>4, <1>5, <1>6, <1>7, <1>8, <1>9, <1>10, <1>11, <1>12, <1>13 DEF Next

LEMMA AlwaysConsistent == Spec => []Consistent
BY InitConsistent, StepConsistent, PTL DEF Spec

LEMMA ConsistentType == Consistent => TypeOK
<1> SUFFICES ASSUME Consistent PROVE TypeOK  OBVIOUS
<1>1. Start \in ListsType /\ prim \in Members  BY DEF Consistent, Typed
<1>2. loaded \in [Sources -> SUBSET Semantics] /\ initialIndex \in [Sources -> Nat]
      /\ values \in [Lists -> Seq(Sources)]
  BY <1>1 DEF Start, ListsType
<1>3. \A l \in Lists : Range(values[l]) \subseteq Sources
  <2> SUFFICES ASSUME NEW l \in Lists PROVE Range(values[l]) \subseteq Sources  OBVIOUS
  <2>1. values[l] \in Seq(Sources)  BY <1>2
  <2> QED  BY <2>1 DEF Range
<1>4. element \in Elements /\ (element = "mesh" <=> prim.type = "NONE")
  BY DEF Consistent, Typed, NoPrimitive, Types
<1>5. prim.type \in Types \cup {"NONE"} /\ primitives \in 0 .. MaxPrimitives /\ aborted \in BOOLEAN
  BY <1>1 DEF Consistent, Typed, Members
<1>6. /\ prim.offset \in Nat /\ prim.maxOffset \in Nat /\ prim.lastCount \in Nat /\ prim.vertexCount \in Nat
      /\ Vertices \in Nat /\ MaxVertices \in Nat
  BY <1>1, VerticesInNat, MeshAssumption DEF Consistent, Members
<1>7. /\ prim.offset \in 0 .. prim.maxOffset
      /\ prim.lastCount \in 0 .. prim.vertexCount /\ prim.vertexCount \in 0 .. MaxVertices
  <2>1. /\ prim.offset <= prim.maxOffset /\ prim.lastCount <= prim.vertexCount
        /\ prim.vertexCount <= Vertices /\ Vertices <= MaxVertices
    BY DEF Consistent, Counted
  <2>2. \A a, b \in Nat : a <= b => a \in 0 .. b  OBVIOUS
  <2>3. prim.vertexCount <= MaxVertices  BY <1>6, <2>1
  <2> QED  BY <1>6, <2>1, <2>2, <2>3
<1>8. Len(prim.indices) = Len(prim.uses)  BY DEF Consistent, GrownBy
<1>9. \A i \in DOMAIN prim.indices : Len(prim.indices[i]) >= prim.vertexCount - prim.lastCount
  <2> SUFFICES ASSUME NEW i \in DOMAIN prim.indices
               PROVE  Len(prim.indices[i]) >= prim.vertexCount - prim.lastCount
    OBVIOUS
  <2>1. prim.uses \in Seq(IndexLists) /\ prim.indices \in Seq(Seq(Int))  BY <1>1 DEF Members
  <2>2. i \in 1 .. Len(prim.uses) /\ i \in DOMAIN prim.uses  BY <1>8, <2>1
  <2>3. Len(prim.indices[i]) \in Nat  BY <1>1, <1>8, <2>2, ElementsTyped
  <2>4. Len(prim.indices[i]) >= prim.vertexCount - prim.lastCount
                                + (IF prim.uses[i].offset < prim.offset THEN 1 ELSE 0)
    BY <2>2 DEF Consistent, GrownBy
  <2> QED  BY <1>6, <2>3, <2>4
<1> QED  BY <1>2, <1>3, <1>4, <1>5, <1>7, <1>8, <1>9 DEF TypeOK

\* For any meshes: the members of MeshLoader have their types, nothing is left in them of the primitive
\* before, and each index list in use has grown by a number for each vertex since the last strip or
\* polygon ended.
THEOREM MeshTypeInvariant == Spec => []TypeOK
BY AlwaysConsistent, ConsistentType, PTL

-----------------------------------------------------------------------------
(* Where the values of a source are                                        *)

\* Sums do not change when a source is appended.
LEMMA ValuesUpToAppend ==
    ASSUME NEW list \in Seq(Sources), NEW s \in Sources
    PROVE  \A k \in 0 .. Len(list) : ValuesUpTo(Append(list, s))[k] = ValuesUpTo(list)[k]
<1> DEFINE longer == Append(list, s)
           n == Len(list)
           f == ValuesUpTo(longer)
           g == ValuesUpTo(list)
<1>1. /\ longer \in Seq(Sources) /\ Len(longer) = n + 1 /\ n \in Nat
      /\ \A k \in 1 .. n : longer[k] = list[k]
  OBVIOUS
<1> HIDE DEF longer
<1>2. f[0] = 0 /\ \A k \in 1 .. Len(longer) : f[k] = f[k - 1] + Size(longer[k])
  BY <1>1, ValuesUpToFacts
<1>3. g[0] = 0 /\ \A k \in 1 .. n : g[k] = g[k - 1] + Size(list[k])
  BY ValuesUpToFacts
<1> HIDE DEF n, f, g
<1>4. GoAlike(n, f, g)  BY <1>1, <1>2, <1>3 DEF GoAlike
<1>5. n \in Nat  BY <1>1
<1>6. \A k \in 0 .. n : f[k] = g[k]  BY ONLY <1>4, <1>5, GoOnAlike
<1> QED  BY <1>6 DEF n, f, g, longer

\* Place k of a list is the only one of source s, and initial is where its values begin.
PlacedAt(list, s, initial, k) ==
    /\ list[k] = s /\ initial = ValuesUpTo(list)[k - 1]
    /\ \A j \in DOMAIN list : list[j] = s => j = k

\* A source that no semantic has loaded is in no list.  One that a single semantic has loaded, with
\* a stride that is taken, is in the list at one place, and mInitialIndex says where.
Placed(m) ==
    \A s \in Sources :
       /\ m.loaded[s] = {} => \A l \in Lists : \A j \in DOMAIN m.values[l] : m.values[l][j] # s
       /\ \A semantic \in Semantics :
             m.loaded[s] = {semantic} /\ Stride[s] \in StridesFor(semantic) =>
                \E k \in DOMAIN m.values[ListOf(semantic)] :
                   PlacedAt(m.values[ListOf(semantic)], s, m.initialIndex[s], k)

LEMMA PlacedAppend ==
    ASSUME NEW list \in Seq(Sources), NEW s \in Sources, NEW t \in Sources, s # t, NEW initial,
           NEW k \in DOMAIN list, PlacedAt(list, s, initial, k)
    PROVE  k \in DOMAIN Append(list, t) /\ PlacedAt(Append(list, t), s, initial, k)
<1> DEFINE longer == Append(list, t)
<1>1. /\ Len(list) \in Nat /\ DOMAIN list = 1 .. Len(list) /\ DOMAIN longer = 1 .. Len(list) + 1
      /\ \A j \in 1 .. Len(list) : longer[j] = list[j]
      /\ longer[Len(list) + 1] = t
  OBVIOUS
<1> HIDE DEF longer
<1>2. k \in 1 .. Len(list) /\ k - 1 \in 0 .. Len(list) /\ k \in DOMAIN longer  BY <1>1
<1>3. ValuesUpTo(longer)[k - 1] = ValuesUpTo(list)[k - 1]  BY <1>2, ValuesUpToAppend DEF longer
<1>4. \A j \in DOMAIN longer : longer[j] = s => j = k
  <2> SUFFICES ASSUME NEW j \in DOMAIN longer, longer[j] = s PROVE j = k  OBVIOUS
  <2>1. j # Len(list) + 1  BY <1>1
  <2>2. j \in 1 .. Len(list)  BY <1>1, <2>1
  <2> QED  BY <1>1, <2>2 DEF PlacedAt
<1>5. PlacedAt(longer, s, initial, k)  BY <1>1, <1>2, <1>3, <1>4 DEF PlacedAt
<1> QED  BY <1>2, <1>5 DEF longer

LEMMA PlacedLast ==
    ASSUME NEW list \in Seq(Sources), NEW s \in Sources, \A j \in DOMAIN list : list[j] # s
    PROVE  \E k \in DOMAIN Append(list, s) : PlacedAt(Append(list, s), s, ValuesCount(list), k)
<1> DEFINE longer == Append(list, s)
           k == Len(list) + 1
<1>1. /\ Len(list) \in Nat /\ DOMAIN list = 1 .. Len(list) /\ DOMAIN longer = 1 .. Len(list) + 1
      /\ \A j \in 1 .. Len(list) : longer[j] = list[j]
      /\ longer[k] = s
  OBVIOUS
<1> HIDE DEF longer
<1>2. k \in DOMAIN longer /\ k - 1 = Len(list) /\ Len(list) \in 0 .. Len(list)  BY <1>1
<1>3. ValuesUpTo(longer)[k - 1] = ValuesUpTo(list)[Len(list)]  BY <1>2, ValuesUpToAppend DEF longer
<1>4. ValuesCount(list) = ValuesUpTo(list)[Len(list)]  BY ValuesCountType
<1>5. \A j \in DOMAIN longer : longer[j] = s => j = k
  <2> SUFFICES ASSUME NEW j \in DOMAIN longer, longer[j] = s, j # k PROVE FALSE  OBVIOUS
  <2>1. j \in 1 .. Len(list)  BY <1>1
  <2> QED  BY <1>1, <2>1
<1>6. PlacedAt(longer, s, ValuesCount(list), k)  BY <1>1, <1>3, <1>4, <1>5 DEF PlacedAt
<1> QED  BY <1>2, <1>6 DEF longer

LEMMA LoadSourcePlaced ==
    ASSUME NEW m \in ListsType, Placed(m), NEW input \in Input
    PROVE  Placed(LoadSource(m, input))
<1> DEFINE s == input.source
           semantic == input.semantic
           list == ListOf(semantic)
           r == LoadSource(m, input)
           taken == Stride[s] \in StridesFor(semantic)
<1>1. CASE s \notin Sources \/ semantic \in m.loaded[s]
  BY <1>1 DEF LoadSource
<1>2. CASE s \in Sources /\ semantic \notin m.loaded[s]
  <2>1. semantic \in Semantics /\ list \in Lists  BY DEF Input, ListOf, Semantics, Lists
  <2>2. \A l \in Lists : m.values[l] \in Seq(Sources)  BY DEF ListsType
  <2>3. /\ r.loaded = [m.loaded EXCEPT ![s] = @ \cup {semantic}]
        /\ r.initialIndex = IF taken THEN [m.initialIndex EXCEPT ![s] = ValuesCount(m.values[list])]
                            ELSE m.initialIndex
        /\ r.values = IF taken THEN [m.values EXCEPT ![list] = Append(@, s)] ELSE m.values
    BY <1>2 DEF LoadSource
  <2>4. /\ m.loaded \in [Sources -> SUBSET Semantics] /\ m.initialIndex \in [Sources -> Nat]
        /\ m.values \in [Lists -> Seq(Sources)]
    BY DEF ListsType
  <2> HIDE DEF r, list, taken
  <2>5. /\ r.loaded[s] = m.loaded[s] \cup {semantic}
        /\ \A t \in Sources : t # s => r.loaded[t] = m.loaded[t] /\ r.initialIndex[t] = m.initialIndex[t]
        /\ \A l \in Lists : l # list => r.values[l] = m.values[l]
        /\ r.values[list] = IF taken THEN Append(m.values[list], s) ELSE m.values[list]
        /\ taken => r.initialIndex[s] = ValuesCount(m.values[list])
    BY <1>2, <2>1, <2>3, <2>4
  <2> SUFFICES ASSUME NEW t \in Sources
               PROVE  /\ r.loaded[t] = {} => \A l \in Lists : \A j \in DOMAIN r.values[l] : r.values[l][j] # t
                      /\ \A sem \in Semantics :
                            r.loaded[t] = {sem} /\ Stride[t] \in StridesFor(sem) =>
                               \E k \in DOMAIN r.values[ListOf(sem)] :
                                  PlacedAt(r.values[ListOf(sem)], t, r.initialIndex[t], k)
    BY DEF Placed, r
  <2>6. \A sem \in Semantics : ListOf(sem) \in Lists  BY DEF ListOf, Semantics, Lists
  <2>7. CASE t # s
    <3>1. r.loaded[t] = m.loaded[t] /\ r.initialIndex[t] = m.initialIndex[t]  BY <2>5, <2>7
    <3>2. ASSUME r.loaded[t] = {}, NEW l \in Lists, NEW j \in DOMAIN r.values[l]
          PROVE  r.values[l][j] # t
      <4>1. \A i \in DOMAIN m.values[l] : m.values[l][i] # t  BY <3>1, <3>2 DEF Placed
      <4>2. CASE r.values[l] = m.values[l]  BY <4>1, <4>2, <3>2
      <4>3. CASE r.values[l] = Append(m.values[l], s)
        <5>1. m.values[l] \in Seq(Sources)  BY <2>2
        <5> DEFINE v == m.values[l]
        <5> HIDE DEF v
        <5>2. v \in Seq(Sources) /\ j \in DOMAIN Append(v, s) /\ \A i \in DOMAIN v : v[i] # t
          BY <3>2, <4>1, <4>3, <5>1 DEF v
        <5>3. Append(v, s)[j] # t  BY <2>7, <5>2
        <5> QED  BY <4>3, <5>3 DEF v
      <4> QED  BY <2>5, <4>2, <4>3
    <3>3. ASSUME NEW sem \in Semantics, r.loaded[t] = {sem}, Stride[t] \in StridesFor(sem)
          PROVE  \E k \in DOMAIN r.values[ListOf(sem)] :
                    PlacedAt(r.values[ListOf(sem)], t, r.initialIndex[t], k)
      <4> DEFINE l == ListOf(sem)
      <4>1. l \in Lists /\ m.values[l] \in Seq(Sources)  BY <2>2, <2>6
      <4>2. PICK k \in DOMAIN m.values[l] : PlacedAt(m.values[l], t, m.initialIndex[t], k)
        BY <3>1, <3>3 DEF Placed
      <4>3. CASE r.values[l] = m.values[l]  BY <3>1, <4>2, <4>3
      <4>4. CASE r.values[l] = Append(m.values[l], s)
        <5>1. k \in DOMAIN Append(m.values[l], s) /\ PlacedAt(Append(m.values[l], s), t, m.initialIndex[t], k)
          BY <1>2, <2>7, <4>1, <4>2, PlacedAppend
        <5> QED  BY <3>1, <4>4, <5>1
      <4> QED  BY <2>5, <4>1, <4>3, <4>4
    <3> QED  BY <3>2, <3>3
  <2>8. CASE t = s
    <3>1. r.loaded[t] # {}  BY <2>5, <2>8
    <3>2. ASSUME NEW sem \in Semantics, r.loaded[t] = {sem}, Stride[t] \in StridesFor(sem)
          PROVE  \E k \in DOMAIN r.values[ListOf(sem)] :
                    PlacedAt(r.values[ListOf(sem)], t, r.initialIndex[t], k)
      <4>1. sem = semantic /\ m.loaded[s] = {}  BY <1>2, <2>5, <2>8, <3>2
      <4>2. taken /\ ListOf(sem) = list  BY <2>8, <3>2, <4>1 DEF taken, list
      <4>3. \A j \in DOMAIN m.values[list] : m.values[list][j] # s
        BY <1>2, <2>1, <4>1 DEF Placed, list
      <4>4. m.values[list] \in Seq(Sources)  BY <2>1, <2>2 DEF list
      <4>5. \E k \in DOMAIN Append(m.values[list], s) :
               PlacedAt(Append(m.values[list], s), s, ValuesCount(m.values[list]), k)
        BY ONLY <1>2, <4>3, <4>4, PlacedLast
      <4> QED  BY <2>5, <2>8, <4>2, <4>5
    <3> QED  BY <3>1, <3>2
  <2> QED  BY <2>7, <2>8
<1> QED  BY <1>1, <1>2

\* What holds of the start of a loop and is kept by each round holds of the end.
LEMMA LoopKeeps ==
    ASSUME NEW n \in Nat, NEW P \in SUBSET (0 .. n), 0 \in P,
           \A k \in 1 .. n : k - 1 \in P => k \in P
    PROVE  \A k \in 0 .. n : k \in P
<1> DEFINE Bad == {k \in 0 .. n : k \notin P}
<1>1. SUFFICES ASSUME Bad # {} PROVE FALSE  OBVIOUS
<1>2. PICK k \in Bad : \A m \in Bad : k <= m
  <2>1. Bad \in SUBSET Nat  OBVIOUS
  <2> HIDE DEF Bad
  <2> QED  BY <1>1, <2>1, Smallest
<1>3. k \in 0 .. n /\ k \notin P /\ k # 0  BY <1>2
<1>4. k \in 1 .. n /\ k - 1 \in 0 .. n /\ ~ (k <= k - 1)  BY <1>3
<1>5. k - 1 \in P  BY <1>2, <1>4
<1> QED  BY <1>3, <1>4, <1>5

LEMMA LoadSourceElementsPlaced ==
    ASSUME Start \in ListsType, Placed(Start), NEW inputs \in Seq(Input)
    PROVE  Placed(LoadSourceElements(inputs))
<1> DEFINE n == Len(inputs)
           f == LoadedAfter(inputs)
           P == {k \in 0 .. n : Placed(f[k])}
<1>1. n \in Nat /\ n \in 0 .. n /\ \A k \in 1 .. n : inputs[k] \in Input  OBVIOUS
<1>2. /\ f \in [0 .. n -> ListsType] /\ f[0] = Start
      /\ \A k \in 1 .. n : f[k] = LoadSource(f[k - 1], inputs[k])
  BY LoadedAfterFacts
<1> HIDE DEF n, f
<1>3. \A k \in 1 .. n : k \in 0 .. n /\ k - 1 \in 0 .. n  BY <1>1
<1>4. ASSUME NEW k \in 1 .. n, k - 1 \in P PROVE k \in P
  <2>1. f[k - 1] \in ListsType /\ Placed(f[k - 1])  BY <1>2, <1>3, <1>4
  <2>2. Placed(LoadSource(f[k - 1], inputs[k]))  BY <1>1, <2>1, LoadSourcePlaced
  <2> QED  BY <1>2, <1>3, <2>2
<1>5. 0 \in P /\ P \in SUBSET (0 .. n)  BY <1>1, <1>2
<1> HIDE DEF P
<1>6. \A k \in 0 .. n : k \in P  BY <1>1, <1>4, <1>5, LoopKeeps
<1>7. Placed(f[n])  BY <1>1, <1>6 DEF P
<1> QED  BY <1>7 DEF f, n, LoadSourceElements

-----------------------------------------------------------------------------
(* The contents of a list                                                  *)

Block(s) == [j \in 1 .. Stride[s] * Count[s] |-> <<s, j - 1>>]

LEMMA BlockFacts ==
    ASSUME NEW s \in Sources
    PROVE  /\ Block(s) \in Seq(Sources \X Nat) /\ Len(Block(s)) = Size(s)
           /\ Count[s] > 0 => Size(s) > 0 /\ Block(s)[1] = <<s, 0>>
<1> DEFINE n == Size(s)
           S == Sources \X Nat
<1>1. n \in Nat /\ Stride[s] \in Nat /\ Stride[s] > 0 /\ Count[s] \in Nat  BY SizeType
<1>2. Block(s) = [j \in 1 .. n |-> <<s, j - 1>>]  BY DEF Block, Size
<1>3. Count[s] > 0 => n > 0
  <2>1. \A a, b \in Nat : a > 0 /\ b > 0 => a * b > 0  OBVIOUS
  <2> QED  BY <1>1, <2>1 DEF Size
<1> HIDE DEF n
<1>4. \A j \in 1 .. n : <<s, j - 1>> \in S  BY <1>1
<1>5. n > 0 => Block(s)[1] = <<s, 0>>
  <2> SUFFICES ASSUME n > 0 PROVE Block(s)[1] = <<s, 0>>  OBVIOUS
  <2>1. 1 \in 1 .. n  BY <1>1
  <2>2. Block(s)[1] = <<s, 1 - 1>>  BY <1>2, <2>1
  <2>3. 1 - 1 = 0  OBVIOUS
  <2> QED  BY <2>2, <2>3
<1> HIDE DEF S
<1>6. Block(s) \in Seq(S) /\ Len(Block(s)) = n  BY <1>1, <1>2, <1>4
<1> QED  BY <1>3, <1>5, <1>6 DEF n, S

\* The values of the first sources
LEMMA ContentUpToFacts ==
    ASSUME NEW list \in Seq(Sources)
    PROVE  /\ ContentUpTo(list) \in [0 .. Len(list) -> Seq(Sources \X Nat)] /\ ContentUpTo(list)[0] = << >>
           /\ \A k \in 1 .. Len(list) : ContentUpTo(list)[k] = (ContentUpTo(list)[k - 1] \o Block(list[k]))
<1> DEFINE n == Len(list)
           V == Seq(Sources \X Nat)
           R(k, x) == (x \o Block(list[k]))
           step == [y \in (1 .. n) \X V |-> R(y[1], y[2])]
           Body(g) == [k \in 0 .. n |-> IF k = 0 THEN << >> 
                          ELSE g[k - 1] \o [j \in 1 .. Stride[list[k]] * Count[list[k]] |-> <<list[k], j - 1>>]]
           X == ContentUpTo(list)
<1>1. n \in Nat /\ << >> \in V  OBVIOUS
<1>2. \A k \in 1 .. n, x \in V : R(k, x) \in V
  <2>1. \A k \in 1 .. n : list[k] \in Sources  OBVIOUS
  <2>2. \A k \in 1 .. n : Block(list[k]) \in V  BY <2>1, BlockFacts
  <2>3. \A x, y \in V : x \o y \in V  OBVIOUS
  <2> HIDE DEF n, V
  <2> QED  BY <2>2, <2>3
<1>3. step \in [(1 .. n) \X V -> V]
  <2> HIDE DEF n, V, R
  <2> QED  BY <1>2
<1>4. PICK f : Rounds(n, V, << >>, step, f)
  <2> HIDE DEF n, V, step
  <2> QED  BY <1>1, <1>3, RoundsExist
<1>5. f \in [0 .. n -> V] /\ f[0] = << >> /\ \A k \in 1 .. n : f[k] = step[<<k, f[k - 1]>>]
  <2> HIDE DEF n, V, step
  <2> QED  BY <1>4 DEF Rounds
<1>6. \A k \in 1 .. n : f[k] = R(k, f[k - 1])
  <2> SUFFICES ASSUME NEW k \in 1 .. n PROVE f[k] = R(k, f[k - 1])  OBVIOUS
  <2> HIDE DEF n, V, R
  <2>1. f[k - 1] \in V  BY <1>1, <1>5
  <2> QED  BY <1>5, <2>1
<1>7. f = Body(f)
  <2>1. f = [k \in 0 .. n |-> f[k]]
    <3> HIDE DEF n, V
    <3> QED  BY <1>5
  <2>2. \A k \in 0 .. n : k # 0 => k \in 1 .. n
    <3> HIDE DEF n
    <3> QED  BY <1>1
  <2>3. ASSUME NEW k \in 0 .. n PROVE f[k] = Body(f)[k]
    <3>1. Body(f)[k] = IF k = 0 THEN << >> ELSE R(k, f[k - 1])  BY DEF Block
    <3> HIDE DEF n, V, R, Body
    <3> QED  BY <1>5, <1>6, <2>2, <3>1
  <2>4. Body(f) = [k \in 0 .. n |-> Body(f)[k]]  OBVIOUS
  <2> HIDE DEF n, Body
  <2> QED  BY <2>1, <2>3, <2>4, Zenon
<1>8. X = CHOOSE g : g = Body(g)  BY DEF ContentUpTo
<1>9. X = Body(X)
  <2> HIDE DEF X, Body
  <2> QED  BY <1>7, <1>8
<1>10. X[0] = << >> /\ \A k \in 1 .. n : X[k] = R(k, X[k - 1])
  <2>1. 0 \in 0 .. n /\ \A k \in 1 .. n : k \in 0 .. n /\ k # 0
    <3> HIDE DEF n
    <3> QED  BY <1>1
  <2>2. \A k \in 0 .. n : X[k] = IF k = 0 THEN << >> ELSE R(k, X[k - 1])
    <3> SUFFICES ASSUME NEW k \in 0 .. n PROVE X[k] = IF k = 0 THEN << >> ELSE R(k, X[k - 1])
      OBVIOUS
    <3>1. Body(X)[k] = IF k = 0 THEN << >> ELSE R(k, X[k - 1])  BY DEF Block
    <3> HIDE DEF X, n, V, R, Body
    <3> QED  BY <1>9, <3>1
  <2> HIDE DEF X, n, V, R
  <2> QED  BY <2>1, <2>2
<1>11. \A k \in 0 .. n : X[k] = f[k]
  <2> HIDE DEF X, n, V, R
  <2>1. GoAlike(n, X, f)  BY <1>5, <1>6, <1>10 DEF GoAlike
  <2>2. n \in Nat  BY <1>1
  <2> QED  BY ONLY <2>1, <2>2, GoOnAlike
<1>12. X \in [0 .. n -> V]
  <2>1. X = [k \in 0 .. n |-> X[k]]
    <3>1. Body(X) = [k \in 0 .. n |-> Body(X)[k]]  OBVIOUS
    <3> HIDE DEF X, n, Body
    <3> QED  BY <1>9, <3>1
  <2> HIDE DEF X, n, V
  <2> QED  BY <1>5, <1>11, <2>1
<1>13. ContentUpTo(list) \in [0 .. Len(list) -> Seq(Sources \X Nat)]  BY <1>12
<1> HIDE DEF X, V
<1> QED  BY <1>10, <1>13 DEF X

\* The first value of source k comes after the values of the sources before it.
LEMMA ContentFacts ==
    ASSUME NEW list \in Seq(Sources), NEW k \in DOMAIN list, Count[list[k]] > 0
    PROVE  /\ ValuesUpTo(list)[k - 1] \in Nat
           /\ ValuesUpTo(list)[k - 1] + 1 <= Len(Content(list))
           /\ Content(list)[ValuesUpTo(list)[k - 1] + 1] = <<list[k], 0>>
<1> DEFINE n == Len(list)
           c == ContentUpTo(list)
           v == ValuesUpTo(list)
           S == Seq(Sources \X Nat)
           at == v[k - 1] + 1
<1>1. n \in Nat /\ k \in 1 .. n /\ \A j \in 1 .. n : list[j] \in Sources  OBVIOUS
<1>2. c \in [0 .. n -> S] /\ c[0] = << >> /\ \A j \in 1 .. n : c[j] = c[j - 1] \o Block(list[j])
  BY ContentUpToFacts
<1>3. v \in [0 .. n -> Nat] /\ v[0] = 0 /\ \A j \in 1 .. n : v[j] = v[j - 1] + Size(list[j])
  BY ValuesUpToFacts
<1>4. \A j \in 1 .. n : Block(list[j]) \in S /\ Len(Block(list[j])) = Size(list[j])
  BY <1>1, BlockFacts
<1>5. Count[list[k]] > 0 => Size(list[k]) > 0 /\ Block(list[k])[1] = <<list[k], 0>>
  BY <1>1, BlockFacts
<1>6. \A x, y \in S : /\ Len(x \o y) = Len(x) + Len(y) /\ Len(x) \in Nat /\ Len(y) \in Nat
                      /\ \A i \in 1 .. Len(x) : (x \o y)[i] = x[i]
                      /\ Len(y) > 0 => (x \o y)[Len(x) + 1] = y[1]
  OBVIOUS
<1>7. \A j \in 1 .. n : Size(list[j]) \in Nat  BY <1>1, SizeType
<1> HIDE DEF n, c, v, S
<1>8. \A j \in 1 .. n : j \in 0 .. n /\ j - 1 \in 0 .. n  BY <1>1
<1>9. \A j \in 0 .. n : Len(c[j]) = v[j]
  <2> DEFINE P == {j \in 0 .. n : Len(c[j]) = v[j]}
  <2>1. 0 \in P  BY <1>1, <1>2, <1>3
  <2>2. ASSUME NEW j \in 1 .. n, j - 1 \in P PROVE j \in P
    <3>1. Len(c[j - 1]) = v[j - 1] /\ c[j - 1] \in S  BY <1>2, <1>8, <2>2
    <3>2. Block(list[j]) \in S /\ Len(Block(list[j])) = Size(list[j]) /\ c[j] = c[j - 1] \o Block(list[j])
      BY <1>2, <1>4
    <3>3. Len(c[j - 1] \o Block(list[j])) = Len(c[j - 1]) + Len(Block(list[j]))
      BY ONLY <1>6, <3>1, <3>2, Zenon
    <3>4. Len(c[j]) = v[j - 1] + Size(list[j])  BY ONLY <3>1, <3>2, <3>3, Zenon
    <3> QED  BY <1>3, <1>8, <3>4
  <2>3. P \in SUBSET (0 .. n)  OBVIOUS
  <2> HIDE DEF P
  <2>4. \A j \in 0 .. n : j \in P  BY <1>1, <2>1, <2>2, <2>3, LoopKeeps
  <2> QED  BY <2>4 DEF P
<1>10. at \in Nat /\ at > 0  BY <1>1, <1>3, <1>8
<1>11. \A j \in 0 .. n : j >= k => at <= Len(c[j]) /\ c[j][at] = <<list[k], 0>>
  <2> DEFINE Good(j) == at <= Len(c[j]) /\ c[j][at] = <<list[k], 0>>
             P == {j \in 0 .. n : j >= k => Good(j)}
  <2>1. 0 \in P  BY <1>1
  <2>2. ASSUME NEW j \in 1 .. n, j - 1 \in P PROVE j \in P
    <3>1. c[j - 1] \in S /\ Block(list[j]) \in S /\ c[j] = c[j - 1] \o Block(list[j])
          /\ Len(c[j - 1]) \in Nat /\ Len(c[j - 1]) = v[j - 1] /\ j \in 0 .. n
      BY <1>2, <1>4, <1>6, <1>8, <1>9
    <3>2. CASE j < k  BY <1>1, <3>1, <3>2
    <3>3. CASE j = k
      <4>1. Len(Block(list[j])) > 0 /\ Block(list[j])[1] = <<list[k], 0>> /\ Len(Block(list[j])) \in Nat
        BY <1>4, <1>5, <1>6, <3>1, <3>3
      <4>2. at = Len(c[j - 1]) + 1  BY <3>1, <3>3
      <4>3. Len(c[j]) = Len(c[j - 1]) + Len(Block(list[j])) /\ c[j][at] = Block(list[j])[1]
        <5> DEFINE x == c[j - 1]
                   y == Block(list[j])
        <5>1. x \in S /\ y \in S /\ c[j] = x \o y /\ Len(y) > 0 /\ at = Len(x) + 1  BY <3>1, <4>1, <4>2
        <5> HIDE DEF x, y
        <5>2. Len(x \o y) = Len(x) + Len(y) /\ (x \o y)[Len(x) + 1] = y[1]  BY ONLY <1>6, <5>1, Zenon
        <5>3. Len(c[j]) = Len(x) + Len(y) /\ c[j][at] = y[1]  BY ONLY <5>1, <5>2, Zenon
        <5> QED  BY <5>3 DEF x, y
      <4>4. Good(j)  BY <3>1, <4>1, <4>2, <4>3
      <4> QED  BY <3>1, <4>4
    <3>4. CASE j > k
      <4>1. Good(j - 1)  BY <1>1, <1>8, <2>2, <3>4
      <4>2. at \in 1 .. Len(c[j - 1])  BY <1>10, <3>1, <4>1
      <4>3. c[j][at] = c[j - 1][at] /\ Len(c[j]) = Len(c[j - 1]) + Len(Block(list[j]))
            /\ Len(Block(list[j])) \in Nat
        <5> DEFINE x == c[j - 1]
                   y == Block(list[j])
        <5>1. x \in S /\ y \in S /\ c[j] = x \o y /\ at \in 1 .. Len(x)  BY <3>1, <4>2
        <5> HIDE DEF x, y
        <5>2. Len(x \o y) = Len(x) + Len(y) /\ (x \o y)[at] = x[at] /\ Len(y) \in Nat
          BY ONLY <1>6, <5>1, Zenon
        <5>3. Len(c[j]) = Len(x) + Len(y) /\ c[j][at] = x[at] /\ Len(y) \in Nat
          BY ONLY <5>1, <5>2, Zenon
        <5> QED  BY <5>3 DEF x, y
      <4>4. at <= Len(c[j])  BY <1>10, <3>1, <4>2, <4>3
      <4>5. Good(j)  BY <4>1, <4>3, <4>4
      <4> QED  BY <3>1, <4>5
    <3> QED  BY <1>1, <3>2, <3>3, <3>4
  <2>3. P \in SUBSET (0 .. n)  OBVIOUS
  <2>4. \A j \in 0 .. n : j \in P
    <3> HIDE DEF P
    <3> QED  BY <1>1, <2>1, <2>2, <2>3, LoopKeeps
  <2> QED  BY <2>4
<1>12. n \in 0 .. n /\ n >= k /\ k - 1 \in 0 .. n  BY <1>1
<1>13. at <= Len(c[n]) /\ c[n][at] = <<list[k], 0>>  BY <1>11, <1>12
<1>14. v[k - 1] \in Nat  BY <1>3, <1>12
<1> QED  BY <1>13, <1>14 DEF Content, c, n, v

\* An offset that is a multiple of the stride is not changed by a division and a multiplication.
LEMMA WholeOffset ==
    ASSUME NEW n \in Nat, NEW d \in Nat, d > 0, n % d = 0
    PROVE  (n \div d) * d = n
  OBVIOUS

\* The index lists are moved to where their sources' values begin.
Based(uses) ==
    \A i \in DOMAIN uses :
       /\ uses[i].list \in Lists /\ uses[i].source \in Sources
       /\ uses[i].initial = IndexOffset(uses[i].list, uses[i].source, initialIndex)

\* A primitive that was appended is the last one, or one of LINES that has not yet ended.
SourcesFound ==
    /\ Placed(Start) /\ Based(prim.uses)
    /\ result.appended => /\ Based(result.uses)
                          /\ element = "mesh" \/ (prim.type = "LINES" /\ text # << >>)

LEMMA InitSourcesFound == Init => SourcesFound
<1> SUFFICES ASSUME Init PROVE SourcesFound  OBVIOUS
<1>1. Placed(Start)
  <2>1. /\ \A s \in Sources : Start.loaded[s] = {}
        /\ \A l \in Lists : Start.values[l] = << >>
    BY DEF Init, Start
  <2>2. \A l \in Lists : \A j \in DOMAIN Start.values[l] : FALSE  BY <2>1
  <2>3. \A s \in Sources, semantic \in Semantics : Start.loaded[s] # {semantic}  BY <2>1
  <2> QED  BY <2>2, <2>3 DEF Placed
<1>2. Based(prim.uses)  BY DEF Init, Based, NoPrimitive
<1>3. ~result.appended  BY DEF Init, None
<1> QED  BY <1>1, <1>2, <1>3 DEF SourcesFound

LEMMA BeginPSourcesFound ==
    ASSUME Consistent, SourcesFound, BeginP
    PROVE  SourcesFound'
<1>1. result' = result /\ element # "mesh"  BY DEF BeginP
<1>2. CASE prim.type \in {"TRIANGLES", "LINES"} \/ prim.texts = 0
  <2>1. StartIndices(prim) /\ prim.vertexCount = 0 /\ prim.lastCount = 0  BY <1>2, StartsFresh
  <2>2. /\ Start' = LoadSourceElements(prim.inputs) /\ initialIndex' \in [Sources -> Nat]
        /\ prim'.uses \in Seq(UsesOf(initialIndex', prim.maxOffset))
    BY <2>1, StartIndicesFacts DEF Consistent
  <2>3. Start \in ListsType /\ prim.inputs \in Seq(Input) /\ prim.maxOffset \in Nat
    BY DEF Consistent, Typed, Members
  <2>4. Placed(Start')
    <3>1. Placed(LoadSourceElements(prim.inputs))
      BY <2>3, LoadSourceElementsPlaced DEF SourcesFound
    <3> QED  BY <2>2, <3>1
  <2>5. Based(prim.uses)'
    <3> SUFFICES ASSUME NEW i \in DOMAIN prim'.uses
                 PROVE  /\ prim'.uses[i].list \in Lists /\ prim'.uses[i].source \in Sources
                        /\ prim'.uses[i].initial
                              = IndexOffset(prim'.uses[i].list, prim'.uses[i].source, initialIndex')
      BY DEF Based
    <3> DEFINE S == UsesOf(initialIndex', prim.maxOffset)
    <3>1. prim'.uses \in Seq(S)  BY <2>2
    <3>2. prim'.uses[i] \in S
      <4> HIDE DEF S
      <4> QED  BY <3>1
    <3> QED  BY <3>2 DEF UsesOf
  <2>6. ~result.appended
    <3>1. prim.type = "LINES" => text = << >>  BY DEF BeginP, Single
    <3> QED  BY <1>1, <3>1 DEF SourcesFound
  <2> QED  BY <1>1, <2>4, <2>5, <2>6 DEF SourcesFound
<1>3. CASE ~ (prim.type \in {"TRIANGLES", "LINES"} \/ prim.texts = 0)
  <2>1. /\ prim' = IF prim.type = "TRIFANS" THEN EndStrip(prim) ELSE prim
        /\ UNCHANGED meshVars
    BY <1>3 DEF BeginP
  <2>2. Start' = Start /\ initialIndex' = initialIndex  BY <2>1 DEF meshVars, Start
  <2>3. prim \in Members  BY DEF Consistent, Typed
  <2>4. prim'.uses = prim.uses
    <3>1. EndStrip(prim).uses = prim.uses  BY <2>3 DEF EndStrip, Members
    <3> QED  BY <2>1, <3>1
  <2>5. Placed(Start)' /\ Based(prim.uses)'  BY <2>2, <2>4 DEF SourcesFound, Based
  <2>6. ~result.appended  BY <1>1, <1>3 DEF SourcesFound
  <2> QED  BY <1>1, <2>5, <2>6 DEF SourcesFound
<1> QED  BY <1>2, <1>3

\* Steps that load nothing and leave the result alone
LEMMA NothingLoaded ==
    ASSUME SourcesFound, UNCHANGED <<meshVars, result>>, prim'.uses = prim.uses, element # "mesh",
           prim'.type = prim.type, text # << >> => text' # << >>
    PROVE  SourcesFound'
<1>1. Start' = Start /\ initialIndex' = initialIndex /\ result' = result  BY DEF meshVars, Start
<1>2. Placed(Start)' /\ Based(prim.uses)'  BY <1>1 DEF SourcesFound, Based
<1>3. result'.appended => Based(result.uses)'  BY <1>1 DEF SourcesFound, Based
<1>4. result'.appended => prim'.type = "LINES" /\ text' # << >>  BY <1>1 DEF SourcesFound
<1> QED  BY <1>2, <1>3, <1>4 DEF SourcesFound

LEMMA EndPSourcesFound ==
    ASSUME Consistent, SourcesFound, EndP
    PROVE  SourcesFound'
<1> DEFINE p == [prim EXCEPT !.texts = @ + 1]
<1>1. prim \in Members /\ text # << >> /\ text' = text /\ element # "mesh" /\ UNCHANGED meshVars
  BY DEF EndP, Consistent, Typed, Counted
<1>2. Start' = Start /\ initialIndex' = initialIndex  BY <1>1 DEF meshVars, Start
<1>3. p.uses = prim.uses /\ p.type = prim.type  BY <1>1 DEF Members
<1>4. CASE p.type = "LINES"
  <2>1. /\ prim' = [NoPrimitive EXCEPT !.type = p.type, !.inputs = p.inputs, !.maxOffset = p.maxOffset]
        /\ result' = IF p.vertexCount \div 2 > 0 THEN Appended(p, p.vertexCount \div 2) ELSE Discarded(p)
    BY <1>4 DEF EndP, NoPrimitiveAfter
  <2> HIDE DEF p
  <2>2. prim'.uses = << >> /\ prim'.type = "LINES"  BY <1>4, <2>1 DEF NoPrimitive
  <2>3. result'.appended => result'.uses = prim.uses  BY <1>3, <2>1 DEF Appended, Discarded
  <2>4. Placed(Start)'  BY <1>2 DEF SourcesFound
  <2>5. Based(prim.uses)'  BY <2>2 DEF Based
  <2>6. result'.appended => Based(result.uses)'  BY <1>2, <2>3 DEF SourcesFound, Based
  <2> QED  BY <1>1, <2>2, <2>4, <2>5, <2>6 DEF SourcesFound
<1>5. CASE p.type # "LINES"
  <2>1. /\ prim' \in {EndStrip(p), EndPolygon(p, element = "ph p"), p} /\ result' = result
    BY <1>5 DEF EndP
  <2>2. prim'.uses = prim.uses /\ prim'.type = prim.type
    <3>1. EndStrip(p).uses = p.uses /\ EndStrip(p).type = p.type
      BY <1>1 DEF EndStrip, Members
    <3>2. /\ EndPolygon(p, element = "ph p").uses = p.uses
          /\ EndPolygon(p, element = "ph p").type = p.type
      BY <1>1 DEF EndPolygon, Members
    <3> HIDE DEF p
    <3> QED  BY <1>3, <2>1, <3>1, <3>2
  <2> QED  BY <1>1, <2>1, <2>2, NothingLoaded
<1> QED  BY <1>4, <1>5

LEMMA EndSourcesFound ==
    ASSUME Consistent, SourcesFound, End
    PROVE  SourcesFound'
<1>1. Start' = Start /\ initialIndex' = initialIndex /\ element' = "mesh" /\ prim'.uses = << >>
  BY DEF End, meshVars, Start, NoPrimitiveAfter, NoPrimitive
<1>2. result'.appended => result' = result \/ result'.uses = prim.uses
  BY DEF End, Appended, Discarded
<1>3. Placed(Start)' /\ Based(prim.uses)'  BY <1>1 DEF SourcesFound, Based
<1>4. result'.appended => Based(result.uses)'
  BY <1>1, <1>2 DEF SourcesFound, Based
<1> QED  BY <1>1, <1>3, <1>4 DEF SourcesFound

LEMMA StepSourcesFound == Consistent /\ SourcesFound /\ [Next]_vars => SourcesFound'
<1> SUFFICES ASSUME Consistent, SourcesFound, [Next]_vars PROVE SourcesFound'  OBVIOUS
<1>1. prim \in Members  BY DEF Consistent, Typed
<1>2. ASSUME NEW type \in Types, Begin(type) PROVE SourcesFound'
  <2>1. Start' = Start /\ initialIndex' = initialIndex /\ result' = None /\ prim'.uses = prim.uses
    BY <1>1, <1>2 DEF Begin, meshVars, Start, Members
  <2>2. ~result'.appended  BY <2>1 DEF None
  <2> QED  BY <2>1, <2>2 DEF SourcesFound, Based
<1>3. ASSUME NEW l \in InputLists, NEW i \in DOMAIN l, BeginInput(l[i]) PROVE SourcesFound'
  <2>1. prim'.uses = prim.uses /\ prim'.type = prim.type  BY <1>1, <1>3 DEF BeginInput, Members
  <2> QED  BY <1>3, <2>1, NothingLoaded DEF BeginInput
<1>4. ASSUME NEW n \in VertexCounts, DataVcount(n) PROVE SourcesFound'
  <2>1. prim'.uses = prim.uses /\ prim'.type = prim.type  BY <1>1, <1>4 DEF DataVcount, Members
  <2> QED  BY <1>4, <2>1, NothingLoaded DEF DataVcount
<1>5. CASE BeginP  BY <1>5, BeginPSourcesFound
<1>6. CASE Data
  <2>1. prim'.uses = prim.uses /\ prim'.type = prim.type  BY <1>1, <1>6 DEF Data, WriteIndex, Members
  <2>2. text # << >> => text' # << >>
    <3>1. CASE Lengthen  BY <3>1, LengthenFacts DEF Consistent
    <3>2. CASE text' = text  BY <3>2
    <3> QED  BY <1>6, <3>1, <3>2 DEF Data
  <2> QED  BY <1>6, <2>1, <2>2, NothingLoaded DEF Data
<1>7. CASE DataIgnored
  <2>1. text # << >> => text' # << >>  BY <1>7, LengthenFacts DEF Consistent, DataIgnored
  <2> QED  BY <1>7, <2>1, NothingLoaded DEF DataIgnored
<1>8. CASE EndP  BY <1>8, EndPSourcesFound
<1>9. CASE BeginPh
  <2>1. prim'.uses = prim.uses /\ prim'.type = prim.type  BY <1>1, <1>9 DEF BeginPh, Members
  <2>2. text' # << >>  BY <1>9, OpenTextFacts DEF Consistent, BeginPh
  <2> QED  BY <1>9, <2>1, <2>2, NothingLoaded DEF BeginPh
<1>10. CASE EndPh
  <2>1. prim'.uses = prim.uses /\ prim'.type = prim.type  BY <1>1, <1>10 DEF EndPh, Members
  <2> QED  BY <1>10, <2>1, NothingLoaded DEF EndPh
<1>11. CASE BeginH
  <2>1. text' # << >>  BY <1>11, OpenTextFacts DEF Consistent, BeginH
  <2> QED  BY <1>11, <2>1, NothingLoaded DEF BeginH
<1>12. CASE EndH
  <2>1. prim'.uses = prim.uses /\ prim'.type = prim.type  BY <1>1, <1>12 DEF EndH, Members
  <2> QED  BY <1>12, <2>1, NothingLoaded DEF EndH
<1>13. CASE End  BY <1>13, EndSourcesFound
<1>14. CASE UNCHANGED vars
  <2>1. Start' = Start /\ initialIndex' = initialIndex /\ prim' = prim /\ result' = result
        /\ element' = element /\ text' = text
    BY <1>14 DEF vars, meshVars, Start
  <2> QED  BY <2>1 DEF SourcesFound, Based
<1> QED
  BY <1>2, <1>3, <1>4, <1>5, <1>6, <1>7, <1>8, <1>9, <1>10, <1>11, <1>12, <1>13, <1>14 DEF Next

LEMMA SourcesFoundHere == Consistent /\ SourcesFound => IndicesFindTheirSource
<1> SUFFICES ASSUME Consistent, SourcesFound, result.appended,
                    NEW i \in DOMAIN result.uses, Plain(result.uses[i]), Count[result.uses[i].source] > 0
             PROVE  LET use == result.uses[i]
                        at == use.initial * Stride[use.source] + 1
                    IN  /\ at <= Len(Content(values[use.list]))
                        /\ Content(values[use.list])[at] = <<use.source, 0>>
  BY DEF IndicesFindTheirSource
<1> DEFINE use == result.uses[i]
           s == use.source
           l == use.list
           list == values[l]
           d == Stride[s]
<1>1. l \in Lists /\ s \in Sources /\ use.initial = IndexOffset(l, s, initialIndex)
  BY DEF SourcesFound, Based
<1>2. Start \in ListsType /\ values = Start.values /\ loaded = Start.loaded /\ initialIndex = Start.initialIndex
  BY DEF Consistent, Typed, Start
<1>3. list \in Seq(Sources)  BY <1>1, <1>2 DEF ListsType
<1>4. loaded[s] = {l} /\ d \in StridesFor(l)
  BY DEF Plain
<1>5. l \in Semantics /\ ListOf(l) = l  BY <1>1 DEF Lists, Semantics, ListOf
<1>6. PICK k \in DOMAIN list : PlacedAt(list, s, initialIndex[s], k)
  <2>1. \E k \in DOMAIN Start.values[ListOf(l)] : PlacedAt(Start.values[ListOf(l)], s, Start.initialIndex[s], k)
    BY <1>1, <1>2, <1>4, <1>5 DEF SourcesFound, Placed
  <2> QED  BY <1>2, <1>5, <2>1
<1>7. list[k] = s /\ initialIndex[s] = ValuesUpTo(list)[k - 1]  BY <1>6 DEF PlacedAt
<1>8. d \in Nat /\ d > 0 /\ initialIndex[s] \in Nat  BY <1>1, <1>2, SizeType DEF ListsType
<1>9. use.initial * d = initialIndex[s]
  <2>1. initialIndex[s] % d = 0 /\ (l = "POSITION" => initialIndex[s] = 0)
    BY <1>7 DEF Plain
  <2>2. CASE l = "POSITION"
    <3>1. use.initial = initialIndex[s]  BY <1>1, <2>2 DEF IndexOffset
    <3> QED  BY <1>8, <2>1, <2>2, <3>1
  <2>3. CASE l # "POSITION"
    <3>1. use.initial = initialIndex[s] \div d  BY <1>1, <2>3 DEF IndexOffset
    <3>2. (initialIndex[s] \div d) * d = initialIndex[s]
      <4> HIDE DEF s, d
      <4> QED  BY <1>8, <2>1, WholeOffset
    <3> QED  BY <3>1, <3>2
  <2> QED  BY <2>2, <2>3
<1>10. /\ ValuesUpTo(list)[k - 1] + 1 <= Len(Content(list))
       /\ Content(list)[ValuesUpTo(list)[k - 1] + 1] = <<list[k], 0>>
  <2>1. Count[list[k]] > 0  BY <1>7
  <2> HIDE DEF list
  <2> QED  BY <1>3, <2>1, ContentFacts
<1>11. /\ use.initial * d + 1 <= Len(Content(list))
       /\ Content(list)[use.initial * d + 1] = <<s, 0>>
  <2>1. use.initial * d + 1 = ValuesUpTo(list)[k - 1] + 1  BY <1>7, <1>9
  <2> HIDE DEF list, d, s, use
  <2> QED  BY <1>7, <1>10, <2>1
<1> QED  BY <1>11

\* However many primitives loaded sources before it, in whatever order, the indices of an input lead to
\* the values of its source, if no other semantic has loaded it, its stride is taken, and what is before
\* it in the list is a whole number of elements of its stride, and nothing for positions.
THEOREM SourcesAreFound == Spec => []IndicesFindTheirSource
<1>1. Spec => [](Consistent /\ SourcesFound)
  <2>1. Init => Consistent /\ SourcesFound  BY InitConsistent, InitSourcesFound
  <2>2. (Consistent /\ SourcesFound) /\ [Next]_vars => (Consistent /\ SourcesFound)'
    BY StepConsistent, StepSourcesFound
  <2> QED  BY <2>1, <2>2, PTL DEF Spec
<1> QED  BY <1>1, SourcesFoundHere, PTL

-----------------------------------------------------------------------------
(* The vertices of the text                                                *)

Part(t, n) == [k \in 1 .. n |-> t.first + k - 1]

LEMMA PartFacts ==
    ASSUME NEW t \in Texts, NEW n \in Nat
    PROVE  /\ Part(t, n) \in Seq(Nat) /\ Len(Part(t, n)) = n
           /\ \A k \in 1 .. n : Part(t, n)[k] = t.first + k - 1
<1>1. t.first \in Nat  BY DEF Texts
<1>2. \A k \in 1 .. n : t.first + k - 1 \in Nat  BY <1>1
<1>3. \A k \in 1 .. n : Part(t, n)[k] = t.first + k - 1  BY DEF Part
<1>4. Part(t, n) = [k \in 1 .. n |-> Part(t, n)[k]] /\ DOMAIN Part(t, n) = 1 .. n  BY DEF Part
<1> QED  BY <1>2, <1>3, <1>4

\* What element k contributes
Contribution(type, t, k) == IF Kept(type, t, k) THEN Ids(t[k]) ELSE << >>

LEMMA ContributionFacts ==
    ASSUME NEW t \in Seq(Texts), NEW k \in 1 .. Len(t), NEW type
    PROVE  /\ Contribution(type, t, k) \in Seq(Nat)
           /\ Contribution(type, t, k) = IF Kept(type, t, k) THEN Part(t[k], t[k].length) ELSE << >>
           /\ t[k].length \in Nat /\ t[k].first \in Nat /\ t[k] \in Texts
           /\ Kept(type, t, k) => Len(Contribution(type, t, k)) = t[k].length
<1>1. t[k] \in Texts  OBVIOUS
<1>2. t[k].length \in Nat /\ t[k].first \in Nat  BY <1>1 DEF Texts
<1>3. Contribution(type, t, k) = IF Kept(type, t, k) THEN Part(t[k], t[k].length) ELSE << >>
  BY DEF Contribution, Ids, Part
<1>4. Part(t[k], t[k].length) \in Seq(Nat) /\ Len(Part(t[k], t[k].length)) = t[k].length
  BY <1>1, <1>2, PartFacts
<1>5. << >> \in Seq(Nat)  OBVIOUS
<1> QED  BY <1>1, <1>2, <1>3, <1>4, <1>5

\* The vertices that are kept of the first elements
LEMMA KeptUpToFacts ==
    ASSUME NEW t \in Seq(Texts), NEW type
    PROVE  /\ KeptUpTo(type, t) \in [0 .. Len(t) -> Seq(Nat)] /\ KeptUpTo(type, t)[0] = << >>
           /\ \A k \in 1 .. Len(t) :
                 KeptUpTo(type, t)[k] = (KeptUpTo(type, t)[k - 1] \o Contribution(type, t, k))
<1> DEFINE n == Len(t)
           V == Seq(Nat)
           R(k, x) == (x \o Contribution(type, t, k))
           step == [y \in (1 .. n) \X V |-> R(y[1], y[2])]
           Body(g) == [k \in 0 .. n |-> IF k = 0 THEN << >>
                          ELSE g[k - 1] \o (IF Kept(type, t, k) THEN Ids(t[k]) ELSE << >>)]
           X == KeptUpTo(type, t)
<1>1. n \in Nat /\ << >> \in V  OBVIOUS
<1>2. \A k \in 1 .. n, x \in V : R(k, x) \in V
  <2>1. \A k \in 1 .. n : Contribution(type, t, k) \in V  BY ContributionFacts
  <2>2. \A x, y \in V : x \o y \in V  OBVIOUS
  <2> HIDE DEF n, V
  <2> QED  BY <2>1, <2>2
<1>3. step \in [(1 .. n) \X V -> V]
  <2> HIDE DEF n, V, R
  <2> QED  BY <1>2
<1>4. PICK f : Rounds(n, V, << >>, step, f)
  <2> HIDE DEF n, V, step
  <2> QED  BY <1>1, <1>3, RoundsExist
<1>5. f \in [0 .. n -> V] /\ f[0] = << >> /\ \A k \in 1 .. n : f[k] = step[<<k, f[k - 1]>>]
  <2> HIDE DEF n, V, step
  <2> QED  BY <1>4 DEF Rounds
<1>6. \A k \in 1 .. n : f[k] = R(k, f[k - 1])
  <2> SUFFICES ASSUME NEW k \in 1 .. n PROVE f[k] = R(k, f[k - 1])  OBVIOUS
  <2> HIDE DEF n, V, R
  <2>1. f[k - 1] \in V  BY <1>1, <1>5
  <2> QED  BY <1>5, <2>1
<1>7. f = Body(f)
  <2>1. f = [k \in 0 .. n |-> f[k]]
    <3> HIDE DEF n, V
    <3> QED  BY <1>5
  <2>2. \A k \in 0 .. n : k # 0 => k \in 1 .. n
    <3> HIDE DEF n
    <3> QED  BY <1>1
  <2>3. ASSUME NEW k \in 0 .. n PROVE f[k] = Body(f)[k]
    <3>1. Body(f)[k] = IF k = 0 THEN << >> ELSE R(k, f[k - 1])  BY DEF Contribution
    <3> HIDE DEF n, V, R, Body
    <3> QED  BY <1>5, <1>6, <2>2, <3>1
  <2>4. Body(f) = [k \in 0 .. n |-> Body(f)[k]]  OBVIOUS
  <2> HIDE DEF n, Body
  <2> QED  BY <2>1, <2>3, <2>4, Zenon
<1>8. X = CHOOSE g : g = Body(g)  BY DEF KeptUpTo
<1>9. X = Body(X)
  <2> HIDE DEF X, Body
  <2> QED  BY <1>7, <1>8
<1>10. X[0] = << >> /\ \A k \in 1 .. n : X[k] = R(k, X[k - 1])
  <2>1. 0 \in 0 .. n /\ \A k \in 1 .. n : k \in 0 .. n /\ k # 0
    <3> HIDE DEF n
    <3> QED  BY <1>1
  <2>2. \A k \in 0 .. n : X[k] = IF k = 0 THEN << >> ELSE R(k, X[k - 1])
    <3> SUFFICES ASSUME NEW k \in 0 .. n PROVE X[k] = IF k = 0 THEN << >> ELSE R(k, X[k - 1])
      OBVIOUS
    <3>1. Body(X)[k] = IF k = 0 THEN << >> ELSE R(k, X[k - 1])  BY DEF Contribution
    <3> HIDE DEF X, n, V, R, Body
    <3> QED  BY <1>9, <3>1
  <2> HIDE DEF X, n, V, R
  <2> QED  BY <2>1, <2>2
<1>11. \A k \in 0 .. n : X[k] = f[k]
  <2> HIDE DEF X, n, V, R
  <2>1. GoAlike(n, X, f)  BY <1>5, <1>6, <1>10 DEF GoAlike
  <2>2. n \in Nat  BY <1>1
  <2> QED  BY ONLY <2>1, <2>2, GoOnAlike
<1>12. X \in [0 .. n -> V]
  <2>1. X = [k \in 0 .. n |-> X[k]]
    <3>1. Body(X) = [k \in 0 .. n |-> Body(X)[k]]  OBVIOUS
    <3> HIDE DEF X, n, Body
    <3> QED  BY <1>9, <3>1
  <2> HIDE DEF X, n, V
  <2> QED  BY <1>5, <1>11, <2>1
<1>13. KeptUpTo(type, t) \in [0 .. Len(t) -> Seq(Nat)]  BY <1>12
<1> HIDE DEF X, V
<1> QED  BY <1>10, <1>13 DEF X

\* What element k adds to the counts
Counting(type, t, k) == type \in Strips \cup {"POLYGONS"} /\ Kept(type, t, k) /\ t[k].length # 0
CountOf(t, k) == IF t[k].tag = "h" THEN -t[k].length ELSE t[k].length

\* The counts of the first elements
LEMMA GroupsUpToFacts ==
    ASSUME NEW t \in Seq(Texts), NEW type
    PROVE  /\ GroupsUpTo(type, t) \in [0 .. Len(t) -> Seq(Int)] /\ GroupsUpTo(type, t)[0] = << >>
           /\ \A k \in 1 .. Len(t) :
                 GroupsUpTo(type, t)[k] =
                    (IF Counting(type, t, k) THEN Append(GroupsUpTo(type, t)[k - 1], CountOf(t, k))
                     ELSE GroupsUpTo(type, t)[k - 1])
<1> DEFINE n == Len(t)
           V == Seq(Int)
           R(k, x) == (IF Counting(type, t, k) THEN Append(x, CountOf(t, k)) ELSE x)
           step == [y \in (1 .. n) \X V |-> R(y[1], y[2])]
           Body(g) == [k \in 0 .. n |-> IF k = 0 THEN << >>
                          ELSE IF type \notin Strips \cup {"POLYGONS"} \/ ~Kept(type, t, k) \/ t[k].length = 0
                          THEN g[k - 1]
                          ELSE Append(g[k - 1], IF t[k].tag = "h" THEN -t[k].length ELSE t[k].length)]
           X == GroupsUpTo(type, t)
<1>1. n \in Nat /\ << >> \in V  OBVIOUS
<1>2. \A k \in 1 .. n, x \in V : R(k, x) \in V
  <2> SUFFICES ASSUME NEW k \in 1 .. n, NEW x \in V PROVE Append(x, CountOf(t, k)) \in V
    OBVIOUS
  <2>1. t[k].length \in Nat  BY ContributionFacts
  <2>2. CountOf(t, k) \in Int  BY <2>1 DEF CountOf
  <2> QED  BY <2>2
<1>3. step \in [(1 .. n) \X V -> V]
  <2> HIDE DEF n, V, R
  <2> QED  BY <1>2
<1>4. PICK f : Rounds(n, V, << >>, step, f)
  <2> HIDE DEF n, V, step
  <2> QED  BY <1>1, <1>3, RoundsExist
<1>5. f \in [0 .. n -> V] /\ f[0] = << >> /\ \A k \in 1 .. n : f[k] = step[<<k, f[k - 1]>>]
  <2> HIDE DEF n, V, step
  <2> QED  BY <1>4 DEF Rounds
<1>6. \A k \in 1 .. n : f[k] = R(k, f[k - 1])
  <2> SUFFICES ASSUME NEW k \in 1 .. n PROVE f[k] = R(k, f[k - 1])  OBVIOUS
  <2> HIDE DEF n, V, R
  <2>1. f[k - 1] \in V  BY <1>1, <1>5
  <2> QED  BY <1>5, <2>1
<1>7. f = Body(f)
  <2>1. f = [k \in 0 .. n |-> f[k]]
    <3> HIDE DEF n, V
    <3> QED  BY <1>5
  <2>2. \A k \in 0 .. n : k # 0 => k \in 1 .. n
    <3> HIDE DEF n
    <3> QED  BY <1>1
  <2>3. ASSUME NEW k \in 0 .. n PROVE f[k] = Body(f)[k]
    <3>1. Body(f)[k] = IF k = 0 THEN << >> ELSE R(k, f[k - 1])  BY DEF Counting, CountOf
    <3> HIDE DEF n, V, R, Body
    <3> QED  BY <1>5, <1>6, <2>2, <3>1
  <2>4. Body(f) = [k \in 0 .. n |-> Body(f)[k]]  OBVIOUS
  <2> HIDE DEF n, Body
  <2> QED  BY <2>1, <2>3, <2>4, Zenon
<1>8. X = CHOOSE g : g = Body(g)  BY DEF GroupsUpTo
<1>9. X = Body(X)
  <2> HIDE DEF X, Body
  <2> QED  BY <1>7, <1>8
<1>10. X[0] = << >> /\ \A k \in 1 .. n : X[k] = R(k, X[k - 1])
  <2>1. 0 \in 0 .. n /\ \A k \in 1 .. n : k \in 0 .. n /\ k # 0
    <3> HIDE DEF n
    <3> QED  BY <1>1
  <2>2. \A k \in 0 .. n : X[k] = IF k = 0 THEN << >> ELSE R(k, X[k - 1])
    <3> SUFFICES ASSUME NEW k \in 0 .. n PROVE X[k] = IF k = 0 THEN << >> ELSE R(k, X[k - 1])
      OBVIOUS
    <3>1. Body(X)[k] = IF k = 0 THEN << >> ELSE R(k, X[k - 1])  BY DEF Counting, CountOf
    <3> HIDE DEF X, n, V, R, Body
    <3> QED  BY <1>9, <3>1
  <2> HIDE DEF X, n, V, R
  <2> QED  BY <2>1, <2>2
<1>11. \A k \in 0 .. n : X[k] = f[k]
  <2> HIDE DEF X, n, V, R
  <2>1. GoAlike(n, X, f)  BY <1>5, <1>6, <1>10 DEF GoAlike
  <2>2. n \in Nat  BY <1>1
  <2> QED  BY ONLY <2>1, <2>2, GoOnAlike
<1>12. X \in [0 .. n -> V]
  <2>1. X = [k \in 0 .. n |-> X[k]]
    <3>1. Body(X) = [k \in 0 .. n |-> Body(X)[k]]  OBVIOUS
    <3> HIDE DEF X, n, Body
    <3> QED  BY <1>9, <3>1
  <2> HIDE DEF X, n, V
  <2> QED  BY <1>5, <1>11, <2>1
<1>13. GroupsUpTo(type, t) \in [0 .. Len(t) -> Seq(Int)]  BY <1>12
<1> HIDE DEF X, V
<1> QED  BY <1>10, <1>13 DEF X

\* The faces of the first strips, polygons and holes
LEMMA FacesUpToFacts ==
    ASSUME NEW vcounts \in Seq(Int), NEW type
    PROVE  /\ FacesUpTo(type, vcounts) \in [0 .. Len(vcounts) -> Int] /\ FacesUpTo(type, vcounts)[0] = 0
           /\ \A k \in 1 .. Len(vcounts) :
                 FacesUpTo(type, vcounts)[k] = FacesUpTo(type, vcounts)[k - 1] + FacesIn(type, vcounts[k])
<1> DEFINE n == Len(vcounts)
           V == Int
           R(k, x) == x + FacesIn(type, vcounts[k])
           step == [y \in (1 .. n) \X V |-> R(y[1], y[2])]
           Body(g) == [k \in 0 .. n |-> IF k = 0 THEN 0 ELSE g[k - 1] + FacesIn(type, vcounts[k])]
           X == FacesUpTo(type, vcounts)
<1>1. n \in Nat /\ 0 \in V  OBVIOUS
<1>2. \A k \in 1 .. n, x \in V : R(k, x) \in V
  <2>1. \A k \in 1 .. n : vcounts[k] \in Int  OBVIOUS
  <2>2. \A k \in 1 .. n : FacesIn(type, vcounts[k]) \in Int  BY <2>1 DEF FacesIn, Least
  <2> HIDE DEF n
  <2> QED  BY <2>2
<1>3. step \in [(1 .. n) \X V -> V]
  <2> HIDE DEF n, V, R
  <2> QED  BY <1>2
<1>4. PICK f : Rounds(n, V, 0, step, f)
  <2> HIDE DEF n, V, step
  <2> QED  BY <1>1, <1>3, RoundsExist
<1>5. f \in [0 .. n -> V] /\ f[0] = 0 /\ \A k \in 1 .. n : f[k] = step[<<k, f[k - 1]>>]
  <2> HIDE DEF n, V, step
  <2> QED  BY <1>4 DEF Rounds
<1>6. \A k \in 1 .. n : f[k] = R(k, f[k - 1])
  <2> SUFFICES ASSUME NEW k \in 1 .. n PROVE f[k] = R(k, f[k - 1])  OBVIOUS
  <2> HIDE DEF n, V, R
  <2>1. f[k - 1] \in V  BY <1>1, <1>5
  <2> QED  BY <1>5, <2>1
<1>7. f = Body(f)
  <2>1. f = [k \in 0 .. n |-> f[k]]
    <3> HIDE DEF n, V
    <3> QED  BY <1>5
  <2>2. \A k \in 0 .. n : k # 0 => k \in 1 .. n
    <3> HIDE DEF n
    <3> QED  BY <1>1
  <2>3. ASSUME NEW k \in 0 .. n PROVE f[k] = Body(f)[k]
    <3>1. Body(f)[k] = IF k = 0 THEN 0 ELSE R(k, f[k - 1])  OBVIOUS
    <3> HIDE DEF n, V, R, Body
    <3> QED  BY <1>5, <1>6, <2>2, <3>1
  <2>4. Body(f) = [k \in 0 .. n |-> Body(f)[k]]  OBVIOUS
  <2> HIDE DEF n, Body
  <2> QED  BY <2>1, <2>3, <2>4, Zenon
<1>8. X = CHOOSE g : g = Body(g)  BY DEF FacesUpTo
<1>9. X = Body(X)
  <2> HIDE DEF X, Body
  <2> QED  BY <1>7, <1>8
<1>10. X[0] = 0 /\ \A k \in 1 .. n : X[k] = R(k, X[k - 1])
  <2>1. 0 \in 0 .. n /\ \A k \in 1 .. n : k \in 0 .. n /\ k # 0
    <3> HIDE DEF n
    <3> QED  BY <1>1
  <2>2. \A k \in 0 .. n : X[k] = IF k = 0 THEN 0 ELSE R(k, X[k - 1])
    <3> SUFFICES ASSUME NEW k \in 0 .. n PROVE X[k] = IF k = 0 THEN 0 ELSE R(k, X[k - 1])
      OBVIOUS
    <3>1. Body(X)[k] = IF k = 0 THEN 0 ELSE R(k, X[k - 1])  OBVIOUS
    <3> HIDE DEF X, n, V, R, Body
    <3> QED  BY <1>9, <3>1
  <2> HIDE DEF X, n, V, R
  <2> QED  BY <2>1, <2>2
<1>11. \A k \in 0 .. n : X[k] = f[k]
  <2> HIDE DEF X, n, V, R
  <2>1. GoAlike(n, X, f)  BY <1>5, <1>6, <1>10 DEF GoAlike
  <2>2. n \in Nat  BY <1>1
  <2> QED  BY ONLY <2>1, <2>2, GoOnAlike
<1>12. X \in [0 .. n -> V]
  <2>1. X = [k \in 0 .. n |-> X[k]]
    <3>1. Body(X) = [k \in 0 .. n |-> Body(X)[k]]  OBVIOUS
    <3> HIDE DEF X, n, Body
    <3> QED  BY <1>9, <3>1
  <2> HIDE DEF X, n, V
  <2> QED  BY <1>5, <1>11, <2>1
<1>13. FacesUpTo(type, vcounts) \in [0 .. Len(vcounts) -> Int]  BY <1>12
<1> HIDE DEF X, V
<1> QED  BY <1>10, <1>13 DEF X

Magnitude(n) == IF n > 0 THEN n ELSE -n

\* The vertices of the first strips, polygons and holes
LEMMA CountedUpToFacts ==
    ASSUME NEW vcounts \in Seq(Int)
    PROVE  /\ CountedUpTo(vcounts) \in [0 .. Len(vcounts) -> Int] /\ CountedUpTo(vcounts)[0] = 0
           /\ \A k \in 1 .. Len(vcounts) :
                 CountedUpTo(vcounts)[k] = CountedUpTo(vcounts)[k - 1] + Magnitude(vcounts[k])
<1> DEFINE n == Len(vcounts)
           V == Int
           R(k, x) == x + Magnitude(vcounts[k])
           step == [y \in (1 .. n) \X V |-> R(y[1], y[2])]
           Body(g) == [k \in 0 .. n |-> IF k = 0 THEN 0
                          ELSE g[k - 1] + (IF vcounts[k] > 0 THEN vcounts[k] ELSE -vcounts[k])]
           X == CountedUpTo(vcounts)
<1>1. n \in Nat /\ 0 \in V  OBVIOUS
<1>2. \A k \in 1 .. n, x \in V : R(k, x) \in V
  <2>1. \A k \in 1 .. n : vcounts[k] \in Int  OBVIOUS
  <2>2. \A k \in 1 .. n : Magnitude(vcounts[k]) \in Int  BY <2>1 DEF Magnitude
  <2> HIDE DEF n
  <2> QED  BY <2>2
<1>3. step \in [(1 .. n) \X V -> V]
  <2> HIDE DEF n, V, R
  <2> QED  BY <1>2
<1>4. PICK f : Rounds(n, V, 0, step, f)
  <2> HIDE DEF n, V, step
  <2> QED  BY <1>1, <1>3, RoundsExist
<1>5. f \in [0 .. n -> V] /\ f[0] = 0 /\ \A k \in 1 .. n : f[k] = step[<<k, f[k - 1]>>]
  <2> HIDE DEF n, V, step
  <2> QED  BY <1>4 DEF Rounds
<1>6. \A k \in 1 .. n : f[k] = R(k, f[k - 1])
  <2> SUFFICES ASSUME NEW k \in 1 .. n PROVE f[k] = R(k, f[k - 1])  OBVIOUS
  <2> HIDE DEF n, V, R
  <2>1. f[k - 1] \in V  BY <1>1, <1>5
  <2> QED  BY <1>5, <2>1
<1>7. f = Body(f)
  <2>1. f = [k \in 0 .. n |-> f[k]]
    <3> HIDE DEF n, V
    <3> QED  BY <1>5
  <2>2. \A k \in 0 .. n : k # 0 => k \in 1 .. n
    <3> HIDE DEF n
    <3> QED  BY <1>1
  <2>3. ASSUME NEW k \in 0 .. n PROVE f[k] = Body(f)[k]
    <3>1. Body(f)[k] = IF k = 0 THEN 0 ELSE R(k, f[k - 1])  BY DEF Magnitude
    <3> HIDE DEF n, V, R, Body
    <3> QED  BY <1>5, <1>6, <2>2, <3>1
  <2>4. Body(f) = [k \in 0 .. n |-> Body(f)[k]]  OBVIOUS
  <2> HIDE DEF n, Body
  <2> QED  BY <2>1, <2>3, <2>4, Zenon
<1>8. X = CHOOSE g : g = Body(g)  BY DEF CountedUpTo
<1>9. X = Body(X)
  <2> HIDE DEF X, Body
  <2> QED  BY <1>7, <1>8
<1>10. X[0] = 0 /\ \A k \in 1 .. n : X[k] = R(k, X[k - 1])
  <2>1. 0 \in 0 .. n /\ \A k \in 1 .. n : k \in 0 .. n /\ k # 0
    <3> HIDE DEF n
    <3> QED  BY <1>1
  <2>2. \A k \in 0 .. n : X[k] = IF k = 0 THEN 0 ELSE R(k, X[k - 1])
    <3> SUFFICES ASSUME NEW k \in 0 .. n PROVE X[k] = IF k = 0 THEN 0 ELSE R(k, X[k - 1])
      OBVIOUS
    <3>1. Body(X)[k] = IF k = 0 THEN 0 ELSE R(k, X[k - 1])  BY DEF Magnitude
    <3> HIDE DEF X, n, V, R, Body
    <3> QED  BY <1>9, <3>1
  <2> HIDE DEF X, n, V, R
  <2> QED  BY <2>1, <2>2
<1>11. \A k \in 0 .. n : X[k] = f[k]
  <2> HIDE DEF X, n, V, R
  <2>1. GoAlike(n, X, f)  BY <1>5, <1>6, <1>10 DEF GoAlike
  <2>2. n \in Nat  BY <1>1
  <2> QED  BY ONLY <2>1, <2>2, GoOnAlike
<1>12. X \in [0 .. n -> V]
  <2>1. X = [k \in 0 .. n |-> X[k]]
    <3>1. Body(X) = [k \in 0 .. n |-> Body(X)[k]]  OBVIOUS
    <3> HIDE DEF X, n, Body
    <3> QED  BY <1>9, <3>1
  <2> HIDE DEF X, n, V
  <2> QED  BY <1>5, <1>11, <2>1
<1>13. CountedUpTo(vcounts) \in [0 .. Len(vcounts) -> Int]  BY <1>12
<1> HIDE DEF X, V
<1> QED  BY <1>10, <1>13 DEF X

\* Element o is the outline to which element i belongs.
OutlineAt(t, i, o) == o \in 1 .. i /\ t[o].tag # "h" /\ \A j \in o + 1 .. i : t[j].tag = "h"
\* Holes come after an outline.
Outlined(t) == t # << >> => t[1].tag # "h"

LEMMA OutlineFacts ==
    ASSUME NEW t, NEW i \in Nat, NEW o, OutlineAt(t, i, o)
    PROVE  Outline(t, i) = o
<1> DEFINE S == {j \in 1 .. i : t[j].tag # "h"}
<1>1. o \in S /\ o \in Nat  BY DEF OutlineAt
<1>2. \A j \in S : j \in Nat /\ o >= j
  <2> SUFFICES ASSUME NEW j \in S PROVE j \in Nat /\ o >= j  OBVIOUS
  <2>1. j \in 1 .. i /\ t[j].tag # "h"  OBVIOUS
  <2>2. j \notin o + 1 .. i  BY <2>1 DEF OutlineAt
  <2> QED  BY <1>1, <2>1, <2>2
<1>3. \A x \in S : (\A y \in S : x >= y) => x = o
  <2> SUFFICES ASSUME NEW x \in S, \A y \in S : x >= y PROVE x = o  OBVIOUS
  <2>1. x >= o /\ o >= x /\ x \in Nat  BY <1>1, <1>2
  <2> QED  BY <1>1, <2>1
<1>4. Outline(t, i) = CHOOSE x \in S : \A y \in S : x >= y  BY DEF Outline, Max
<1> HIDE DEF S
<1>5. \E x \in S : \A y \in S : x >= y  BY <1>1, <1>2
<1> QED  BY <1>3, <1>4, <1>5

LEMMA OutlineExists ==
    ASSUME NEW t \in Seq(Texts), Outlined(t), NEW i \in 1 .. Len(t)
    PROVE  \E o : OutlineAt(t, i, o)
<1> DEFINE n == Len(t)
           P == {j \in 0 .. n : j > 0 => \E o : OutlineAt(t, j, o)}
<1>1. n \in Nat /\ t # << >>  OBVIOUS
<1> HIDE DEF n
<1>2. 0 \in P  BY <1>1
<1>3. ASSUME NEW j \in 1 .. n, j - 1 \in P PROVE j \in P
  <2>1. CASE t[j].tag # "h"
    <3>1. OutlineAt(t, j, j)  BY <1>1, <2>1 DEF OutlineAt
    <3> QED  BY <1>1, <3>1
  <2>2. CASE t[j].tag = "h"
    <3>1. j # 1  BY <1>1, <2>2 DEF Outlined
    <3>2. j - 1 > 0 /\ j - 1 \in Nat  BY <1>1, <3>1
    <3>3. PICK o : OutlineAt(t, j - 1, o)  BY <1>3, <3>2
    <3>4. OutlineAt(t, j, o)  BY <1>1, <2>2, <3>2, <3>3 DEF OutlineAt
    <3> QED  BY <1>1, <3>4
  <2> QED  BY <2>1, <2>2
<1>4. P \in SUBSET (0 .. n)  OBVIOUS
<1>5. \A j \in 0 .. n : j \in P
  <2> HIDE DEF P
  <2> QED  BY <1>1, <1>2, <1>3, <1>4, LoopKeeps
<1>6. i \in 0 .. n /\ i > 0  BY DEF n
<1> QED  BY <1>5, <1>6

\* The elements of t and u up to the n-th are the same.
Same(t, u, n) == n <= Len(t) /\ n <= Len(u) /\ \A i \in 1 .. n : t[i] = u[i]

LEMMA SameKept ==
    ASSUME NEW t \in Seq(Texts), NEW u \in Seq(Texts), NEW n \in Nat, Same(t, u, n), NEW type,
           NEW i \in 1 .. n, Outlined(t)
    PROVE  Kept(type, t, i) <=> Kept(type, u, i)
<1>1. t[i] = u[i] /\ i \in 1 .. Len(t) /\ i \in Nat  BY DEF Same
<1>2. PICK o : OutlineAt(t, i, o)  BY <1>1, OutlineExists
<1>3. o \in 1 .. n /\ \A j \in o + 1 .. i : j \in 1 .. n  BY <1>2 DEF OutlineAt
<1>4. OutlineAt(u, i, o)  BY <1>2, <1>3 DEF OutlineAt, Same
<1>5. Outline(t, i) = o /\ Outline(u, i) = o  BY <1>1, <1>2, <1>4, OutlineFacts
<1>6. t[Outline(t, i)] = u[Outline(u, i)]  BY <1>3, <1>5 DEF Same
<1> QED  BY <1>1, <1>6 DEF Kept

LEMMA SameKeptUpTo ==
    ASSUME NEW t \in Seq(Texts), NEW u \in Seq(Texts), NEW n \in Nat, Same(t, u, n), NEW type, Outlined(t)
    PROVE  /\ KeptUpTo(type, t)[n] = KeptUpTo(type, u)[n]
           /\ GroupsUpTo(type, t)[n] = GroupsUpTo(type, u)[n]
<1>1. \A k \in 1 .. n : /\ Contribution(type, t, k) = Contribution(type, u, k)
                        /\ Counting(type, t, k) <=> Counting(type, u, k)
                        /\ CountOf(t, k) = CountOf(u, k)
  <2> SUFFICES ASSUME NEW k \in 1 .. n
               PROVE  /\ Contribution(type, t, k) = Contribution(type, u, k)
                      /\ Counting(type, t, k) <=> Counting(type, u, k)
                      /\ CountOf(t, k) = CountOf(u, k)
    OBVIOUS
  <2>1. t[k] = u[k]  BY DEF Same
  <2>2. Kept(type, t, k) <=> Kept(type, u, k)  BY SameKept
  <2> QED  BY <2>1, <2>2 DEF Contribution, Counting, CountOf
<1>2. \A k \in 1 .. n : k \in 1 .. Len(t) /\ k \in 1 .. Len(u)
  <2>1. Len(t) \in Nat /\ Len(u) \in Nat /\ n <= Len(t) /\ n <= Len(u)  BY DEF Same
  <2> QED  BY <2>1
<1>3. n \in 0 .. n  OBVIOUS
<1>4. KeptUpTo(type, t)[n] = KeptUpTo(type, u)[n]
  <2> DEFINE f == KeptUpTo(type, t)
             g == KeptUpTo(type, u)
  <2>1. f[0] = << >> /\ \A k \in 1 .. Len(t) : f[k] = f[k - 1] \o Contribution(type, t, k)
    BY KeptUpToFacts
  <2>2. g[0] = << >> /\ \A k \in 1 .. Len(u) : g[k] = g[k - 1] \o Contribution(type, u, k)
    BY KeptUpToFacts
  <2> HIDE DEF f, g
  <2>3. n \in Nat  OBVIOUS
  <2>4. GoAlike(n, f, g)  BY <1>1, <1>2, <2>1, <2>2 DEF GoAlike
  <2>5. \A k \in 0 .. n : f[k] = g[k]  BY ONLY <2>3, <2>4, GoOnAlike
  <2> QED  BY <1>3, <2>5 DEF f, g
<1>5. GroupsUpTo(type, t)[n] = GroupsUpTo(type, u)[n]
  <2> DEFINE f == GroupsUpTo(type, t)
             g == GroupsUpTo(type, u)
  <2>1. f[0] = << >> /\ \A k \in 1 .. Len(t) :
                           f[k] = (IF Counting(type, t, k) THEN Append(f[k - 1], CountOf(t, k)) ELSE f[k - 1])
    BY GroupsUpToFacts
  <2>2. g[0] = << >> /\ \A k \in 1 .. Len(u) :
                           g[k] = (IF Counting(type, u, k) THEN Append(g[k - 1], CountOf(u, k)) ELSE g[k - 1])
    BY GroupsUpToFacts
  <2> HIDE DEF f, g
  <2>3. n \in Nat  OBVIOUS
  <2>4. GoAlike(n, f, g)  BY <1>1, <1>2, <2>1, <2>2 DEF GoAlike
  <2>5. \A k \in 0 .. n : f[k] = g[k]  BY ONLY <2>3, <2>4, GoOnAlike
  <2> QED  BY <1>3, <2>5 DEF f, g
<1> QED  BY <1>4, <1>5

-----------------------------------------------------------------------------
(* Sums over the counts                                                    *)

FacesTotal(type, vcounts) == FacesUpTo(type, vcounts)[Len(vcounts)]

LEMMA FacesAppend ==
    ASSUME NEW v \in Seq(Int), NEW x \in Int, NEW type
    PROVE  /\ FacesTotal(type, Append(v, x)) = FacesTotal(type, v) + FacesIn(type, x)
           /\ FacesTotal(type, v) \in Int /\ FacesTotal(type, << >>) = 0
<1> DEFINE n == Len(v)
           longer == Append(v, x)
           f == FacesUpTo(type, longer)
           g == FacesUpTo(type, v)
<1>1. /\ longer \in Seq(Int) /\ Len(longer) = n + 1 /\ n \in Nat /\ longer[n + 1] = x
      /\ \A k \in 1 .. n : longer[k] = v[k]
  OBVIOUS
<1> HIDE DEF longer
<1>2. f[0] = 0 /\ \A k \in 1 .. Len(longer) : f[k] = f[k - 1] + FacesIn(type, longer[k])
  BY <1>1, FacesUpToFacts
<1>3. g \in [0 .. n -> Int] /\ g[0] = 0 /\ \A k \in 1 .. n : g[k] = g[k - 1] + FacesIn(type, v[k])
  BY FacesUpToFacts
<1> HIDE DEF n, f, g
<1>4. GoAlike(n, f, g)
  <2>1. \A k \in 1 .. n : k \in 1 .. Len(longer) /\ longer[k] = v[k]  BY <1>1
  <2> QED  BY <1>2, <1>3, <2>1 DEF GoAlike
<1>5. n \in Nat /\ n \in 0 .. n /\ n + 1 \in 1 .. n + 1 /\ (n + 1) - 1 = n  BY <1>1
<1>6. \A k \in 0 .. n : f[k] = g[k]
  <2>1. n \in Nat  BY <1>1
  <2> QED  BY ONLY <1>4, <2>1, GoOnAlike
<1>7. f[n + 1] = g[n] + FacesIn(type, x)  BY <1>1, <1>2, <1>5, <1>6
<1>8. g[n] \in Int  BY <1>3, <1>5
<1>9. FacesTotal(type, << >>) = 0
  <2>1. << >> \in Seq(Int) /\ Len(<< >>) = 0  OBVIOUS
  <2>2. FacesUpTo(type, << >>)[0] = 0  BY <2>1, FacesUpToFacts
  <2> QED  BY <2>1, <2>2 DEF FacesTotal
<1> QED  BY <1>1, <1>7, <1>8, <1>9 DEF FacesTotal, f, g, n, longer

LEMMA CountedAppend ==
    ASSUME NEW v \in Seq(Int), NEW x \in Int
    PROVE  /\ CountedVertices(Append(v, x)) = CountedVertices(v) + Magnitude(x)
           /\ CountedVertices(v) \in Int /\ CountedVertices(<< >>) = 0
<1> DEFINE n == Len(v)
           longer == Append(v, x)
           f == CountedUpTo(longer)
           g == CountedUpTo(v)
<1>1. /\ longer \in Seq(Int) /\ Len(longer) = n + 1 /\ n \in Nat /\ longer[n + 1] = x
      /\ \A k \in 1 .. n : longer[k] = v[k]
  OBVIOUS
<1> HIDE DEF longer
<1>2. f[0] = 0 /\ \A k \in 1 .. Len(longer) : f[k] = f[k - 1] + Magnitude(longer[k])
  BY <1>1, CountedUpToFacts
<1>3. g \in [0 .. n -> Int] /\ g[0] = 0 /\ \A k \in 1 .. n : g[k] = g[k - 1] + Magnitude(v[k])
  BY CountedUpToFacts
<1> HIDE DEF n, f, g
<1>4. GoAlike(n, f, g)
  <2>1. \A k \in 1 .. n : k \in 1 .. Len(longer) /\ longer[k] = v[k]  BY <1>1
  <2> QED  BY <1>2, <1>3, <2>1 DEF GoAlike
<1>5. n \in Nat /\ n \in 0 .. n /\ n + 1 \in 1 .. n + 1 /\ (n + 1) - 1 = n  BY <1>1
<1>6. \A k \in 0 .. n : f[k] = g[k]
  <2>1. n \in Nat  BY <1>1
  <2> QED  BY ONLY <1>4, <2>1, GoOnAlike
<1>7. f[n + 1] = g[n] + Magnitude(x)  BY <1>1, <1>2, <1>5, <1>6
<1>8. g[n] \in Int  BY <1>3, <1>5
<1>9. CountedVertices(<< >>) = 0
  <2>1. << >> \in Seq(Int) /\ Len(<< >>) = 0  OBVIOUS
  <2>2. CountedUpTo(<< >>)[0] = 0  BY <2>1, CountedUpToFacts
  <2> QED  BY <2>1, <2>2 DEF CountedVertices
<1> QED  BY <1>1, <1>7, <1>8, <1>9 DEF CountedVertices, f, g, n, longer

\* The counts of strips, polygons and holes add up to their vertices.
LEMMA GroupsCountVertices ==
    ASSUME NEW t \in Seq(Texts), NEW type \in Strips \cup {"POLYGONS"}, NEW n \in 0 .. Len(t)
    PROVE  CountedVertices(GroupsUpTo(type, t)[n]) = Len(KeptUpTo(type, t)[n])
<1> DEFINE m == Len(t)
           f == KeptUpTo(type, t)
           g == GroupsUpTo(type, t)
           P == {j \in 0 .. m : CountedVertices(g[j]) = Len(f[j])}
<1>1. m \in Nat  OBVIOUS
<1>2. /\ f \in [0 .. m -> Seq(Nat)] /\ f[0] = << >>
      /\ \A k \in 1 .. m : f[k] = f[k - 1] \o Contribution(type, t, k)
  BY KeptUpToFacts
<1>3. /\ g \in [0 .. m -> Seq(Int)] /\ g[0] = << >>
      /\ \A k \in 1 .. m : g[k] = (IF Counting(type, t, k) THEN Append(g[k - 1], CountOf(t, k)) ELSE g[k - 1])
  BY GroupsUpToFacts
<1>4. \A k \in 1 .. m : /\ Contribution(type, t, k) \in Seq(Nat)
                        /\ t[k].length \in Nat
                        /\ Kept(type, t, k) => Len(Contribution(type, t, k)) = t[k].length
                        /\ ~Kept(type, t, k) => Contribution(type, t, k) = << >>
  BY ContributionFacts
<1> HIDE DEF m, f, g
<1>5. 0 \in P
  <2>1. CountedVertices(<< >>) = 0
    <3>1. << >> \in Seq(Int) /\ 0 \in Int  OBVIOUS
    <3> QED  BY <3>1, CountedAppend
  <2> QED  BY <1>1, <1>2, <1>3, <2>1
<1>6. ASSUME NEW k \in 1 .. m, k - 1 \in P PROVE k \in P
  <2>1. k \in 0 .. m /\ k - 1 \in 0 .. m  BY <1>1
  <2> DEFINE x == f[k - 1]
             c == Contribution(type, t, k)
             v == g[k - 1]
  <2>2. x \in Seq(Nat) /\ c \in Seq(Nat) /\ v \in Seq(Int) /\ CountedVertices(v) = Len(x) /\ f[k] = x \o c
    BY <1>2, <1>3, <1>4, <1>6, <2>1
  <2>3. CountOf(t, k) \in Int /\ Magnitude(CountOf(t, k)) = t[k].length
    BY <1>4 DEF CountOf, Magnitude
  <2>4. g[k] = (IF Counting(type, t, k) THEN Append(v, CountOf(t, k)) ELSE v)  BY <1>3
  <2>5. Kept(type, t, k) => Len(c) = t[k].length
    BY <1>4
  <2>6. ~Kept(type, t, k) => c = << >>  BY <1>4
  <2> HIDE DEF x, c, v
  <2>7. Len(f[k]) = Len(x) + Len(c) /\ Len(x) \in Nat /\ Len(c) \in Nat  BY <2>2
  <2>8. CASE Counting(type, t, k)
    <3>1. g[k] = Append(v, CountOf(t, k)) /\ Len(c) = t[k].length  BY <2>4, <2>5, <2>8 DEF Counting
    <3>2. CountedVertices(g[k]) = CountedVertices(v) + Magnitude(CountOf(t, k))
      BY <2>2, <2>3, <3>1, CountedAppend
    <3>3. CountedVertices(g[k]) = Len(f[k])  BY <2>2, <2>3, <2>7, <3>1, <3>2
    <3> QED  BY <2>1, <3>3
  <2>9. CASE ~Counting(type, t, k)
    <3>1. Len(c) = 0
      <4>1. CASE Kept(type, t, k)  BY <2>5, <2>9, <4>1 DEF Counting
      <4>2. CASE ~Kept(type, t, k)  BY <2>6, <4>2
      <4> QED  BY <4>1, <4>2
    <3>2. CountedVertices(g[k]) = Len(f[k])  BY <2>2, <2>4, <2>7, <2>9, <3>1
    <3> QED  BY <2>1, <3>2
  <2> QED  BY <2>8, <2>9
<1>7. P \in SUBSET (0 .. m)  OBVIOUS
<1>8. \A j \in 0 .. m : j \in P
  <2> HIDE DEF P
  <2> QED  BY <1>1, <1>5, <1>6, <1>7, LoopKeeps
<1> QED  BY <1>8 DEF m, f, g

-----------------------------------------------------------------------------
(* Index lists that are the text                                           *)

Tangents == {"TEXTANGENT", "TEXBINORMAL"}

\* The numbers that these vertices have for the list
Numbers(use, vertices) == [k \in DOMAIN vertices |-> Number(vertices[k], use.offset) + use.initial]

\* The vertices of the first c elements, and the first n of the last element
VerticesOf(type, t, c, n) == KeptUpTo(type, t)[c] \o Part(t[Len(t)], n)

TakenBackUpTo(type, t, c) == \E i \in 1 .. c : t[i].length > 0 /\ ~Kept(type, t, i)

\* The list has these vertices.  Of tangents and binormals nothing is said when a strip was too short.
ListFits(type, t, c, n, use, list) ==
    \/ use.list \in Tangents /\ TakenBackUpTo(type, t, c)
    \/ list = Numbers(use, VerticesOf(type, t, c, n))

LEMMA NumbersFacts ==
    ASSUME NEW use \in IndexLists, NEW vertices \in Seq(Nat)
    PROVE  /\ Numbers(use, vertices) \in Seq(Int) /\ Len(Numbers(use, vertices)) = Len(vertices)
           /\ \A k \in 1 .. Len(vertices) :
                 Numbers(use, vertices)[k] = Number(vertices[k], use.offset) + use.initial
<1> DEFINE n == Len(vertices)
           list == Numbers(use, vertices)
<1>1. n \in Nat /\ DOMAIN vertices = 1 .. n /\ \A k \in 1 .. n : vertices[k] \in Nat  OBVIOUS
<1>2. use.offset \in Nat /\ use.initial \in Nat  BY DEF IndexLists
<1>3. \A k \in 1 .. n : Number(vertices[k], use.offset) + use.initial \in Int  BY <1>1, <1>2 DEF Number
<1>4. \A k \in 1 .. n : list[k] = Number(vertices[k], use.offset) + use.initial  BY <1>1 DEF Numbers
<1>5. list = [k \in 1 .. n |-> list[k]] /\ DOMAIN list = 1 .. n  BY <1>1 DEF Numbers
<1> HIDE DEF n, list
<1>6. list \in Seq(Int) /\ Len(list) = n  BY <1>1, <1>3, <1>4, <1>5
<1> QED  BY <1>4, <1>6 DEF n, list

\* They are these: those that are kept, and n from the last element's first.
Joined(vertices, kept, first, n) ==
    /\ vertices \in Seq(Nat) /\ kept \in Seq(Nat) /\ Len(kept) \in Nat /\ first \in Nat
    /\ Len(vertices) = Len(kept) + n
    /\ \A k \in 1 .. Len(kept) : vertices[k] = kept[k]
    /\ \A k \in 1 .. n : vertices[Len(kept) + k] = first + k - 1

LEMMA VerticesOfFacts ==
    ASSUME NEW t \in Seq(Texts), NEW type, NEW c \in 0 .. Len(t), NEW n \in Nat, t # << >>
    PROVE  Joined(VerticesOf(type, t, c, n), KeptUpTo(type, t)[c], t[Len(t)].first, n)
<1> DEFINE x == KeptUpTo(type, t)[c]
           last == t[Len(t)]
           y == Part(last, n)
<1>1. x \in Seq(Nat)  BY KeptUpToFacts
<1>2. last \in Texts  OBVIOUS
<1>3. y \in Seq(Nat) /\ Len(y) = n /\ \A k \in 1 .. n : y[k] = last.first + k - 1
  BY <1>2, PartFacts
<1>4. VerticesOf(type, t, c, n) = x \o y  BY DEF VerticesOf
<1>5. last.first \in Nat  BY <1>2 DEF Texts
<1> HIDE DEF x, y, last
<1>6. /\ x \o y \in Seq(Nat) /\ Len(x \o y) = Len(x) + n /\ Len(x) \in Nat
      /\ \A k \in 1 .. Len(x) : (x \o y)[k] = x[k]
      /\ \A k \in 1 .. n : (x \o y)[Len(x) + k] = y[k]
  <2>1. /\ x \o y \in Seq(Nat) /\ Len(x \o y) = Len(x) + Len(y) /\ Len(x) \in Nat
        /\ \A k \in 1 .. Len(x) + Len(y) : (x \o y)[k] = IF k <= Len(x) THEN x[k] ELSE y[k - Len(x)]
    BY <1>1, <1>3, ConcatProperties
  <2>2. \A k \in 1 .. Len(x) : k \in 1 .. Len(x) + n /\ k <= Len(x)  BY <1>3, <2>1
  <2>3. \A k \in 1 .. n : Len(x) + k \in 1 .. Len(x) + n /\ ~ (Len(x) + k <= Len(x))
                          /\ Len(x) + k - Len(x) = k
    BY <1>3, <2>1
  <2> QED  BY <1>3, <2>1, <2>2, <2>3
<1>7. Joined(VerticesOf(type, t, c, n), x, last.first, n)
  BY <1>1, <1>3, <1>4, <1>5, <1>6 DEF Joined
<1> QED  BY <1>7 DEF x, last

\* A number is written.
LEMMA ListGrows ==
    ASSUME NEW t \in Seq(Texts), NEW type, NEW c \in 0 .. Len(t), NEW n \in Nat, t # << >>,
           NEW use \in IndexLists, NEW list \in Seq(Int), ListFits(type, t, c, n, use, list)
    PROVE  ListFits(type, t, c, n + 1, use,
                    Append(list, Number(t[Len(t)].first + n, use.offset) + use.initial))
<1> DEFINE a == VerticesOf(type, t, c, n)
           b == VerticesOf(type, t, c, n + 1)
           m == Len(KeptUpTo(type, t)[c])
           vertex == t[Len(t)].first + n
           x == Number(vertex, use.offset) + use.initial
<1>1. CASE use.list \in Tangents /\ TakenBackUpTo(type, t, c)  BY <1>1 DEF ListFits
<1>2. CASE list = Numbers(use, a)
  <2>a. t \in Seq(Texts) /\ t # << >> /\ c \in 0 .. Len(t) /\ n \in Nat /\ n + 1 \in Nat  OBVIOUS
  <2>b. Joined(a, KeptUpTo(type, t)[c], t[Len(t)].first, n)  BY <2>a, VerticesOfFacts
  <2>c. Joined(b, KeptUpTo(type, t)[c], t[Len(t)].first, n + 1)  BY <2>a, VerticesOfFacts
  <2>1. m \in Nat /\ n + 1 \in Nat /\ vertex \in Nat /\ n + 1 \in 1 .. n + 1
    BY <2>a, <2>b DEF Joined
  <2>2. /\ a \in Seq(Nat) /\ Len(a) = m + n
        /\ \A k \in 1 .. m : a[k] = KeptUpTo(type, t)[c][k]
        /\ \A k \in 1 .. n : a[m + k] = t[Len(t)].first + k - 1
    BY ONLY <2>b, Zenon DEF Joined
  <2>3. /\ b \in Seq(Nat) /\ Len(b) = m + (n + 1)
        /\ \A k \in 1 .. m : b[k] = KeptUpTo(type, t)[c][k]
        /\ \A k \in 1 .. n + 1 : b[m + k] = t[Len(t)].first + k - 1
    BY ONLY <2>c, Zenon DEF Joined
  <2>4. use.offset \in Nat /\ use.initial \in Nat /\ t[Len(t)].first \in Nat  BY <2>b DEF IndexLists, Joined
  <2>5. x \in Int
    <3> HIDE DEF vertex
    <3> QED  BY <2>1, <2>4 DEF Number
  <2>6. b[m + n + 1] = vertex
    <3>1. b[m + (n + 1)] = t[Len(t)].first + (n + 1) - 1
      <4> HIDE DEF a, b, m, vertex
      <4> QED  BY ONLY <2>1, <2>3, Zenon
    <3>2. m + (n + 1) = m + n + 1 /\ t[Len(t)].first + (n + 1) - 1 = vertex
      <4>1. t[Len(t)].first + (n + 1) - 1 = t[Len(t)].first + n  BY <2>4
      <4> HIDE DEF m
      <4>2. m + (n + 1) = m + n + 1  BY <2>1
      <4> QED  BY <4>1, <4>2
    <3> QED  BY <3>1, <3>2
  <2>7. \A k \in 1 .. m + n : b[k] = a[k]
    <3> SUFFICES ASSUME NEW k \in 1 .. m + n PROVE b[k] = a[k]  OBVIOUS
    <3>1. CASE k \in 1 .. m  BY <2>2, <2>3, <3>1
    <3>2. CASE k \notin 1 .. m
      <4>1. k - m \in 1 .. n /\ k - m \in 1 .. n + 1 /\ m + (k - m) = k  BY <2>1, <3>2
      <4> QED  BY <2>2, <2>3, <4>1
    <3> QED  BY <3>1, <3>2
  <2> HIDE DEF a, b, m, vertex
  <2>8. /\ Numbers(use, a) \in Seq(Int) /\ Len(Numbers(use, a)) = m + n
        /\ \A k \in 1 .. m + n : Numbers(use, a)[k] = Number(a[k], use.offset) + use.initial
    BY <2>2, NumbersFacts
  <2>9. /\ Numbers(use, b) \in Seq(Int) /\ Len(Numbers(use, b)) = m + (n + 1)
        /\ \A k \in 1 .. m + (n + 1) : Numbers(use, b)[k] = Number(b[k], use.offset) + use.initial
    BY <2>3, NumbersFacts
  <2>10. m + (n + 1) = m + n + 1 /\ m + n \in Nat  BY <2>1
  <2>11. /\ Append(list, x) \in Seq(Int) /\ Len(Append(list, x)) = m + n + 1
         /\ \A k \in 1 .. m + n : Append(list, x)[k] = list[k]
         /\ Append(list, x)[m + n + 1] = x
    <3> HIDE DEF x
    <3> QED  BY <1>2, <2>5, <2>8, <2>10, AppendProperties
  <2>12. \A k \in 1 .. m + n + 1 : Append(list, x)[k] = Numbers(use, b)[k]
    <3> SUFFICES ASSUME NEW k \in 1 .. m + n + 1 PROVE Append(list, x)[k] = Numbers(use, b)[k]  OBVIOUS
    <3>1. CASE k = m + n + 1
      <4>1. k \in 1 .. m + (n + 1)  BY <2>10, <3>1
      <4>2. Numbers(use, b)[k] = Number(vertex, use.offset) + use.initial  BY <2>6, <2>9, <3>1, <4>1
      <4> QED  BY <2>11, <3>1, <4>2
    <3>2. CASE k # m + n + 1
      <4>1. k \in 1 .. m + n /\ k \in 1 .. m + (n + 1)  BY <2>10, <3>2
      <4>2. Numbers(use, b)[k] = Numbers(use, a)[k]  BY <2>7, <2>8, <2>9, <4>1
      <4> QED  BY <1>2, <2>11, <4>1, <4>2
    <3> QED  BY <3>1, <3>2
  <2>13. Append(list, x) = Numbers(use, b)
    <3> DEFINE l == Append(list, x)
               r == Numbers(use, b)
    <3>1. l \in Seq(Int) /\ r \in Seq(Int) /\ Len(l) = Len(r) /\ \A k \in 1 .. Len(l) : l[k] = r[k]
      BY <2>9, <2>10, <2>11, <2>12
    <3> HIDE DEF l, r
    <3>2. l = r  BY ONLY <3>1, SeqEqual
    <3> QED  BY <3>2 DEF l, r
  <2> QED  BY <2>13 DEF ListFits, b, vertex
<1> QED  BY <1>1, <1>2 DEF ListFits

\* What comes later in the text does not matter.
LEMMA ListStays ==
    ASSUME NEW t \in Seq(Texts), NEW u \in Seq(Texts), NEW type, NEW c \in Nat, Same(t, u, c), NEW n \in Nat,
           Outlined(t), n = 0 \/ t[Len(t)].first = u[Len(u)].first,
           NEW use, NEW list, ListFits(type, t, c, n, use, list)
    PROVE  ListFits(type, u, c, n, use, list)
<1>1. KeptUpTo(type, t)[c] = KeptUpTo(type, u)[c]  BY SameKeptUpTo
<1>2. Part(t[Len(t)], n) = Part(u[Len(u)], n)
  <2>1. CASE n = 0
    <3>1. \A k \in 1 .. n : FALSE  BY <2>1
    <3> QED  BY <3>1 DEF Part
  <2>2. CASE t[Len(t)].first = u[Len(u)].first  BY <2>2 DEF Part
  <2> QED  BY <2>1, <2>2
<1>3. VerticesOf(type, t, c, n) = VerticesOf(type, u, c, n)  BY <1>1, <1>2 DEF VerticesOf
<1>4. TakenBackUpTo(type, t, c) => TakenBackUpTo(type, u, c)
  <2> SUFFICES ASSUME NEW i \in 1 .. c, t[i].length > 0, ~Kept(type, t, i) PROVE TakenBackUpTo(type, u, c)
    BY DEF TakenBackUpTo
  <2>1. u[i].length > 0 /\ ~Kept(type, u, i)  BY SameKept DEF Same
  <2> QED  BY <2>1 DEF TakenBackUpTo
<1> QED  BY <1>3, <1>4 DEF ListFits

\* The last element ends, and is kept or has no vertices for the lists.
LEMMA ListKept ==
    ASSUME NEW t \in Seq(Texts), NEW type, t # << >>, NEW n \in Nat,
           IF Kept(type, t, Len(t)) THEN n = t[Len(t)].length ELSE n = 0,
           NEW use, NEW list, ListFits(type, t, Len(t) - 1, n, use, list)
    PROVE  ListFits(type, t, Len(t), 0, use, list)
<1> DEFINE m == Len(t)
           before == KeptUpTo(type, t)[m - 1]
           after == KeptUpTo(type, t)[m]
<1>1. m \in Nat /\ m \in 1 .. m /\ m - 1 \in 0 .. m /\ m \in 0 .. m  OBVIOUS
<1>2. after = before \o Contribution(type, t, m)  BY <1>1, KeptUpToFacts
<1>3. before \in Seq(Nat) /\ after \in Seq(Nat)  BY <1>1, KeptUpToFacts
<1>4. Contribution(type, t, m) = Part(t[m], n)
  <2>1. Contribution(type, t, m) = IF Kept(type, t, m) THEN Part(t[m], t[m].length) ELSE << >>
    BY <1>1, ContributionFacts
  <2>2. Part(t[m], 0) = << >>
    <3>1. \A k \in 1 .. 0 : FALSE  OBVIOUS
    <3>2. t[m] \in Texts  OBVIOUS
    <3>3. Part(t[m], 0) \in Seq(Nat) /\ Len(Part(t[m], 0)) = 0  BY <3>2, PartFacts
    <3> QED  BY <3>3, EmptySeq
  <2> QED  BY <2>1, <2>2
<1>5. Part(t[m], 0) = << >>
  <2>1. t[m] \in Texts  OBVIOUS
  <2>2. Part(t[m], 0) \in Seq(Nat) /\ Len(Part(t[m], 0)) = 0  BY <2>1, PartFacts
  <2> QED  BY <2>2, EmptySeq
<1>6. VerticesOf(type, t, m, 0) = after
  <2>1. VerticesOf(type, t, m, 0) = after \o << >>  BY <1>5 DEF VerticesOf
  <2> HIDE DEF after
  <2> QED  BY <1>3, <2>1, ConcatEmptySeq
<1>7. VerticesOf(type, t, m - 1, n) = after  BY <1>2, <1>4 DEF VerticesOf
<1>8. TakenBackUpTo(type, t, m - 1) => TakenBackUpTo(type, t, m)
  <2>1. \A i \in 1 .. m - 1 : i \in 1 .. m  BY <1>1
  <2> QED  BY <2>1 DEF TakenBackUpTo
<1> HIDE DEF m
<1>9. ListFits(type, t, m, 0, use, list)  BY <1>6, <1>7, <1>8 DEF ListFits, m
<1> QED  BY <1>9 DEF m

\* The last element ends, and its vertices are taken back from the lists but those of tangents.
LEMMA ListTakenBack ==
    ASSUME NEW t \in Seq(Texts), NEW type, t # << >>, NEW n \in Nat, n = t[Len(t)].length, n # 0,
           ~Kept(type, t, Len(t)),
           NEW use \in IndexLists, NEW list \in Seq(Int), ListFits(type, t, Len(t) - 1, n, use, list)
    PROVE  ListFits(type, t, Len(t), 0, use,
                    IF use.list \in Tangents THEN list ELSE SubSeq(list, 1, Len(list) - n))
<1> DEFINE m == Len(t)
           before == KeptUpTo(type, t)[m - 1]
           b == Len(before)
           a == VerticesOf(type, t, m - 1, n)
           short == SubSeq(list, 1, Len(list) - n)
<1>1. m \in Nat /\ m \in 1 .. m /\ m - 1 \in 0 .. m /\ m \in 0 .. m  OBVIOUS
<1>2. CASE use.list \in Tangents
  <2>1. t[m].length > 0  OBVIOUS
  <2>2. TakenBackUpTo(type, t, m)  BY <1>1, <2>1 DEF TakenBackUpTo
  <2> QED  BY <1>2, <2>2 DEF ListFits
<1>3. CASE use.list \notin Tangents
  <2>1. list = Numbers(use, a)  BY <1>3 DEF ListFits
  <2>a. t \in Seq(Texts) /\ t # << >> /\ m - 1 \in 0 .. Len(t) /\ n \in Nat  BY <1>1
  <2>2. /\ a \in Seq(Nat) /\ before \in Seq(Nat) /\ b \in Nat /\ Len(a) = b + n
        /\ \A k \in 1 .. b : a[k] = before[k]
    <3>1. Joined(a, before, t[Len(t)].first, n)  BY <2>a, VerticesOfFacts
    <3> HIDE DEF a, before
    <3> QED  BY ONLY <3>1, Zenon DEF Joined
  <2>3. KeptUpTo(type, t)[m] = before
    <3>1. KeptUpTo(type, t)[m] = before \o Contribution(type, t, m)  BY <1>1, KeptUpToFacts
    <3>2. Contribution(type, t, m) = << >>  BY DEF Contribution
    <3> HIDE DEF before
    <3> QED  BY <2>2, <3>1, <3>2, ConcatEmptySeq
  <2>4. VerticesOf(type, t, m, 0) = before
    <3>1. t[m] \in Texts  OBVIOUS
    <3>2. Part(t[m], 0) \in Seq(Nat) /\ Len(Part(t[m], 0)) = 0  BY <3>1, PartFacts
    <3>3. Part(t[m], 0) = << >>  BY <3>2, EmptySeq
    <3>4. VerticesOf(type, t, m, 0) = before \o << >>  BY <2>3, <3>3 DEF VerticesOf
    <3> HIDE DEF before
    <3> QED  BY <2>2, <3>4, ConcatEmptySeq
  <2> HIDE DEF a, before, m
  <2>5. /\ list \in Seq(Int) /\ Len(list) = b + n
        /\ \A k \in 1 .. b + n : list[k] = Number(a[k], use.offset) + use.initial
    BY <2>1, <2>2, NumbersFacts
  <2>6. /\ Numbers(use, before) \in Seq(Int) /\ Len(Numbers(use, before)) = b
        /\ \A k \in 1 .. b : Numbers(use, before)[k] = Number(before[k], use.offset) + use.initial
    BY <2>2, NumbersFacts
  <2> HIDE DEF b
  <2>7. Len(list) - n = b /\ \A k \in 1 .. b : k \in 1 .. b + n
    <3>1. b \in Nat /\ n \in Nat /\ Len(list) = b + n  BY <2>2, <2>5
    <3> QED  BY ONLY <3>1
  <2>8. \A k \in 1 .. b : list[k] \in Int
    <3>1. \A k \in 1 .. b + n : list[k] \in Int  BY <2>5
    <3> QED  BY <2>7, <3>1
  <2>9. /\ SubSeq(list, 1, b) \in Seq(Int) /\ Len(SubSeq(list, 1, b)) = b
        /\ \A k \in 1 .. b : SubSeq(list, 1, b)[k] = list[k]
    <3>1. 1 \in Int /\ b \in Int /\ b - 1 + 1 = b /\ (~ (1 <= b) => b = 0)  BY <2>2
    <3>2. /\ SubSeq(list, 1, b) \in Seq(Int)
          /\ Len(SubSeq(list, 1, b)) = IF 1 <= b THEN b - 1 + 1 ELSE 0
          /\ \A k \in 1 .. b - 1 + 1 : SubSeq(list, 1, b)[k] = list[1 + k - 1]
      BY <2>8, <3>1, SubSeqProperties
    <3>3. \A k \in 1 .. b : 1 + k - 1 = k  BY <2>2
    <3> QED  BY <3>1, <3>2, <3>3
  <2>10. SubSeq(list, 1, b) = Numbers(use, before)
    <3> DEFINE l == SubSeq(list, 1, b)
               r == Numbers(use, before)
    <3>1. \A k \in 1 .. b : l[k] = r[k]  BY <2>2, <2>5, <2>6, <2>7, <2>9
    <3>2. l \in Seq(Int) /\ r \in Seq(Int) /\ Len(l) = Len(r) /\ \A k \in 1 .. Len(l) : l[k] = r[k]
      BY <2>6, <2>9, <3>1
    <3> HIDE DEF l, r
    <3>3. l = r  BY ONLY <3>2, SeqEqual
    <3> QED  BY <3>3 DEF l, r
  <2>11. SubSeq(list, 1, Len(list) - n) = Numbers(use, VerticesOf(type, t, m, 0))  BY <2>4, <2>7, <2>10
  <2> QED  BY <1>3, <2>11 DEF ListFits, m
<1> QED  BY <1>2, <1>3

-----------------------------------------------------------------------------
(* The members and the text                                                *)

\* The last element of the text is open.
Opened == element \in {"p", "new ph", "ph p", "h"}
Closed == IF Opened THEN Len(text) - 1 ELSE Len(text)

\* The open element is the one that the handlers are in, and mEmptyP is about the outline.
TagsFit ==
    /\ element = "p" => text[Len(text)].tag = "p"
    /\ element \in {"new ph", "ph p"} => text[Len(text)].tag = "ph"
    /\ element = "h" => text[Len(text)].tag = "h"
    /\ element \in {"new ph", "ph p", "ph", "h"} => prim.type = "POLYGONS"
    /\ element \in {"ph", "h"} =>
          \E o \in 1 .. Len(text) : /\ OutlineAt(text, Len(text), o)
                                    /\ prim.emptyP <=> text[o].length = 0

\* The vertices counted since mCurrentLastPrimitiveVertexCount are those of the element that is read.
LengthsFit ==
    /\ Reading => text[Len(text)].length = prim.vertexCount - prim.lastCount
    /\ element = "new ph" => text[Len(text)].length = 0
    /\ ~Reading /\ prim.type \notin Single => prim.vertexCount = prim.lastCount
    /\ prim.type \in Single => prim.lastCount = 0 /\ Len(text) <= 1

Shape == Outlined(text) /\ TagsFit /\ LengthsFit

\* What is known of the numbers of a consistent state
LEMMA ConsistentNumbers ==
    ASSUME Consistent
    PROVE  /\ prim \in Members /\ prim.vertexCount \in Nat /\ prim.lastCount \in Nat /\ prim.offset \in Nat
           /\ prim.maxOffset \in Nat /\ prim.texts \in Nat /\ prim.emptyP \in BOOLEAN
           /\ prim.vcounts \in Seq(Int) /\ prim.faces \in Nat /\ prim.expected \in Nat
           /\ prim.uses \in Seq(IndexLists) /\ prim.indices \in Seq(Seq(Int))
           /\ text \in Seq(Texts) /\ Len(text) \in Nat
           /\ prim.lastCount <= prim.vertexCount /\ prim.offset <= prim.maxOffset
           /\ element \notin {"mesh", "primitive"} => text # << >>
           /\ text = << >> => prim.vertexCount = 0 /\ prim.lastCount = 0
           /\ ~Reading => prim.offset = 0
<1>1. /\ prim \in Members /\ prim.vertexCount \in Nat /\ prim.lastCount \in Nat /\ prim.offset \in Nat
      /\ prim.maxOffset \in Nat /\ prim.texts \in Nat /\ prim.emptyP \in BOOLEAN
      /\ prim.vcounts \in Seq(Int) /\ prim.faces \in Nat /\ prim.expected \in Nat
      /\ prim.uses \in Seq(IndexLists) /\ prim.indices \in Seq(Seq(Int))
  BY DEF Consistent, Typed, Members
<1>2. text \in Seq(Texts) /\ Len(text) \in Nat  BY DEF Consistent, Typed
<1>3. prim.lastCount <= prim.vertexCount /\ prim.offset <= prim.maxOffset  BY DEF Consistent, Counted
<1>4. element \notin {"mesh", "primitive"} => text # << >>  BY DEF Consistent, Counted
<1>5. text = << >> => prim.vertexCount = 0 /\ prim.lastCount = 0
  <2>1. text = << >> => prim.vertexCount = 0  BY DEF Consistent, Counted
  <2> QED  BY <1>1, <1>3, <2>1
<1>6. ~Reading => prim.offset = 0
  <2>1. prim.offset > 0 => Reading  BY DEF Consistent, Counted
  <2> QED  BY <1>1, <2>1
<1> QED  BY <1>1, <1>2, <1>3, <1>4, <1>5, <1>6

LEMMA LastLength ==
    ASSUME Consistent, text # << >>
    PROVE  /\ text[Len(text)] \in Texts /\ text[Len(text)].length \in Nat /\ text[Len(text)].first \in Nat
           /\ Len(text) \in Nat /\ Len(text) \in 1 .. Len(text) /\ Len(text) >= 1
           /\ Vertices = text[Len(text)].first + text[Len(text)].length
<1>1. text \in Seq(Texts)  BY DEF Consistent, Typed
<1>2. /\ text[Len(text)] \in Texts /\ Len(text) \in Nat /\ Len(text) \in 1 .. Len(text) /\ Len(text) >= 1
  BY <1>1
<1>3. text[Len(text)].length \in Nat /\ text[Len(text)].first \in Nat
  <2> DEFINE last == text[Len(text)]
  <2>1. last \in Texts  BY <1>2
  <2> HIDE DEF last
  <2>2. last.length \in Nat /\ last.first \in Nat  BY <2>1 DEF Texts
  <2> QED  BY <2>2 DEF last
<1> QED  BY <1>2, <1>3 DEF Vertices

\* An element of the text is begun: it is the last one, and it is empty.
LEMMA OpenTextLast ==
    ASSUME Typed, NEW tag \in {"p", "ph", "h"}, OpenText(tag)
    PROVE  /\ text'[Len(text')].tag = tag /\ text'[Len(text')].length = 0 /\ Len(text') = Len(text) + 1
           /\ text' \in Seq(Texts) /\ Same(text, text', Len(text)) /\ Same(text', text, Len(text))
           /\ Len(text) \in Nat
<1>1. /\ text' \in Seq(Texts) /\ Len(text') = Len(text) + 1 /\ Vertices \in Nat
      /\ \A i \in 1 .. Len(text) : text'[i] = text[i]
      /\ text'[Len(text) + 1] = [tag |-> tag, first |-> Vertices, length |-> 0]
  BY OpenTextFacts
<1>2. Len(text) \in Nat  BY DEF Typed
<1>3. Len(text) <= Len(text) /\ Len(text) <= Len(text')  BY <1>1, <1>2
<1> QED  BY <1>1, <1>2, <1>3 DEF Same

LEMMA OpenTextOutlined ==
    ASSUME Typed, Outlined(text), NEW tag \in {"p", "ph", "h"}, OpenText(tag), text = << >> => tag # "h"
    PROVE  Outlined(text')
<1>1. /\ text'[Len(text')].tag = tag /\ Len(text') = Len(text) + 1 /\ Same(text, text', Len(text))
      /\ Len(text) \in Nat
  BY OpenTextLast
<1>2. CASE text = << >>
  <2>1. Len(text') = 1  BY <1>1, <1>2
  <2> QED  BY <1>1, <1>2, <2>1 DEF Outlined
<1>3. CASE text # << >>
  <2>1. 1 \in 1 .. Len(text)  BY <1>3 DEF Typed
  <2> QED  BY <1>1, <1>3, <2>1 DEF Outlined, Same
<1> QED  BY <1>2, <1>3

LEMMA LengthenLast ==
    ASSUME Consistent, text # << >>, Lengthen
    PROVE  /\ text' \in Seq(Texts) /\ Len(text') = Len(text)
           /\ Same(text, text', Len(text) - 1)
           /\ text'[Len(text)].tag = text[Len(text)].tag /\ text'[Len(text)].first = text[Len(text)].first
           /\ text'[Len(text)].length = text[Len(text)].length + 1
           /\ Outlined(text) => Outlined(text')
<1>1. Typed  BY DEF Consistent
<1>2. /\ text' \in Seq(Texts) /\ Len(text') = Len(text) /\ \A i \in 1 .. Len(text) - 1 : text'[i] = text[i]
      /\ text'[Len(text)] = [text[Len(text)] EXCEPT !.length = @ + 1]
  BY <1>1, LengthenFacts
<1>3. text[Len(text)] \in Texts /\ Len(text) \in Nat /\ Len(text) >= 1  BY LastLength
<1>4. /\ text'[Len(text)].tag = text[Len(text)].tag /\ text'[Len(text)].first = text[Len(text)].first
      /\ text'[Len(text)].length = text[Len(text)].length + 1
  <2> DEFINE last == text[Len(text)]
             longer == text'[Len(text)]
  <2>1. last \in Texts /\ longer = [last EXCEPT !.length = @ + 1]  BY <1>2, <1>3
  <2> HIDE DEF last, longer
  <2>2. longer.tag = last.tag /\ longer.first = last.first /\ longer.length = last.length + 1
    BY <2>1 DEF Texts
  <2> QED  BY <2>2 DEF last, longer
<1>5. Same(text, text', Len(text) - 1)
  <2>1. Len(text) - 1 <= Len(text) /\ Len(text) - 1 <= Len(text')  BY <1>2, <1>3
  <2> QED  BY <1>2, <2>1 DEF Same
<1>6. Outlined(text) => Outlined(text')
  <2>1. CASE Len(text) = 1  BY <1>4, <2>1 DEF Outlined
  <2>2. CASE Len(text) # 1
    <3>a. Len(text) \in Nat /\ Len(text) >= 1  BY <1>3
    <3>b. \A n \in Nat : n >= 1 /\ n # 1 => 1 \in 1 .. n - 1  OBVIOUS
    <3>1. 1 \in 1 .. Len(text) - 1  BY <2>2, <3>a, <3>b, Zenon
    <3> QED  BY <1>2, <3>1 DEF Outlined
  <2> QED  BY <2>1, <2>2
<1> QED  BY <1>2, <1>4, <1>5, <1>6

-----------------------------------------------------------------------------
(* Every step keeps the members in line with the text                      *)

LEMMA InitShape == Init => Shape
<1> SUFFICES ASSUME Init PROVE Shape  OBVIOUS
<1>1. prim = NoPrimitive /\ element = "mesh" /\ text = << >>  BY DEF Init
<1>2. prim.type = "NONE" /\ prim.vertexCount = 0 /\ prim.lastCount = 0  BY <1>1 DEF NoPrimitive
<1> QED  BY <1>1, <1>2 DEF Shape, Outlined, TagsFit, LengthsFit, Reading, Single

LEMMA BeginShape ==
    ASSUME Consistent, Shape, NEW type \in Types, Begin(type)
    PROVE  Shape'
<1>1. prim = NoPrimitive  BY DEF Begin, Consistent, Typed
<1>2. prim' = [prim EXCEPT !.type = type] /\ element' = "primitive" /\ text' = << >>  BY DEF Begin
<1>3. prim'.vertexCount = 0 /\ prim'.lastCount = 0 /\ Len(text') <= 1  BY <1>1, <1>2 DEF NoPrimitive
<1>4. TagsFit'  BY <1>2 DEF TagsFit
<1>5. LengthsFit'  BY <1>2, <1>3 DEF LengthsFit, Reading
<1> QED  BY <1>2, <1>4, <1>5 DEF Shape, Outlined

\* A step that leaves the element, the text and the counters alone
LEMMA SameShape ==
    ASSUME Shape, element' = element, text' = text,
           prim'.type = prim.type, prim'.emptyP = prim.emptyP, prim'.vertexCount = prim.vertexCount,
           prim'.lastCount = prim.lastCount
    PROVE  Shape'
BY DEF Shape, Outlined, TagsFit, LengthsFit, Reading

LEMMA BeginInputShape ==
    ASSUME Consistent, Shape, NEW input \in Inputs, BeginInput(input)
    PROVE  Shape'
<1>1. prim \in Members  BY DEF Consistent, Typed
<1>2. element' = element /\ text' = text  BY DEF BeginInput
<1>3. /\ prim'.type = prim.type /\ prim'.emptyP = prim.emptyP /\ prim'.vertexCount = prim.vertexCount
      /\ prim'.lastCount = prim.lastCount
  BY <1>1 DEF BeginInput, Members
<1> QED  BY <1>2, <1>3, SameShape

LEMMA DataVcountShape ==
    ASSUME Consistent, Shape, NEW n \in VertexCounts, DataVcount(n)
    PROVE  Shape'
<1>1. prim \in Members  BY DEF Consistent, Typed
<1>2. element' = element /\ text' = text  BY DEF DataVcount
<1>3. /\ prim'.type = prim.type /\ prim'.emptyP = prim.emptyP /\ prim'.vertexCount = prim.vertexCount
      /\ prim'.lastCount = prim.lastCount
  BY <1>1 DEF DataVcount, Members
<1> QED  BY <1>2, <1>3, SameShape

\* begin__p(): no vertex has been counted since mCurrentLastPrimitiveVertexCount, so that nothing ends.
LEMMA BeginPEndsNothing ==
    ASSUME Consistent, LengthsFit, BeginP
    PROVE  /\ prim.vertexCount = prim.lastCount /\ prim'.vertexCount = prim'.lastCount
           /\ prim'.type = prim.type /\ prim'.lastCount = prim.lastCount /\ prim'.emptyP = prim.emptyP
           /\ prim'.vcounts = prim.vcounts /\ prim'.faces = prim.faces /\ prim'.texts = prim.texts
           /\ prim'.inputs = prim.inputs /\ prim'.offset = 0 /\ prim'.expected = prim.expected
           /\ ~ (prim.type \in {"TRIANGLES", "LINES"} \/ prim.texts = 0) =>
                 prim' = prim /\ UNCHANGED <<meshVars, aborted>>
<1>1. /\ prim \in Members /\ prim.vertexCount \in Nat /\ prim.lastCount \in Nat
      /\ text = << >> => prim.vertexCount = 0 /\ prim.lastCount = 0
  BY ConsistentNumbers
<1>2. ~Reading  BY DEF BeginP, Reading
<1>3. prim.vertexCount = prim.lastCount /\ prim.offset = 0
  <2>1. CASE prim.type \in Single
    <3>1. text = << >>  BY <2>1 DEF BeginP
    <3> QED  BY <1>1, <1>2, <3>1, ConsistentNumbers
  <2>2. CASE prim.type \notin Single  BY <1>2, <2>2, ConsistentNumbers DEF LengthsFit
  <2> QED  BY <2>1, <2>2
<1>4. CASE prim.type \in {"TRIANGLES", "LINES"} \/ prim.texts = 0
  <2>1. StartIndices(prim) /\ prim.vertexCount = 0 /\ prim.lastCount = 0  BY <1>4, StartsFresh
  <2>2. prim' = [prim EXCEPT !.offset = 0, !.uses = prim'.uses, !.indices = prim'.indices]
    BY <2>1, StartIndicesFacts DEF Consistent
  <2>3. /\ prim'.type = prim.type /\ prim'.lastCount = prim.lastCount /\ prim'.emptyP = prim.emptyP
        /\ prim'.vcounts = prim.vcounts /\ prim'.faces = prim.faces /\ prim'.texts = prim.texts
        /\ prim'.inputs = prim.inputs /\ prim'.offset = 0 /\ prim'.expected = prim.expected
        /\ prim'.vertexCount = prim.vertexCount
    BY <1>1, <2>2 DEF Members
  <2> QED  BY <1>3, <1>4, <2>3
<1>5. CASE ~ (prim.type \in {"TRIANGLES", "LINES"} \/ prim.texts = 0)
  <2>1. /\ prim' = IF prim.type = "TRIFANS" THEN EndStrip(prim) ELSE prim
        /\ UNCHANGED <<meshVars, aborted>>
    BY <1>5 DEF BeginP
  <2>2. EndStrip(prim) = prim
    <3>1. prim.vertexCount - prim.lastCount = 0  BY <1>1, <1>3
    <3> QED  BY <3>1 DEF EndStrip
  <2>3. prim' = prim  BY <2>1, <2>2
  <2> QED  BY <1>3, <2>1, <2>3
<1> QED  BY <1>4, <1>5

LEMMA BeginPShape ==
    ASSUME Consistent, Shape, BeginP
    PROVE  Shape'
<1>1. /\ prim'.vertexCount = prim'.lastCount /\ prim'.type = prim.type /\ prim'.lastCount = prim.lastCount
      /\ prim'.emptyP = prim.emptyP
  BY BeginPEndsNothing DEF Shape
<1>2. prim'.vertexCount - prim'.lastCount = 0
  <2>1. prim'.lastCount \in Nat  BY <1>1, ConsistentNumbers
  <2> QED  BY <1>1, <2>1
<1>3. prim'.type \in Single => prim'.lastCount = 0  BY <1>1 DEF Shape, LengthsFit
<1>4. CASE element = "primitive"
  <2>1. element' = "p" /\ OpenText("p") /\ (prim.type \in Single => text = << >>)  BY <1>4 DEF BeginP
  <2>2. Typed /\ Outlined(text)  BY DEF Consistent, Shape
  <2>3. /\ text'[Len(text')].tag = "p" /\ text'[Len(text')].length = 0 /\ Len(text') = Len(text) + 1
    BY <2>1, <2>2, OpenTextLast
  <2>4. Outlined(text')  BY <2>1, <2>2, OpenTextOutlined
  <2>5. prim'.type \in Single => Len(text') <= 1
    <3> SUFFICES ASSUME prim.type \in Single PROVE Len(text') <= 1  BY <1>1
    <3>1. Len(text) = 0  BY <2>1
    <3> QED  BY <2>3, <3>1
  <2>6. TagsFit'  BY <2>1, <2>3 DEF TagsFit
  <2>7. LengthsFit'  BY <1>1, <1>2, <1>3, <2>1, <2>3, <2>5 DEF LengthsFit
  <2> QED  BY <2>4, <2>6, <2>7 DEF Shape
<1>5. CASE element = "new ph"
  <2>1. element' = "ph p" /\ text' = text  BY <1>5 DEF BeginP
  <2>2. text'[Len(text')].tag = "ph" /\ text'[Len(text')].length = 0 /\ prim'.type = "POLYGONS"
    BY <1>1, <1>5, <2>1 DEF Shape, TagsFit, LengthsFit
  <2>3. TagsFit'  BY <2>1, <2>2 DEF TagsFit
  <2>4. LengthsFit'
    <3>1. "POLYGONS" \notin Single  BY DEF Single
    <3> QED  BY <1>1, <1>2, <2>1, <2>2, <3>1 DEF LengthsFit
  <2> QED  BY <2>1, <2>3, <2>4 DEF Shape, Outlined
<1> QED  BY <1>4, <1>5 DEF BeginP

\* A number is written: what Data does to the members and the text.
LEMMA DataFacts ==
    ASSUME Consistent, Data
    PROVE  /\ Reading /\ text # << >> /\ Reading' /\ element' = element
           /\ prim' \in Members /\ prim'.type = prim.type /\ prim'.emptyP = prim.emptyP
           /\ prim'.lastCount = prim.lastCount /\ prim'.uses = prim.uses /\ prim'.vcounts = prim.vcounts
           /\ prim'.faces = prim.faces /\ prim'.texts = prim.texts /\ prim'.inputs = prim.inputs
           /\ prim'.maxOffset = prim.maxOffset /\ prim'.expected = prim.expected
           /\ prim'.offset = (IF prim.offset = prim.maxOffset THEN 0 ELSE prim.offset + 1)
           /\ prim'.vertexCount =
                 (IF prim.offset = prim.maxOffset THEN prim.vertexCount + 1 ELSE prim.vertexCount)
           /\ prim'.indices = [i \in 1 .. Len(prim.uses) |->
                 IF prim.uses[i].offset = prim.offset
                 THEN Append(prim.indices[i], Number(Vertices, prim.offset) + prim.uses[i].initial)
                 ELSE prim.indices[i]]
           /\ IF prim.offset = prim.maxOffset THEN Lengthen ELSE text' = text
<1> DEFINE number == Number(Vertices, prim.offset)
           q == WriteIndex(prim, number)
<1>1. prim \in Members /\ prim.offset \in Nat  BY ConsistentNumbers
<1>2. Reading /\ text # << >> /\ Vertices \in Nat
  BY VerticesInNat DEF Data, Reading, Consistent, Counted
<1>3. number \in Nat  BY <1>1, <1>2 DEF Number
<1>4. /\ q \in Members
      /\ q = [prim EXCEPT !.indices = q.indices, !.offset = q.offset, !.vertexCount = q.vertexCount]
      /\ q.offset = (IF prim.offset = prim.maxOffset THEN 0 ELSE prim.offset + 1)
      /\ q.vertexCount = (IF prim.offset = prim.maxOffset THEN prim.vertexCount + 1 ELSE prim.vertexCount)
      /\ q.indices = [i \in 1 .. Len(prim.uses) |->
            IF prim.uses[i].offset = prim.offset THEN Append(prim.indices[i], number + prim.uses[i].initial)
            ELSE prim.indices[i]]
  BY <1>1, <1>3, WriteIndexFacts DEF Consistent, Counted
<1>5. prim' = q  BY DEF Data
<1> HIDE DEF q
<1>6. /\ q.type = prim.type /\ q.emptyP = prim.emptyP /\ q.lastCount = prim.lastCount
      /\ q.uses = prim.uses /\ q.vcounts = prim.vcounts /\ q.faces = prim.faces /\ q.texts = prim.texts
      /\ q.inputs = prim.inputs /\ q.maxOffset = prim.maxOffset /\ q.expected = prim.expected
  <2> HIDE DEF number
  <2>1. q = [prim EXCEPT !.indices = q.indices, !.offset = q.offset, !.vertexCount = q.vertexCount]
    BY <1>4
  <2> QED  BY <1>1, <2>1 DEF Members
<1>7. element' = element /\ IF prim.offset = prim.maxOffset THEN Lengthen ELSE text' = text  BY DEF Data
<1>8. Reading'  BY <1>2, <1>5, <1>6, <1>7 DEF Reading
<1> QED  BY <1>2, <1>4, <1>5, <1>6, <1>7, <1>8 DEF number

\* The outline stays where it is when the hole after it goes on.
LEMMA OutlineStays ==
    ASSUME Consistent, TagsFit, element = "h", Lengthen
    PROVE  \E o \in 1 .. Len(text') : /\ OutlineAt(text', Len(text'), o)
                                      /\ prim.emptyP <=> text'[o].length = 0
<1> DEFINE n == Len(text)
<1>1. n \in Nat /\ text # << >> /\ Len(text') = n /\ Same(text, text', n - 1)
      /\ text'[n].tag = text[n].tag
  BY ConsistentNumbers, LengthenLast
<1>2. text[n].tag = "h"  BY DEF TagsFit
<1>3. PICK o \in 1 .. n : OutlineAt(text, n, o) /\ (prim.emptyP <=> text[o].length = 0)
  BY DEF TagsFit
<1>4. o \in 1 .. n - 1
  <2>1. o # n  BY <1>2, <1>3 DEF OutlineAt
  <2>2. \A m \in Nat : \A k \in 1 .. m : k # m => k \in 1 .. m - 1  OBVIOUS
  <2> HIDE DEF n
  <2> QED  BY <1>1, <1>3, <2>1, <2>2, Zenon
<1>5. text'[o] = text[o]  BY <1>1, <1>4 DEF Same
<1>6. OutlineAt(text', n, o)
  <2> SUFFICES ASSUME NEW j \in o + 1 .. n PROVE text'[j].tag = "h"
    BY <1>3, <1>5 DEF OutlineAt
  <2>1. text[j].tag = "h"  BY <1>3 DEF OutlineAt
  <2>2. CASE j = n  BY <1>1, <1>2, <2>2
  <2>3. CASE j # n
    <3>1. n \in Nat /\ o \in 1 .. n - 1 /\ j \in o + 1 .. n  BY <1>1, <1>4
    <3> HIDE DEF n
    <3>2. j \in 1 .. n - 1  BY <2>3, <3>1
    <3> QED  BY <1>1, <2>1, <3>2 DEF Same
  <2> QED  BY <2>2, <2>3
<1> HIDE DEF n
<1>7. Len(text') = n  BY <1>1
<1> QED  BY <1>3, <1>5, <1>6, <1>7

LEMMA DataShape ==
    ASSUME Consistent, Shape, Data
    PROVE  Shape'
<1>1. /\ Reading /\ text # << >> /\ Reading' /\ element' = element
      /\ prim'.type = prim.type /\ prim'.emptyP = prim.emptyP /\ prim'.lastCount = prim.lastCount
      /\ prim'.vertexCount =
            (IF prim.offset = prim.maxOffset THEN prim.vertexCount + 1 ELSE prim.vertexCount)
      /\ IF prim.offset = prim.maxOffset THEN Lengthen ELSE text' = text
  BY DataFacts
<1>2. prim.vertexCount \in Nat /\ prim.lastCount \in Nat  BY ConsistentNumbers
<1>3. text[Len(text)].length = prim.vertexCount - prim.lastCount  BY <1>1 DEF Shape, LengthsFit
<1>4. element # "new ph"  BY DEF Data
<1>5. CASE prim.offset = prim.maxOffset
  <2>1. Lengthen /\ prim'.vertexCount = prim.vertexCount + 1  BY <1>1, <1>5
  <2>2. /\ Len(text') = Len(text) /\ Outlined(text')
        /\ text'[Len(text)].tag = text[Len(text)].tag
        /\ text'[Len(text)].length = text[Len(text)].length + 1
    BY <1>1, <2>1, LengthenLast DEF Shape
  <2>3. element = "h" => \E o \in 1 .. Len(text') : /\ OutlineAt(text', Len(text'), o)
                                                    /\ prim.emptyP <=> text'[o].length = 0
    BY <2>1, OutlineStays DEF Shape
  <2>4. element # "ph"  BY DEF Data
  <2>5. TagsFit'
    <3>1. /\ element = "p" => text[Len(text)].tag = "p"
          /\ element = "ph p" => text[Len(text)].tag = "ph"
          /\ element = "h" => text[Len(text)].tag = "h"
          /\ element \in {"new ph", "ph p", "ph", "h"} => prim.type = "POLYGONS"
      BY DEF Shape, TagsFit
    <3> QED  BY <1>1, <1>4, <2>2, <2>3, <2>4, <3>1 DEF TagsFit
  <2>6. LengthsFit'
    <3>1. text'[Len(text')].length = prim'.vertexCount - prim'.lastCount  BY <1>1, <1>2, <1>3, <2>1, <2>2
    <3>2. prim'.type \in Single => prim'.lastCount = 0 /\ Len(text') <= 1
      BY <1>1, <2>2 DEF Shape, LengthsFit
    <3> QED  BY <1>1, <1>4, <3>1, <3>2 DEF LengthsFit
  <2> QED  BY <2>2, <2>5, <2>6 DEF Shape
<1>6. CASE prim.offset # prim.maxOffset
  <2>1. text' = text /\ prim'.vertexCount = prim.vertexCount  BY <1>1, <1>6
  <2> QED  BY <1>1, <2>1, SameShape
<1> QED  BY <1>5, <1>6

LEMMA DataIgnoredShape ==
    ASSUME Consistent, Shape, DataIgnored
    PROVE  Shape'
<1>1. element = "h" /\ prim' = prim /\ element' = element /\ Lengthen /\ text # << >> /\ ~Reading
  BY ConsistentNumbers DEF DataIgnored, Reading
<1>2. /\ Len(text') = Len(text) /\ Outlined(text') /\ text'[Len(text)].tag = text[Len(text)].tag
  BY <1>1, LengthenLast DEF Shape
<1>3. \E o \in 1 .. Len(text') : /\ OutlineAt(text', Len(text'), o)
                                 /\ prim.emptyP <=> text'[o].length = 0
  BY <1>1, OutlineStays DEF Shape
<1>4. TagsFit'
  <2>1. text[Len(text)].tag = "h" /\ prim.type = "POLYGONS"  BY <1>1 DEF Shape, TagsFit
  <2> QED  BY <1>1, <1>2, <1>3, <2>1 DEF TagsFit
<1>5. ~Reading'  BY <1>1 DEF Reading
<1>6. LengthsFit'
  <2>1. /\ prim.type \notin Single => prim.vertexCount = prim.lastCount
        /\ prim.type \in Single => prim.lastCount = 0 /\ Len(text) <= 1
    BY <1>1 DEF Shape, LengthsFit
  <2> QED  BY <1>1, <1>2, <1>5, <2>1 DEF LengthsFit
<1> QED  BY <1>2, <1>4, <1>6 DEF Shape

\* The members when end__p() has counted the <p>
Ended == [prim EXCEPT !.texts = @ + 1]

LEMMA EndedFacts ==
    ASSUME Consistent, EndP
    PROVE  /\ Ended \in Members /\ GrownBy(Ended) /\ Ended.texts = prim.texts + 1 /\ Ended.type = prim.type
           /\ Ended.uses = prim.uses /\ Ended.indices = prim.indices /\ Ended.offset = 0
           /\ Ended.vertexCount = prim.vertexCount /\ Ended.lastCount = prim.lastCount
           /\ Ended.vcounts = prim.vcounts /\ Ended.faces = prim.faces /\ Ended.emptyP = prim.emptyP
           /\ Ended.inputs = prim.inputs /\ Ended.maxOffset = prim.maxOffset /\ Ended.expected = prim.expected
           /\ Ended.lastCount <= Ended.vertexCount /\ Ended.texts # 0
           /\ prim.type \in Types /\ text # << >> /\ Reading
<1>1. /\ prim \in Members /\ GrownBy(prim) /\ prim.lastCount <= prim.vertexCount /\ prim.offset = 0
      /\ prim.texts \in Nat /\ prim.type \in Types /\ text # << >> /\ Reading
  BY DEF EndP, Consistent, Typed, Counted, Members, Reading
<1>2. /\ Ended \in Members /\ Ended.texts = prim.texts + 1 /\ Ended.type = prim.type
      /\ Ended.uses = prim.uses /\ Ended.indices = prim.indices
      /\ Ended.offset = 0 /\ Ended.vertexCount = prim.vertexCount /\ Ended.lastCount = prim.lastCount
      /\ Ended.vcounts = prim.vcounts /\ Ended.faces = prim.faces /\ Ended.emptyP = prim.emptyP
      /\ Ended.inputs = prim.inputs /\ Ended.maxOffset = prim.maxOffset /\ Ended.expected = prim.expected
  <2>1. prim.texts + 1 \in Nat  BY <1>1
  <2> QED  BY <1>1, <2>1 DEF Members, Ended
<1>3. GrownBy(Ended)  BY <1>1, <1>2 DEF GrownBy
<1>4. Ended.texts # 0  BY <1>1, <1>2
<1> QED  BY <1>1, <1>2, <1>3, <1>4

\* end__p(), by the type of the primitive
LEMMA EndPCases ==
    ASSUME Consistent, EndP
    PROVE  /\ prim.type \in Strips => prim' = EndStrip(Ended) /\ result' = result
           /\ prim.type = "POLYGONS" => prim' = EndPolygon(Ended, element = "ph p") /\ result' = result
           /\ prim.type = "LINES" =>
                 /\ prim' = [NoPrimitive EXCEPT !.type = prim.type, !.inputs = prim.inputs,
                                                !.maxOffset = prim.maxOffset]
                 /\ result' = IF prim.vertexCount \div 2 > 0
                              THEN Appended(Ended, prim.vertexCount \div 2) ELSE Discarded(Ended)
           /\ prim.type \in {"TRIANGLES", "POLYLIST"} => prim' = Ended /\ result' = result
<1>1. /\ Ended.type = prim.type /\ Ended.inputs = prim.inputs /\ Ended.maxOffset = prim.maxOffset
      /\ Ended.vertexCount = prim.vertexCount
  BY EndedFacts
<1>2. [prim EXCEPT !.texts = @ + 1] = Ended  BY DEF Ended
<1>3. CASE prim.type \in Strips  BY <1>1, <1>2, <1>3 DEF EndP, Strips
<1>4. CASE prim.type = "POLYGONS"  BY <1>1, <1>2, <1>4 DEF EndP, Strips
<1>5. CASE prim.type = "LINES"  BY <1>1, <1>2, <1>5 DEF EndP, Strips, NoPrimitiveAfter
<1>6. CASE prim.type \in {"TRIANGLES", "POLYLIST"}  BY <1>1, <1>2, <1>6 DEF EndP, Strips
<1> QED  BY <1>3, <1>4, <1>5, <1>6 DEF Strips

LEMMA KindsOfTypes ==
    ASSUME NEW type \in Types
    PROVE  /\ type \in Single \/ type \in Strips \cup {"POLYGONS"}
           /\ type \in Single => type \in {"TRIANGLES", "POLYLIST"} \/ type = "LINES"
           /\ type \in Single => type \notin Strips /\ type # "POLYGONS"
BY DEF Types, Single, Strips

LEMMA EndPShape ==
    ASSUME Consistent, Shape, EndP
    PROVE  Shape'
<1>1. /\ text' = text /\ element \in {"p", "ph p"}
      /\ element' = (IF element = "p" THEN "primitive" ELSE "ph")
  BY DEF EndP
<1>2. ~Reading'  BY <1>1 DEF Reading
<1>3. prim.type \in Types /\ text # << >>  BY EndedFacts
<1>4. text[Len(text)].length = prim.vertexCount - prim.lastCount /\ Len(text) \in 1 .. Len(text)
  BY <1>3, EndedFacts, LastLength DEF Shape, LengthsFit
<1>5. /\ prim'.type = prim.type
      /\ prim.type \notin Single => prim'.vertexCount = prim'.lastCount
      /\ prim.type \in Single => prim'.lastCount = 0
      /\ element = "ph p" => (prim'.emptyP <=> prim.vertexCount = prim.lastCount)
  <2>0. /\ Ended \in Members /\ GrownBy(Ended) /\ Ended.offset = 0 /\ Ended.lastCount <= Ended.vertexCount
        /\ Ended.type = prim.type /\ Ended.vertexCount = prim.vertexCount
        /\ Ended.lastCount = prim.lastCount /\ Ended.emptyP = prim.emptyP
    BY EndedFacts
  <2>1. element = "ph p" => prim.type = "POLYGONS"  BY DEF Shape, TagsFit
  <2>2. CASE prim.type \in Strips
    <3>1. prim' = EndStrip(Ended)  BY <2>2, EndPCases
    <3>2. Settled(Ended, EndStrip(Ended))  BY <2>0, EndStripFacts
    <3>3. prim'.type = prim.type /\ prim'.lastCount = prim'.vertexCount  BY <2>0, <3>1, <3>2 DEF Settled
    <3>4. prim.type \notin Single /\ prim.type # "POLYGONS"  BY <2>2 DEF Strips, Single
    <3> QED  BY <2>1, <3>3, <3>4
  <2>3. CASE prim.type = "POLYGONS"
    <3> DEFINE holes == element = "ph p"
    <3>1. prim' = EndPolygon(Ended, holes) /\ holes \in BOOLEAN  BY <2>3, EndPCases
    <3> HIDE DEF holes
    <3>2. /\ Settled(Ended, EndPolygon(Ended, holes))
          /\ EndPolygon(Ended, holes).emptyP =
                IF holes THEN Ended.vertexCount = Ended.lastCount ELSE Ended.emptyP
      BY <2>0, <3>1, EndPolygonFacts
    <3>3. prim'.type = prim.type /\ prim'.lastCount = prim'.vertexCount  BY <2>0, <3>1, <3>2 DEF Settled
    <3>4. prim.type \notin Single  BY <2>3 DEF Single
    <3>5. holes => (prim'.emptyP <=> prim.vertexCount = prim.lastCount)
      <4> SUFFICES ASSUME holes PROVE prim'.emptyP <=> prim.vertexCount = prim.lastCount  OBVIOUS
      <4>1. prim'.emptyP = (Ended.vertexCount = Ended.lastCount)  BY <3>1, <3>2
      <4> QED  BY <2>0, <4>1
    <3> QED  BY <3>3, <3>4, <3>5 DEF holes
  <2>4. CASE prim.type = "LINES"
    <3>1. prim' = [NoPrimitive EXCEPT !.type = prim.type, !.inputs = prim.inputs,
                                      !.maxOffset = prim.maxOffset]
      BY <2>4, EndPCases
    <3>2. prim'.type = prim.type /\ prim'.lastCount = 0  BY <3>1 DEF NoPrimitive
    <3> QED  BY <2>1, <2>4, <3>2 DEF Single
  <2>5. CASE prim.type \in {"TRIANGLES", "POLYLIST"}
    <3>1. prim' = Ended  BY <2>5, EndPCases
    <3>2. prim.lastCount = 0 /\ prim.type \in Single  BY <2>5 DEF Shape, LengthsFit, Single
    <3> QED  BY <2>0, <2>1, <2>5, <3>1, <3>2
  <2> QED  BY <1>3, <2>2, <2>3, <2>4, <2>5, KindsOfTypes
<1>6. TagsFit'
  <2>1. CASE element = "p"  BY <1>1, <2>1 DEF TagsFit
  <2>2. CASE element = "ph p"
    <3>1. text[Len(text)].tag = "ph" /\ prim.type = "POLYGONS"  BY <2>2 DEF Shape, TagsFit
    <3>2. Len(text) \in Nat  BY ConsistentNumbers
    <3>3. OutlineAt(text, Len(text), Len(text))
      <4>1. \A j \in Len(text) + 1 .. Len(text) : FALSE  BY <3>2
      <4> QED  BY <1>4, <3>1, <4>1 DEF OutlineAt
    <3>4. prim'.emptyP <=> text[Len(text)].length = 0
      <4>1. prim.vertexCount \in Nat /\ prim.lastCount \in Nat  BY ConsistentNumbers
      <4>2. text[Len(text)].length = 0 <=> prim.vertexCount = prim.lastCount  BY <1>4, <4>1
      <4> QED  BY <1>5, <2>2, <4>2
    <3> QED  BY <1>1, <1>4, <1>5, <2>2, <3>1, <3>3, <3>4 DEF TagsFit
  <2> QED  BY <1>1, <2>1, <2>2
<1>7. LengthsFit'
  <2>1. prim.type \in Single => Len(text) <= 1  BY DEF Shape, LengthsFit
  <2> QED  BY <1>1, <1>2, <1>5, <2>1 DEF LengthsFit
<1> QED  BY <1>1, <1>6, <1>7 DEF Shape, Outlined

LEMMA BeginPhShape ==
    ASSUME Consistent, Shape, BeginPh
    PROVE  Shape'
<1>1. element = "primitive" /\ prim.type = "POLYGONS" /\ OpenText("ph") /\ element' = "new ph"
      /\ prim' = [prim EXCEPT !.emptyP = TRUE] /\ Typed /\ Outlined(text)
  BY DEF BeginPh, Consistent, Shape
<1>2. text'[Len(text')].tag = "ph" /\ text'[Len(text')].length = 0  BY <1>1, OpenTextLast
<1>3. Outlined(text')  BY <1>1, OpenTextOutlined
<1>4. /\ prim'.type = "POLYGONS" /\ prim'.vertexCount = prim.vertexCount
      /\ prim'.lastCount = prim.lastCount
  <2>1. prim \in Members  BY ConsistentNumbers
  <2> QED  BY <1>1, <2>1 DEF Members
<1>5. "POLYGONS" \notin Single  BY DEF Single
<1>6. prim.vertexCount = prim.lastCount
  <2>1. ~Reading  BY <1>1 DEF Reading
  <2> QED  BY <1>1, <1>5, <2>1 DEF Shape, LengthsFit
<1>7. TagsFit'  BY <1>1, <1>2, <1>4 DEF TagsFit
<1>8. LengthsFit'  BY <1>1, <1>2, <1>4, <1>5, <1>6 DEF LengthsFit, Reading
<1> QED  BY <1>3, <1>7, <1>8 DEF Shape

LEMMA EndPhShape ==
    ASSUME Consistent, Shape, EndPh
    PROVE  Shape'
<1>1. element = "ph" /\ element' = "primitive" /\ prim' = [prim EXCEPT !.texts = @ + 1] /\ text' = text
  BY DEF EndPh
<1>2. /\ prim'.type = prim.type /\ prim'.vertexCount = prim.vertexCount /\ prim'.lastCount = prim.lastCount
  <2>1. prim \in Members  BY ConsistentNumbers
  <2> QED  BY <1>1, <2>1 DEF Members
<1>3. ~Reading /\ ~Reading'  BY <1>1 DEF Reading
<1> QED  BY <1>1, <1>2, <1>3 DEF Shape, Outlined, TagsFit, LengthsFit

LEMMA BeginHShape ==
    ASSUME Consistent, Shape, BeginH
    PROVE  Shape'
<1>1. element = "ph" /\ element' = "h" /\ OpenText("h") /\ prim' = prim /\ Typed /\ Outlined(text)
      /\ text # << >>
  BY ConsistentNumbers DEF BeginH, Consistent, Shape
<1>2. /\ text'[Len(text')].tag = "h" /\ text'[Len(text')].length = 0 /\ Len(text') = Len(text) + 1
      /\ Same(text, text', Len(text)) /\ Len(text) \in Nat
  BY <1>1, OpenTextLast
<1>3. Outlined(text')  BY <1>1, OpenTextOutlined
<1>4. prim.type = "POLYGONS"  BY <1>1 DEF Shape, TagsFit
<1>5. \E o \in 1 .. Len(text') : /\ OutlineAt(text', Len(text'), o)
                                 /\ prim.emptyP <=> text'[o].length = 0
  <2> DEFINE n == Len(text)
  <2>1. PICK o \in 1 .. n : OutlineAt(text, n, o) /\ (prim.emptyP <=> text[o].length = 0)
    BY <1>1 DEF Shape, TagsFit
  <2>2. text'[o] = text[o]  BY <1>2, <2>1 DEF Same
  <2>3. n \in Nat /\ Len(text') = n + 1 /\ o \in 1 .. n + 1 /\ o \in 1 .. Len(text')  BY <1>2
  <2>4. OutlineAt(text', n + 1, o)
    <3> SUFFICES ASSUME NEW j \in o + 1 .. n + 1 PROVE text'[j].tag = "h"
      BY <2>1, <2>2, <2>3 DEF OutlineAt
    <3>1. CASE j = n + 1  BY <1>2, <2>3, <3>1
    <3>2. CASE j # n + 1
      <4>1. n \in Nat /\ o \in 1 .. n  BY <2>3
      <4> HIDE DEF n
      <4>2. j \in o + 1 .. n /\ j \in 1 .. n  BY <3>2, <4>1
      <4>3. text[j].tag = "h"  BY <2>1, <4>2 DEF OutlineAt
      <4> QED  BY <1>2, <4>2, <4>3 DEF Same, n
    <3> QED  BY <3>1, <3>2
  <2> QED  BY <2>1, <2>2, <2>3, <2>4
<1>6. "POLYGONS" \notin Single  BY DEF Single
<1>7. prim.vertexCount - prim.lastCount = 0 /\ prim.vertexCount = prim.lastCount
  <2>1. ~Reading  BY <1>1 DEF Reading
  <2>2. prim.vertexCount = prim.lastCount  BY <1>4, <1>6, <2>1 DEF Shape, LengthsFit
  <2>3. prim.vertexCount \in Nat  BY ConsistentNumbers
  <2> QED  BY <2>2, <2>3
<1>8. TagsFit'  BY <1>1, <1>2, <1>4, <1>5 DEF TagsFit
<1>9. LengthsFit'  BY <1>1, <1>2, <1>4, <1>6, <1>7 DEF LengthsFit
<1> QED  BY <1>3, <1>8, <1>9 DEF Shape

LEMMA EndHShape ==
    ASSUME Consistent, Shape, EndH
    PROVE  Shape'
<1>1. element = "h" /\ element' = "ph" /\ text' = text  BY DEF EndH
<1>2. prim \in Members /\ prim.vertexCount \in Nat /\ prim.lastCount \in Nat /\ prim.vcounts \in Seq(Int)
  BY ConsistentNumbers
<1>3. /\ prim'.type = prim.type /\ prim'.emptyP = prim.emptyP /\ prim'.vertexCount = prim'.lastCount
  <2> DEFINE n == prim.vertexCount - prim.lastCount
  <2>1. CASE n = 0
    <3>1. prim' = prim  BY <2>1 DEF EndH
    <3>2. prim.vertexCount = prim.lastCount  BY <1>2, <2>1
    <3> QED  BY <3>1, <3>2
  <2>2. CASE n # 0
    <3>1. prim' = [prim EXCEPT !.vcounts = Append(@, -n), !.lastCount = prim.vertexCount]
      BY <2>2 DEF EndH
    <3> HIDE DEF n
    <3> QED  BY <1>2, <3>1 DEF Members
  <2> QED  BY <2>1, <2>2
<1>4. prim.type = "POLYGONS" /\ "POLYGONS" \notin Single  BY <1>1 DEF Shape, TagsFit, Single
<1>5. ~Reading'  BY <1>1 DEF Reading
<1>6. TagsFit'  BY <1>1, <1>3, <1>4 DEF Shape, TagsFit
<1>7. LengthsFit'  BY <1>1, <1>3, <1>4, <1>5 DEF LengthsFit
<1> QED  BY <1>1, <1>6, <1>7 DEF Shape, Outlined

LEMMA EndShape ==
    ASSUME Consistent, Shape, End
    PROVE  Shape'
<1>1. prim' = NoPrimitive /\ element' = "mesh" /\ text' = text  BY DEF End, NoPrimitiveAfter
<1>2. prim'.type = "NONE" /\ prim'.vertexCount = 0 /\ prim'.lastCount = 0  BY <1>1 DEF NoPrimitive
<1>3. ~Reading'  BY <1>1 DEF Reading
<1>4. TagsFit'  BY <1>1 DEF TagsFit
<1>5. LengthsFit'  BY <1>1, <1>2, <1>3 DEF LengthsFit, Single
<1> QED  BY <1>1, <1>4, <1>5 DEF Shape, Outlined

-----------------------------------------------------------------------------
(* The counts of strips, polygons and holes                                *)

Grouped == Strips \cup {"POLYGONS"}

CountsFit ==
    /\ prim.type \in Grouped => /\ prim.vcounts = GroupsUpTo(prim.type, text)[Closed]
                                /\ prim.faces = FacesTotal(prim.type, prim.vcounts)
    /\ prim.type \in {"TRIANGLES", "LINES"} => prim.vcounts = << >>
    /\ prim.type = "POLYLIST" => CountedVertices(prim.vcounts) = prim.expected
    /\ prim.type \in {"TRIANGLES", "POLYLIST"} /\ element = "primitive" =>
          prim.vertexCount = Len(KeptVertices(prim.type, text))

\* Before the first <p> there is no element of the text.
Fresh == prim.texts = 0 /\ element \in {"primitive", "new ph"} /\ prim.type # "LINES" => Closed = 0

LEMMA KeptLast ==
    ASSUME NEW t \in Seq(Texts), t # << >>, NEW type
    PROVE  /\ type \in Strips /\ t[Len(t)].tag # "h" =>
                 (Kept(type, t, Len(t)) <=> t[Len(t)].length >= Least(type))
           /\ type \notin Strips /\ t[Len(t)].tag # "h" => Kept(type, t, Len(t))
           /\ \A o : type \notin Strips /\ t[Len(t)].tag = "h" /\ OutlineAt(t, Len(t), o) =>
                 (Kept(type, t, Len(t)) <=> t[o].length > 0)
<1>1. Len(t) \in Nat  OBVIOUS
<1>2. \A o : OutlineAt(t, Len(t), o) => Outline(t, Len(t)) = o  BY <1>1, OutlineFacts
<1> QED  BY <1>2 DEF Kept

\* The counts and faces of the first n elements
CountsOf(type, t, n, vcounts, faces) ==
    vcounts = GroupsUpTo(type, t)[n] /\ faces = FacesTotal(type, vcounts)
\* The last element is counted, if it is to be.
LastCounted(type, t, v, f, w, g) ==
    IF Counting(type, t, Len(t))
    THEN w = Append(v, CountOf(t, Len(t))) /\ g = f + FacesIn(type, CountOf(t, Len(t)))
    ELSE w = v /\ g = f

\* A strip, polygon or hole ends.
LEMMA CountsGrow ==
    ASSUME NEW t \in Seq(Texts), t # << >>, NEW type,
           NEW v \in Seq(Int), NEW f, CountsOf(type, t, Len(t) - 1, v, f),
           NEW w, NEW g, LastCounted(type, t, v, f, w, g)
    PROVE  CountsOf(type, t, Len(t), w, g)
<1> DEFINE n == Len(t)
           x == CountOf(t, n)
<1>1. n \in 1 .. Len(t)  OBVIOUS
<1>2. GroupsUpTo(type, t)[n] = (IF Counting(type, t, n) THEN Append(GroupsUpTo(type, t)[n - 1], x)
                                ELSE GroupsUpTo(type, t)[n - 1])
  BY <1>1, GroupsUpToFacts
<1>0. /\ v = GroupsUpTo(type, t)[n - 1] /\ f = FacesTotal(type, v)
      /\ IF Counting(type, t, n) THEN w = Append(v, x) /\ g = f + FacesIn(type, x)
         ELSE w = v /\ g = f
  BY DEF CountsOf, LastCounted
<1>3. w = GroupsUpTo(type, t)[n]  BY <1>0, <1>2
<1>4. x \in Int
  <2>1. t[n].length \in Nat  BY <1>1, ContributionFacts
  <2> QED  BY <2>1 DEF CountOf
<1> HIDE DEF x
<1>5. FacesTotal(type, Append(v, x)) = FacesTotal(type, v) + FacesIn(type, x)  BY <1>4, FacesAppend
<1>6. g = FacesTotal(type, w)  BY <1>0, <1>5
<1> QED  BY <1>3, <1>6 DEF CountsOf

\* end__p() for a strip
LEMMA EndStripParts ==
    ASSUME NEW p \in Members, p.lastCount <= p.vertexCount, NEW n, n = p.vertexCount - p.lastCount,
           p.type \in Strips
    PROVE  /\ n \in Nat /\ EndStrip(p).uses = p.uses /\ EndStrip(p).texts = p.texts
           /\ n = 0 => EndStrip(p) = p
           /\ n # 0 /\ n >= Least(p.type) =>
                 /\ EndStrip(p).vcounts = Append(p.vcounts, n) /\ EndStrip(p).indices = p.indices
                 /\ EndStrip(p).faces = p.faces + FacesIn(p.type, n)
           /\ n # 0 /\ ~ (n >= Least(p.type)) =>
                 /\ EndStrip(p).vcounts = p.vcounts /\ EndStrip(p).indices = Erase(p, n)
                 /\ EndStrip(p).faces = p.faces
<1>1. p.vertexCount \in Nat /\ p.lastCount \in Nat /\ p.faces \in Nat  BY DEF Members
<1>2. n \in Nat  BY <1>1
<1>3. p.vertexCount - p.lastCount = n  OBVIOUS
<1>4. CASE n = 0  BY <1>2, <1>3, <1>4 DEF EndStrip
<1>5. CASE n # 0 /\ n >= Least(p.type)
  <2>1. EndStrip(p) = [p EXCEPT !.vcounts = Append(@, n), !.strips = @ + 1,
                                !.faces = @ + n - (Least(p.type) - 1), !.lastCount = p.vertexCount]
    BY <1>3, <1>5 DEF EndStrip
  <2>2. p.faces + n - (Least(p.type) - 1) = p.faces + FacesIn(p.type, n)
    <3>1. Least(p.type) \in Nat  BY DEF Least
    <3>2. FacesIn(p.type, n) = n - (Least(p.type) - 1)  BY DEF FacesIn
    <3> QED  BY <1>1, <1>2, <3>1, <3>2
  <2>3. EndStrip(p).faces = p.faces + n - (Least(p.type) - 1)
    <3> DEFINE least == Least(p.type)
    <3> HIDE DEF least
    <3>1. EndStrip(p) = [p EXCEPT !.vcounts = Append(@, n), !.strips = @ + 1,
                                  !.faces = @ + n - (least - 1), !.lastCount = p.vertexCount]
      BY <2>1 DEF least
    <3>2. EndStrip(p).faces = p.faces + n - (least - 1)  BY <3>1 DEF Members
    <3> QED  BY <3>2 DEF least
  <2>4. /\ EndStrip(p).vcounts = Append(p.vcounts, n) /\ EndStrip(p).indices = p.indices
        /\ EndStrip(p).uses = p.uses /\ EndStrip(p).texts = p.texts
    BY <2>1 DEF Members
  <2> QED  BY <1>2, <1>5, <2>2, <2>3, <2>4
<1>6. CASE n # 0 /\ ~ (n >= Least(p.type))
  <2>1. EndStrip(p) = [p EXCEPT !.indices = Erase(p, n), !.lastCount = p.vertexCount]
    BY <1>3, <1>6 DEF EndStrip
  <2>2. /\ EndStrip(p).vcounts = p.vcounts /\ EndStrip(p).indices = Erase(p, n)
        /\ EndStrip(p).faces = p.faces /\ EndStrip(p).uses = p.uses /\ EndStrip(p).texts = p.texts
    BY <2>1 DEF Members
  <2> QED  BY <1>2, <1>6, <2>2
<1> QED  BY <1>4, <1>5, <1>6

\* end__p() for a polygon, or the outline of a polygon with holes
LEMMA EndPolygonParts ==
    ASSUME NEW p \in Members, p.lastCount <= p.vertexCount, NEW n, n = p.vertexCount - p.lastCount,
           NEW hasHoles \in BOOLEAN
    PROVE  /\ n \in Nat /\ EndPolygon(p, hasHoles).uses = p.uses
           /\ EndPolygon(p, hasHoles).indices = p.indices /\ EndPolygon(p, hasHoles).texts = p.texts
           /\ n = 0 => EndPolygon(p, hasHoles).vcounts = p.vcounts /\ EndPolygon(p, hasHoles).faces = p.faces
           /\ n # 0 => /\ EndPolygon(p, hasHoles).vcounts = Append(p.vcounts, n)
                       /\ EndPolygon(p, hasHoles).faces = p.faces + 1
<1> DEFINE r == [p EXCEPT !.emptyP = IF hasHoles THEN n = 0 ELSE @, !.lastCount = p.vertexCount]
<1>1. p.vertexCount \in Nat /\ p.lastCount \in Nat  BY DEF Members
<1>2. n \in Nat /\ p.vertexCount - p.lastCount = n  BY <1>1
<1>3. /\ r.vcounts = p.vcounts /\ r.faces = p.faces /\ r.uses = p.uses /\ r.indices = p.indices
      /\ r.texts = p.texts
  BY DEF Members
<1>4. EndPolygon(p, hasHoles) = IF n = 0 THEN r ELSE [r EXCEPT !.vcounts = Append(@, n), !.faces = @ + 1]
  BY <1>2 DEF EndPolygon
<1>5. DOMAIN r = DOMAIN p  OBVIOUS
<1>6. {"vcounts", "faces", "uses", "indices", "texts"} \subseteq DOMAIN r  BY <1>5 DEF Members
<1> HIDE DEF r
<1>7. CASE n = 0  BY <1>2, <1>3, <1>4, <1>7
<1>8. CASE n # 0
  <2>1. EndPolygon(p, hasHoles) = [r EXCEPT !.vcounts = Append(@, n), !.faces = @ + 1]  BY <1>4, <1>8
  <2>2. /\ EndPolygon(p, hasHoles).vcounts = Append(r.vcounts, n)
        /\ EndPolygon(p, hasHoles).faces = r.faces + 1 /\ EndPolygon(p, hasHoles).uses = r.uses
        /\ EndPolygon(p, hasHoles).indices = r.indices /\ EndPolygon(p, hasHoles).texts = r.texts
    BY <1>6, <2>1
  <2> QED  BY <1>2, <1>3, <1>8, <2>2
<1> QED  BY <1>7, <1>8

-----------------------------------------------------------------------------
(* Every step keeps the counts                                             *)

\* A step by which no strip, polygon or hole ends
LEMMA CountsStay ==
    ASSUME CountsFit, text \in Seq(Texts), text' \in Seq(Texts), Outlined(text),
           NEW c \in Nat, Closed = c, Closed' = c, Same(text, text', c),
           prim'.type = prim.type, prim'.vcounts = prim.vcounts, prim'.faces = prim.faces,
           prim'.expected = prim.expected,
           element' = "primitive" =>
              \/ element = "primitive" /\ text' = text /\ prim'.vertexCount = prim.vertexCount
              \/ prim.type \notin Single
    PROVE  CountsFit'
<1>1. GroupsUpTo(prim.type, text)[c] = GroupsUpTo(prim.type, text')[c]  BY SameKeptUpTo
<1>2. prim'.type \in Grouped => /\ prim'.vcounts = GroupsUpTo(prim'.type, text')[Closed']
                                /\ prim'.faces = FacesTotal(prim'.type, prim'.vcounts)
  BY <1>1 DEF CountsFit
<1>3. prim'.type \in {"TRIANGLES", "LINES"} => prim'.vcounts = << >>  BY DEF CountsFit
<1>4. prim'.type = "POLYLIST" => CountedVertices(prim'.vcounts) = prim'.expected  BY DEF CountsFit
<1>5. prim'.type \in {"TRIANGLES", "POLYLIST"} /\ element' = "primitive" =>
          prim'.vertexCount = Len(KeptVertices(prim'.type, text'))
  BY DEF CountsFit, Single
<1> QED  BY <1>2, <1>3, <1>4, <1>5 DEF CountsFit

LEMMA SameItself == ASSUME NEW t \in Seq(Texts), NEW c \in Nat, c <= Len(t) PROVE Same(t, t, c)
BY DEF Same

LEMMA InitCounts == Init => CountsFit /\ Fresh
<1> SUFFICES ASSUME Init PROVE CountsFit /\ Fresh  OBVIOUS
<1>1. prim.type = "NONE" /\ element = "mesh"  BY DEF Init, NoPrimitive
<1> QED  BY <1>1 DEF CountsFit, Fresh, Grouped, Strips

LEMMA BeginCounts ==
    ASSUME Consistent, NEW type \in Types, Begin(type)
    PROVE  CountsFit' /\ Fresh'
<1>1. prim = NoPrimitive  BY DEF Begin, Consistent, Typed
<1>2. prim' = [prim EXCEPT !.type = type] /\ element' = "primitive" /\ text' = << >>  BY DEF Begin
<1>3. prim'.type = type /\ prim'.vcounts = << >> /\ prim'.faces = 0 /\ prim'.vertexCount = 0
      /\ prim'.expected = 0
  BY <1>1, <1>2 DEF NoPrimitive
<1>4. text' \in Seq(Texts) /\ Len(text') = 0  BY <1>2
<1>5. Closed' = 0  BY <1>2, <1>4 DEF Closed, Opened
<1>6. GroupsUpTo(type, text')[0] = << >> /\ KeptUpTo(type, text')[0] = << >>
  BY <1>4, GroupsUpToFacts, KeptUpToFacts
<1>7. FacesTotal(type, << >>) = 0 /\ CountedVertices(<< >>) = 0
  <2>1. << >> \in Seq(Int) /\ 0 \in Int  OBVIOUS
  <2> QED  BY <2>1, FacesAppend, CountedAppend
<1>8. Len(KeptVertices(type, text')) = 0  BY <1>4, <1>6 DEF KeptVertices
<1>9. CountsFit'  BY <1>3, <1>5, <1>6, <1>7, <1>8 DEF CountsFit
<1> QED  BY <1>5, <1>9 DEF Fresh

LEMMA BeginInputCounts ==
    ASSUME Consistent, Shape, CountsFit, Fresh, NEW input \in Inputs, BeginInput(input)
    PROVE  CountsFit' /\ Fresh'
<1>1. prim \in Members /\ text \in Seq(Texts) /\ Len(text) \in Nat  BY ConsistentNumbers
<1>2. element = "primitive" /\ element' = element /\ text' = text  BY DEF BeginInput
<1>3. /\ prim'.type = prim.type /\ prim'.vcounts = prim.vcounts /\ prim'.vertexCount = prim.vertexCount
      /\ prim'.faces = prim.faces /\ prim'.expected = prim.expected /\ prim'.texts = prim.texts
  BY <1>1 DEF BeginInput, Members
<1>4. Closed = Len(text) /\ Closed' = Len(text)  BY <1>2 DEF Closed, Opened
<1>5. Same(text, text', Len(text))  BY <1>1, <1>2, SameItself
<1>6. CountsFit'  BY <1>1, <1>2, <1>3, <1>4, <1>5, CountsStay DEF Shape
<1>7. Fresh'  BY <1>2, <1>3, <1>4 DEF Fresh
<1> QED  BY <1>6, <1>7

LEMMA DataVcountCounts ==
    ASSUME Consistent, Shape, CountsFit, Fresh, NEW n \in VertexCounts, DataVcount(n)
    PROVE  CountsFit' /\ Fresh'
<1>1. prim \in Members /\ prim.vcounts \in Seq(Int) /\ prim.expected \in Nat /\ n \in Nat
  BY ConsistentNumbers, MeshAssumption
<1>2. element = "primitive" /\ element' = element /\ text' = text /\ prim.type = "POLYLIST"
      /\ prim' = [prim EXCEPT !.vcounts = Append(@, n), !.expected = @ + n]
  BY DEF DataVcount
<1>3. /\ prim'.type = prim.type /\ prim'.vcounts = Append(prim.vcounts, n)
      /\ prim'.expected = prim.expected + n /\ prim'.vertexCount = prim.vertexCount
      /\ prim'.texts = prim.texts
  BY <1>1, <1>2 DEF Members
<1>4. Closed' = Closed  BY <1>2 DEF Closed, Opened
<1>5. CountedVertices(prim'.vcounts) = prim'.expected
  <2>1. CountedVertices(prim.vcounts) = prim.expected  BY <1>2 DEF CountsFit
  <2>2. Magnitude(n) = n  BY <1>1 DEF Magnitude
  <2>3. CountedVertices(Append(prim.vcounts, n)) = CountedVertices(prim.vcounts) + Magnitude(n)
    <3>1. prim.vcounts \in Seq(Int) /\ n \in Int  BY <1>1
    <3> QED  BY ONLY <3>1, CountedAppend
  <2> QED  BY <1>3, <2>1, <2>2, <2>3
<1>6. prim'.vertexCount = Len(KeptVertices(prim'.type, text'))  BY <1>2, <1>3 DEF CountsFit
<1>7. CountsFit'
  <2>1. "POLYLIST" \notin Grouped  BY DEF Grouped, Strips
  <2> QED  BY <1>2, <1>3, <1>5, <1>6, <2>1 DEF CountsFit
<1>8. Fresh'  BY <1>2, <1>3, <1>4 DEF Fresh
<1> QED  BY <1>7, <1>8

LEMMA BeginPCounts ==
    ASSUME Consistent, Shape, CountsFit, Fresh, BeginP
    PROVE  CountsFit' /\ Fresh'
<1>1. text \in Seq(Texts) /\ Len(text) \in Nat /\ Typed /\ Outlined(text)
  BY ConsistentNumbers DEF Consistent, Shape
<1>2. /\ prim'.type = prim.type /\ prim'.vcounts = prim.vcounts /\ prim'.faces = prim.faces
      /\ prim'.expected = prim.expected
  BY BeginPEndsNothing DEF Shape
<1>3. CASE element = "primitive"
  <2>1. element' = "p" /\ OpenText("p")  BY <1>3 DEF BeginP
  <2>2. Len(text') = Len(text) + 1 /\ text' \in Seq(Texts) /\ Same(text, text', Len(text))
    BY <1>1, <2>1, OpenTextLast
  <2>3. Closed = Len(text) /\ Closed' = Len(text)  BY <1>1, <1>3, <2>1, <2>2 DEF Closed, Opened
  <2> QED  BY <1>1, <1>2, <2>1, <2>2, <2>3, CountsStay DEF Fresh
<1>4. CASE element = "new ph"
  <2>1. element' = "ph p" /\ text' = text /\ text # << >>  BY <1>4, ConsistentNumbers DEF BeginP
  <2>2. Closed = Len(text) - 1 /\ Closed' = Len(text) - 1  BY <1>4, <2>1 DEF Closed, Opened
  <2>3. Len(text) - 1 \in Nat /\ Len(text) - 1 <= Len(text)
    <3>1. text \in Seq(Texts) /\ text # << >>  BY <1>1, <2>1
    <3> QED  BY ONLY <3>1
  <2>4. Same(text, text', Len(text) - 1)  BY <1>1, <2>1, <2>3, SameItself
  <2> QED  BY <1>1, <1>2, <2>1, <2>2, <2>3, <2>4, CountsStay DEF Fresh
<1> QED  BY <1>3, <1>4 DEF BeginP

LEMMA DataCounts ==
    ASSUME Consistent, Shape, CountsFit, Fresh, Data
    PROVE  CountsFit' /\ Fresh'
<1>1. text \in Seq(Texts) /\ Len(text) \in Nat /\ Outlined(text) /\ text # << >>
  BY ConsistentNumbers, DataFacts DEF Shape
<1>2. /\ prim'.type = prim.type /\ prim'.vcounts = prim.vcounts /\ prim'.faces = prim.faces
      /\ prim'.expected = prim.expected /\ element' = element
      /\ IF prim.offset = prim.maxOffset THEN Lengthen ELSE text' = text
  BY DataFacts
<1>3. element \in {"p", "ph p", "h"}  BY DEF Data
<1>4. Len(text) - 1 \in Nat /\ Len(text) - 1 <= Len(text)  BY <1>1
<1>5. text' \in Seq(Texts) /\ Len(text') = Len(text) /\ Same(text, text', Len(text) - 1)
  <2>1. CASE prim.offset = prim.maxOffset  BY <1>1, <1>2, <2>1, LengthenLast
  <2>2. CASE prim.offset # prim.maxOffset
    <3>1. text' = text  BY <1>2, <2>2
    <3> QED  BY <1>1, <1>4, <3>1, SameItself
  <2> QED  BY <2>1, <2>2
<1>6. Closed = Len(text) - 1 /\ Closed' = Len(text) - 1  BY <1>2, <1>3, <1>5 DEF Closed, Opened
<1>7. element' # "primitive"  BY <1>2, <1>3
<1> QED  BY <1>1, <1>2, <1>3, <1>4, <1>5, <1>6, <1>7, CountsStay DEF Fresh

LEMMA DataIgnoredCounts ==
    ASSUME Consistent, Shape, CountsFit, Fresh, DataIgnored
    PROVE  CountsFit' /\ Fresh'
<1>1. text \in Seq(Texts) /\ Len(text) \in Nat /\ Outlined(text) /\ text # << >>
  BY ConsistentNumbers DEF Shape, DataIgnored
<1>2. element = "h" /\ element' = element /\ prim' = prim /\ Lengthen  BY DEF DataIgnored
<1>3. Len(text) - 1 \in Nat  BY <1>1
<1>4. text' \in Seq(Texts) /\ Len(text') = Len(text) /\ Same(text, text', Len(text) - 1)
  BY <1>1, <1>2, LengthenLast
<1>5. Closed = Len(text) - 1 /\ Closed' = Len(text) - 1  BY <1>2, <1>4 DEF Closed, Opened
<1> QED  BY <1>1, <1>2, <1>3, <1>4, <1>5, CountsStay DEF Fresh

LEMMA BeginPhCounts ==
    ASSUME Consistent, Shape, CountsFit, Fresh, BeginPh
    PROVE  CountsFit' /\ Fresh'
<1>1. prim \in Members /\ text \in Seq(Texts) /\ Len(text) \in Nat /\ Typed /\ Outlined(text)
  BY ConsistentNumbers DEF Consistent, Shape
<1>2. element = "primitive" /\ element' = "new ph" /\ OpenText("ph") /\ prim.type = "POLYGONS"
      /\ prim' = [prim EXCEPT !.emptyP = TRUE]
  BY DEF BeginPh
<1>3. /\ prim'.type = prim.type /\ prim'.vcounts = prim.vcounts /\ prim'.faces = prim.faces
      /\ prim'.expected = prim.expected /\ prim'.texts = prim.texts
  BY <1>1, <1>2 DEF Members
<1>4. Len(text') = Len(text) + 1 /\ text' \in Seq(Texts) /\ Same(text, text', Len(text))
  BY <1>1, <1>2, OpenTextLast
<1>5. Closed = Len(text) /\ Closed' = Len(text)
  <2>1. Closed = Len(text)  BY <1>2 DEF Closed, Opened
  <2>2. Closed' = Len(text') - 1  BY <1>2 DEF Closed, Opened
  <2>3. Len(text') - 1 = Len(text)  BY <1>1, <1>4
  <2> QED  BY <2>1, <2>2, <2>3
<1>6. CountsFit'  BY <1>1, <1>2, <1>3, <1>4, <1>5, CountsStay
<1>7. Fresh'  BY <1>2, <1>3, <1>5 DEF Fresh
<1> QED  BY <1>6, <1>7

LEMMA BeginHCounts ==
    ASSUME Consistent, Shape, CountsFit, Fresh, BeginH
    PROVE  CountsFit' /\ Fresh'
<1>1. prim \in Members /\ text \in Seq(Texts) /\ Len(text) \in Nat /\ Typed /\ Outlined(text)
  BY ConsistentNumbers DEF Consistent, Shape
<1>2. element = "ph" /\ element' = "h" /\ OpenText("h") /\ prim' = prim  BY DEF BeginH
<1>3. Len(text') = Len(text) + 1 /\ text' \in Seq(Texts) /\ Same(text, text', Len(text))
  BY <1>1, <1>2, OpenTextLast
<1>4. Closed = Len(text) /\ Closed' = Len(text)  BY <1>1, <1>2, <1>3 DEF Closed, Opened
<1> QED  BY <1>1, <1>2, <1>3, <1>4, CountsStay DEF Fresh

LEMMA EndPhCounts ==
    ASSUME Consistent, Shape, CountsFit, Fresh, EndPh
    PROVE  CountsFit' /\ Fresh'
<1>1. prim \in Members /\ text \in Seq(Texts) /\ Len(text) \in Nat /\ Outlined(text) /\ prim.texts \in Nat
  BY ConsistentNumbers DEF Shape
<1>2. element = "ph" /\ element' = "primitive" /\ text' = text /\ prim' = [prim EXCEPT !.texts = @ + 1]
  BY DEF EndPh
<1>3. /\ prim'.type = prim.type /\ prim'.vcounts = prim.vcounts /\ prim'.faces = prim.faces
      /\ prim'.expected = prim.expected /\ prim'.texts = prim.texts + 1
  BY <1>1, <1>2 DEF Members
<1>4. Closed = Len(text) /\ Closed' = Len(text)  BY <1>2 DEF Closed, Opened
<1>5. Same(text, text', Len(text))  BY <1>1, <1>2, SameItself
<1>6. prim.type \notin Single  BY <1>2 DEF Shape, TagsFit, Single
<1>7. CountsFit'  BY <1>1, <1>2, <1>3, <1>4, <1>5, <1>6, CountsStay
<1>8. prim'.texts # 0  BY <1>1, <1>3
<1> QED  BY <1>7, <1>8 DEF Fresh

LEMMA EndCounts == End => CountsFit' /\ Fresh'
<1> SUFFICES ASSUME End PROVE CountsFit' /\ Fresh'  OBVIOUS
<1>1. prim'.type = "NONE" /\ element' = "mesh"  BY DEF End, NoPrimitiveAfter, NoPrimitive
<1> QED  BY <1>1 DEF CountsFit, Fresh, Grouped, Strips

\* Where end__p() and end__h() are called: the element that ends, and its vertices
LEMMA EndingElement ==
    ASSUME Consistent, Shape, EndP \/ EndH
    PROVE  /\ text \in Seq(Texts) /\ text # << >> /\ text' = text /\ Len(text) \in Nat
           /\ Closed = Len(text) - 1 /\ Closed' = Len(text) /\ Len(text) - 1 \in 0 .. Len(text)
           /\ element = "p" => text[Len(text)].tag = "p"
           /\ element = "ph p" => text[Len(text)].tag = "ph"
           /\ element = "h" => text[Len(text)].tag = "h"
           /\ element \in {"ph p", "h"} => prim.type = "POLYGONS"
           /\ Reading => text[Len(text)].length = prim.vertexCount - prim.lastCount
           /\ text[Len(text)].length \in Nat /\ text[Len(text)] \in Texts
           /\ element' \in {"primitive", "ph"}
<1>1. element \in {"p", "ph p", "h"} /\ text' = text /\ element' \in {"primitive", "ph"}  BY DEF EndP, EndH
<1>2. text \in Seq(Texts) /\ text # << >> /\ Len(text) \in Nat  BY <1>1, ConsistentNumbers
<1>3. Closed = Len(text) - 1 /\ Closed' = Len(text)  BY <1>1 DEF Closed, Opened
<1>4. Len(text) - 1 \in 0 .. Len(text)  BY <1>2
<1>5. text[Len(text)].length \in Nat /\ text[Len(text)] \in Texts  BY <1>2, LastLength
<1> QED  BY <1>1, <1>2, <1>3, <1>4, <1>5 DEF Shape, TagsFit, LengthsFit

\* The one <p> of a primitive ends: its vertices have all been counted.
LEMMA OneElement ==
    ASSUME Consistent, Shape, EndP, prim.type \in Single
    PROVE  Len(KeptVertices(prim.type, text)) = prim.vertexCount
<1> DEFINE n == prim.vertexCount - prim.lastCount
           m == Len(text)
           last == text[m]
<1>1. /\ text \in Seq(Texts) /\ text # << >> /\ m \in Nat
      /\ element = "p" => last.tag = "p"
      /\ element = "ph p" => last.tag = "ph"
      /\ Reading => last.length = n
  BY EndingElement
<1>2. element \in {"p", "ph p"}  BY DEF EndP
<1>3. Reading /\ prim.vertexCount \in Nat  BY EndedFacts, ConsistentNumbers
<1>4. last.length = n /\ last.tag # "h"  BY <1>1, <1>2, <1>3
<1>5. prim.type \notin Strips  BY DEF Single, Strips
<1>6. prim.lastCount = 0 /\ m = 1
  <2>1. prim.lastCount = 0 /\ m <= 1  BY DEF Shape, LengthsFit
  <2>2. m # 0 /\ m \in Nat
    <3>1. text \in Seq(Texts) /\ text # << >>  BY <1>1
    <3> QED  BY ONLY <3>1
  <2> HIDE DEF m
  <2> QED  BY <2>1, <2>2
<1>7. Kept(prim.type, text, 1)  BY <1>1, <1>4, <1>5, <1>6, KeptLast
<1>8. 1 \in 1 .. Len(text)  BY <1>6
<1>9. /\ Contribution(prim.type, text, 1) \in Seq(Nat)
      /\ Len(Contribution(prim.type, text, 1)) = last.length
  <2>1. last = text[1]  BY <1>6
  <2> HIDE DEF last
  <2> QED  BY <1>1, <1>7, <1>8, <2>1, ContributionFacts
<1>10. KeptUpTo(prim.type, text)[1] = KeptUpTo(prim.type, text)[1 - 1] \o Contribution(prim.type, text, 1)
  BY <1>1, <1>8, KeptUpToFacts
<1>11. KeptUpTo(prim.type, text)[0] = << >>  BY <1>1, KeptUpToFacts
<1>12. KeptUpTo(prim.type, text)[1] = Contribution(prim.type, text, 1)
  <2>1. KeptUpTo(prim.type, text)[1] = << >> \o Contribution(prim.type, text, 1)
    <3>1. 1 - 1 = 0  OBVIOUS
    <3> QED  BY ONLY <1>10, <1>11, <3>1
  <2> QED  BY <1>9, <2>1, ConcatEmptySeq
<1>13. KeptVertices(prim.type, text) = Contribution(prim.type, text, 1)  BY <1>6, <1>12 DEF KeptVertices
<1>14. n = prim.vertexCount  BY <1>3, <1>6
<1> QED  BY <1>4, <1>9, <1>13, <1>14

LEMMA EndPCounts ==
    ASSUME Consistent, Shape, CountsFit, EndP
    PROVE  CountsFit' /\ Fresh'
<1> DEFINE n == prim.vertexCount - prim.lastCount
           m == Len(text)
           last == text[m]
<1>1. /\ text \in Seq(Texts) /\ text # << >> /\ text' = text /\ m \in Nat
      /\ Closed = m - 1 /\ Closed' = m
      /\ element = "p" => last.tag = "p"
      /\ element = "ph p" => last.tag = "ph"
      /\ element = "ph p" => prim.type = "POLYGONS"
      /\ Reading => last.length = n
      /\ element' \in {"primitive", "ph"}
  BY EndingElement
<1>2. element \in {"p", "ph p"} /\ (element = "p" => element' = "primitive")  BY DEF EndP
<1>3. /\ Ended \in Members /\ Ended.type = prim.type /\ Ended.vcounts = prim.vcounts
      /\ Ended.faces = prim.faces /\ Ended.expected = prim.expected
      /\ Ended.vertexCount = prim.vertexCount /\ Ended.lastCount = prim.lastCount
      /\ Ended.lastCount <= Ended.vertexCount /\ Ended.texts # 0 /\ prim.type \in Types /\ Reading
      /\ n = Ended.vertexCount - Ended.lastCount
  BY EndedFacts
<1>4. last.length = n /\ last.tag # "h"  BY <1>1, <1>2, <1>3
<1>5. prim'.type = prim.type  BY EndPConsistent DEF Elsewhere
<1>6. prim.vcounts \in Seq(Int) /\ n \in Nat /\ prim.lastCount \in Nat /\ prim.vertexCount \in Nat
  BY <1>3, ConsistentNumbers
<1>7. CountOf(text, m) = n  BY <1>4 DEF CountOf
<1>8. CASE prim.type \in Strips
  <2>1. prim' = EndStrip(Ended)  BY <1>8, EndPCases
  <2>2. /\ prim'.texts = Ended.texts /\ (n = 0 => prim' = Ended)
        /\ n # 0 /\ n >= Least(prim.type) =>
              prim'.vcounts = Append(prim.vcounts, n) /\ prim'.faces = prim.faces + FacesIn(prim.type, n)
        /\ n # 0 /\ ~ (n >= Least(prim.type)) =>
              prim'.vcounts = prim.vcounts /\ prim'.faces = prim.faces
    <3> HIDE DEF n
    <3> QED  BY <1>3, <1>8, <2>1, EndStripParts
  <2>3. Counting(prim.type, text, m) <=> n # 0 /\ n >= Least(prim.type)
    <3>1. Kept(prim.type, text, m) <=> last.length >= Least(prim.type)  BY <1>1, <1>4, <1>8, KeptLast
    <3> HIDE DEF n, last
    <3> QED  BY <1>4, <1>8, <3>1 DEF Counting, last
  <2>4. /\ prim.vcounts = GroupsUpTo(prim.type, text)[m - 1]
        /\ prim.faces = FacesTotal(prim.type, prim.vcounts)
    BY <1>1, <1>8 DEF CountsFit, Grouped
  <2>5. IF Counting(prim.type, text, m)
        THEN /\ prim'.vcounts = Append(prim.vcounts, CountOf(text, m))
             /\ prim'.faces = prim.faces + FacesIn(prim.type, CountOf(text, m))
        ELSE prim'.vcounts = prim.vcounts /\ prim'.faces = prim.faces
    <3> HIDE DEF n, m, last
    <3> QED  BY <1>3, <1>7, <2>2, <2>3
  <2>6. /\ prim'.vcounts = GroupsUpTo(prim.type, text)[m]
        /\ prim'.faces = FacesTotal(prim.type, prim'.vcounts)
    <3> DEFINE v == prim.vcounts
               f == prim.faces
               w == prim'.vcounts
               g == prim'.faces
               type == prim.type
    <3>1. text \in Seq(Texts) /\ text # << >> /\ v \in Seq(Int)  BY <1>1, <1>6
    <3>2. CountsOf(type, text, Len(text) - 1, v, f)  BY <2>4 DEF CountsOf
    <3>3. LastCounted(type, text, v, f, w, g)  BY <2>5 DEF LastCounted
    <3> HIDE DEF v, f, w, g, type
    <3>4. CountsOf(type, text, Len(text), w, g)  BY ONLY <3>1, <3>2, <3>3, CountsGrow
    <3> QED  BY <3>4 DEF CountsOf, w, g, type
  <2>7. prim.type \notin {"TRIANGLES", "LINES", "POLYLIST"}  BY <1>8 DEF Strips
  <2>8. prim'.texts # 0  BY <1>3, <2>2
  <2> HIDE DEF m
  <2> QED  BY <1>1, <1>5, <2>6, <2>7, <2>8 DEF CountsFit, Fresh
<1>9. CASE prim.type = "POLYGONS"
  <2> DEFINE holes == element = "ph p"
  <2>1. prim' = EndPolygon(Ended, holes) /\ holes \in BOOLEAN  BY <1>9, EndPCases
  <2> HIDE DEF holes
  <2>2. /\ prim'.texts = Ended.texts
        /\ n = 0 => prim'.vcounts = prim.vcounts /\ prim'.faces = prim.faces
        /\ n # 0 => prim'.vcounts = Append(prim.vcounts, n) /\ prim'.faces = prim.faces + 1
    <3> HIDE DEF n
    <3> QED  BY <1>3, <2>1, EndPolygonParts
  <2>3. Counting(prim.type, text, m) <=> n # 0
    <3>1. "POLYGONS" \notin Strips  BY DEF Strips
    <3>2. Kept(prim.type, text, m)  BY <1>1, <1>4, <1>9, <3>1, KeptLast
    <3> HIDE DEF n, last
    <3> QED  BY <1>4, <1>9, <3>2 DEF Counting, last
  <2>4. /\ prim.vcounts = GroupsUpTo(prim.type, text)[m - 1]
        /\ prim.faces = FacesTotal(prim.type, prim.vcounts)
    BY <1>1, <1>9 DEF CountsFit, Grouped
  <2>5. n # 0 => FacesIn(prim.type, n) = 1
    <3>1. prim.type \notin Strips  BY <1>9 DEF Strips
    <3>2. n # 0 => n > 0  BY <1>6
    <3> HIDE DEF n
    <3> QED  BY <3>1, <3>2 DEF FacesIn
  <2>6. IF Counting(prim.type, text, m)
        THEN /\ prim'.vcounts = Append(prim.vcounts, CountOf(text, m))
             /\ prim'.faces = prim.faces + FacesIn(prim.type, CountOf(text, m))
        ELSE prim'.vcounts = prim.vcounts /\ prim'.faces = prim.faces
    <3> HIDE DEF n, m, last
    <3> QED  BY <1>7, <2>2, <2>3, <2>5
  <2>7. /\ prim'.vcounts = GroupsUpTo(prim.type, text)[m]
        /\ prim'.faces = FacesTotal(prim.type, prim'.vcounts)
    <3> DEFINE v == prim.vcounts
               f == prim.faces
               w == prim'.vcounts
               g == prim'.faces
               type == prim.type
    <3>1. text \in Seq(Texts) /\ text # << >> /\ v \in Seq(Int)  BY <1>1, <1>6
    <3>2. CountsOf(type, text, Len(text) - 1, v, f)  BY <2>4 DEF CountsOf
    <3>3. LastCounted(type, text, v, f, w, g)  BY <2>6 DEF LastCounted
    <3> HIDE DEF v, f, w, g, type
    <3>4. CountsOf(type, text, Len(text), w, g)  BY ONLY <3>1, <3>2, <3>3, CountsGrow
    <3> QED  BY <3>4 DEF CountsOf, w, g, type
  <2>8. prim'.texts # 0  BY <1>3, <2>2
  <2> HIDE DEF m
  <2> QED  BY <1>1, <1>5, <1>9, <2>7, <2>8 DEF CountsFit, Fresh
<1>10. CASE prim.type = "LINES"
  <2>1. prim'.vcounts = << >>  BY <1>10, EndPCases DEF NoPrimitive
  <2> QED  BY <1>5, <1>10, <2>1 DEF CountsFit, Fresh, Grouped, Strips
<1>11. CASE prim.type \in {"TRIANGLES", "POLYLIST"}
  <2>1. prim' = Ended  BY <1>11, EndPCases
  <2>2. prim.type \notin Grouped /\ prim.type \notin Strips /\ prim.type \in Single
    BY <1>11 DEF Grouped, Strips, Single
  <2>4. Len(KeptVertices(prim.type, text)) = prim.vertexCount  BY <2>2, OneElement
  <2>5. CountsFit'  BY <1>1, <1>3, <1>11, <2>1, <2>2, <2>4 DEF CountsFit
  <2>6. prim'.texts # 0  BY <1>3, <2>1
  <2> QED  BY <2>5, <2>6 DEF Fresh
<1> QED  BY <1>3, <1>8, <1>9, <1>10, <1>11, KindsOfTypes DEF Strips, Single

\* A hole is kept if the outline before it has a vertex, which is what mEmptyP says.
LEMMA HoleKept ==
    ASSUME Consistent, Shape, element = "h"
    PROVE  Kept(prim.type, text, Len(text)) <=> ~prim.emptyP
<1>1. text \in Seq(Texts) /\ text # << >>  BY ConsistentNumbers
<1>2. text[Len(text)].tag = "h" /\ prim.type \notin Strips  BY DEF Shape, TagsFit, Strips
<1>3. PICK o \in 1 .. Len(text) : OutlineAt(text, Len(text), o) /\ (prim.emptyP <=> text[o].length = 0)
  BY DEF Shape, TagsFit
<1>4. Kept(prim.type, text, Len(text)) <=> text[o].length > 0  BY <1>1, <1>2, <1>3, KeptLast
<1>5. text[o].length \in Nat  BY <1>1, ContributionFacts
<1>6. text[o].length > 0 <=> ~ (text[o].length = 0)  BY <1>5
<1> QED  BY <1>3, <1>4, <1>6, Zenon

\* end__h()
LEMMA EndHParts ==
    ASSUME Consistent, Shape, EndH, NEW n, n = prim.vertexCount - prim.lastCount
    PROVE  /\ n \in Nat /\ prim'.type = prim.type /\ prim'.uses = prim.uses /\ prim'.indices = prim.indices
           /\ prim'.faces = prim.faces /\ prim'.expected = prim.expected /\ prim'.texts = prim.texts
           /\ n = 0 => prim'.vcounts = prim.vcounts
           /\ n # 0 => prim'.vcounts = Append(prim.vcounts, -n)
           /\ Reading => text[Len(text)].length = n
           /\ ~Reading => n = 0
<1>1. prim \in Members /\ prim.vertexCount \in Nat /\ prim.lastCount \in Nat
      /\ prim.lastCount <= prim.vertexCount
  BY ConsistentNumbers
<1>2. n \in Nat  BY <1>1
<1>3. /\ prim'.type = prim.type /\ prim'.uses = prim.uses /\ prim'.indices = prim.indices
      /\ prim'.faces = prim.faces /\ prim'.expected = prim.expected /\ prim'.texts = prim.texts
      /\ n = 0 => prim'.vcounts = prim.vcounts
      /\ n # 0 => prim'.vcounts = Append(prim.vcounts, -n)
  <2>1. CASE n = 0
    <3>1. prim' = prim  BY <2>1 DEF EndH
    <3> QED  BY <2>1, <3>1
  <2>2. CASE n # 0
    <3>1. prim' = [prim EXCEPT !.vcounts = Append(@, -n), !.lastCount = prim.vertexCount]
      BY <2>2 DEF EndH
    <3> QED  BY <1>1, <2>2, <3>1 DEF Members
  <2> QED  BY <2>1, <2>2
<1>5. Reading => text[Len(text)].length = n  BY DEF Shape, LengthsFit
<1>6. ~Reading => n = 0
  <2> SUFFICES ASSUME ~Reading PROVE n = 0  OBVIOUS
  <2>1. prim.type = "POLYGONS"  BY EndingElement DEF EndH
  <2>2. prim.type \notin Single  BY <2>1 DEF Single
  <2>3. prim.vertexCount = prim.lastCount  BY <2>2 DEF Shape, LengthsFit
  <2> QED  BY <1>1, <2>3
<1> QED  BY <1>2, <1>3, <1>5, <1>6

LEMMA EndHCounts ==
    ASSUME Consistent, Shape, CountsFit, EndH
    PROVE  CountsFit' /\ Fresh'
<1> DEFINE n == prim.vertexCount - prim.lastCount
           m == Len(text)
           last == text[m]
<1>1. /\ text \in Seq(Texts) /\ text # << >> /\ text' = text /\ m \in Nat
      /\ Closed = m - 1 /\ Closed' = m
  BY EndingElement
<1>2. element = "h" /\ element' = "ph"  BY DEF EndH
<1>3. prim.type = "POLYGONS" /\ last.tag = "h" /\ last.length \in Nat  BY <1>2, EndingElement
<1>4. /\ n \in Nat /\ prim'.type = prim.type /\ prim'.faces = prim.faces
      /\ n = 0 => prim'.vcounts = prim.vcounts
      /\ n # 0 => prim'.vcounts = Append(prim.vcounts, -n)
      /\ Reading => last.length = n
      /\ ~Reading => n = 0
  BY EndHParts
<1>5. prim.vcounts \in Seq(Int) /\ prim.faces \in Nat /\ prim.emptyP \in BOOLEAN  BY ConsistentNumbers
<1>6. Counting(prim.type, text, m) <=> n # 0
  <2>1. Reading <=> ~prim.emptyP  BY <1>2 DEF Reading
  <2>2. Kept(prim.type, text, m) <=> Reading  BY <1>2, <2>1, HoleKept
  <2>3. prim.type \in Strips \cup {"POLYGONS"}  BY <1>3
  <2> HIDE DEF n, m
  <2>4. Counting(prim.type, text, m) <=> Reading /\ last.length # 0  BY <2>2, <2>3 DEF Counting
  <2> HIDE DEF last
  <2> QED  BY <1>4, <2>4
<1>7. n # 0 => CountOf(text, m) = -n /\ FacesIn(prim.type, -n) = 0
  <2> SUFFICES ASSUME n # 0 PROVE CountOf(text, m) = -n /\ FacesIn(prim.type, -n) = 0  OBVIOUS
  <2>1. last.length = n  BY <1>4
  <2>2. CountOf(text, m) = -n  BY <1>3, <2>1 DEF CountOf
  <2>3. ~ (-n > 0)  BY <1>4
  <2>4. prim.type \notin Strips  BY <1>3 DEF Strips
  <2> HIDE DEF n
  <2>5. FacesIn(prim.type, -n) = 0  BY <2>3, <2>4 DEF FacesIn
  <2> QED  BY <2>2, <2>5
<1>8. LastCounted(prim.type, text, prim.vcounts, prim.faces, prim'.vcounts, prim'.faces)
  <2>1. prim.faces + 0 = prim.faces  BY <1>5
  <2>2. IF Counting(prim.type, text, m)
        THEN /\ prim'.vcounts = Append(prim.vcounts, CountOf(text, m))
             /\ prim'.faces = prim.faces + FacesIn(prim.type, CountOf(text, m))
        ELSE prim'.vcounts = prim.vcounts /\ prim'.faces = prim.faces
    <3> HIDE DEF n, m, last
    <3> QED  BY <1>4, <1>6, <1>7, <2>1
  <2> QED  BY <2>2 DEF LastCounted
<1>9. CountsOf(prim.type, text, Len(text) - 1, prim.vcounts, prim.faces)
  BY <1>1, <1>3 DEF CountsFit, CountsOf, Grouped
<1>10. CountsOf(prim.type, text, Len(text), prim'.vcounts, prim'.faces)
  <2> DEFINE v == prim.vcounts
             f == prim.faces
             w == prim'.vcounts
             g == prim'.faces
             type == prim.type
  <2>1. text \in Seq(Texts) /\ text # << >> /\ v \in Seq(Int)  BY <1>1, <1>5
  <2>2. CountsOf(type, text, Len(text) - 1, v, f)  BY <1>9
  <2>3. LastCounted(type, text, v, f, w, g)  BY <1>8
  <2> HIDE DEF v, f, w, g, type
  <2>4. CountsOf(type, text, Len(text), w, g)  BY ONLY <2>1, <2>2, <2>3, CountsGrow
  <2> QED  BY <2>4 DEF w, g, type
<1>11. CountsFit'
  <2>1. /\ prim'.vcounts = GroupsUpTo(prim'.type, text')[Closed']
        /\ prim'.faces = FacesTotal(prim'.type, prim'.vcounts)
    <3>1. /\ prim'.vcounts = GroupsUpTo(prim.type, text)[m]
          /\ prim'.faces = FacesTotal(prim.type, prim'.vcounts)
      BY <1>10 DEF CountsOf
    <3> HIDE DEF m
    <3> QED  BY <1>1, <1>4, <3>1
  <2> HIDE DEF n, m, last
  <2>2. prim'.type \notin {"TRIANGLES", "LINES", "POLYLIST"}  BY <1>3, <1>4
  <2> QED  BY <2>1, <2>2 DEF CountsFit
<1>12. Fresh'  BY <1>2 DEF Fresh
<1> QED  BY <1>11, <1>12

-----------------------------------------------------------------------------
(* The positions come first                                                *)

HasVertex(inputs) == \E i \in DOMAIN inputs : inputs[i].semantic = "VERTEX"
VertexSeen == element # "mesh" /\ HasVertex(raw) => WithSemantic(prim.inputs, "POSITION") # {}

\* When numbers are read, the first index list is that of the positions.
PositionsFirst ==
    ~aborted /\ element # "mesh" /\ (element \notin {"primitive", "new ph"} \/ prim.texts # 0) =>
        prim.uses # << >> /\ prim.uses[1].list = "POSITION"

LEMMA InitPositions == Init => VertexSeen /\ PositionsFirst
BY DEF Init, VertexSeen, PositionsFirst

LEMMA PositionsStay ==
    ASSUME VertexSeen, PositionsFirst, ~aborted, element # "mesh",
           raw' = raw, prim'.inputs = prim.inputs, prim'.uses = prim.uses,
           element' \in {"primitive", "new ph"} /\ prim'.texts # 0 =>
              element \notin {"primitive", "new ph"} \/ prim.texts # 0,
           element' \notin {"primitive", "new ph"} => element \notin {"primitive", "new ph"}
    PROVE  VertexSeen' /\ PositionsFirst'
<1>1. VertexSeen'  BY DEF VertexSeen
<1>2. PositionsFirst'  BY DEF PositionsFirst
<1> QED  BY <1>1, <1>2

LEMMA BeginPositions ==
    ASSUME Consistent, NEW type \in Types, Begin(type)
    PROVE  VertexSeen' /\ PositionsFirst'
<1>1. prim = NoPrimitive /\ prim' = [prim EXCEPT !.type = type] /\ element' = "primitive" /\ raw' = << >>
  BY DEF Begin, Consistent, Typed
<1>2. prim'.texts = 0  BY <1>1 DEF NoPrimitive
<1>3. ~HasVertex(raw')  BY <1>1 DEF HasVertex
<1> QED  BY <1>1, <1>2, <1>3 DEF VertexSeen, PositionsFirst

LEMMA BeginInputPositions ==
    ASSUME Consistent, VertexSeen, PositionsFirst, NEW input \in Inputs, BeginInput(input)
    PROVE  VertexSeen' /\ PositionsFirst'
<1> DEFINE own == OwnInputs(input.offset)
           inputs == prim.inputs
<1>1. prim \in Members /\ inputs \in Seq(Input) /\ element = "primitive" /\ raw \in Seq(Inputs)
      /\ raw' = Append(raw, input) /\ element' = "primitive"
  BY DEF Consistent, Typed, BeginInput, Members
<1>2. /\ prim'.inputs = IF input.semantic = "VERTEX" THEN inputs \o own ELSE Append(inputs, input)
      /\ prim'.uses = prim.uses /\ prim'.texts = prim.texts
  BY <1>1 DEF BeginInput, Members, OwnInputs
<1>3. VertexSeen'
  <2> SUFFICES ASSUME HasVertex(raw') PROVE WithSemantic(prim'.inputs, "POSITION") # {}
    BY DEF VertexSeen
  <2>1. CASE input.semantic = "VERTEX"
    <3>1. PICK i \in DOMAIN VertexInputs : VertexInputs[i].semantic = "POSITION"  BY MeshAssumption
    <3>a. input.offset \in Nat  BY DEF Inputs
    <3>2. DOMAIN VertexInputs = 1 .. Len(VertexInputs) /\ Len(VertexInputs) \in Nat  BY <3>a, OwnInputsType
    <3>3. own \in Seq(Input) /\ Len(own) = Len(VertexInputs)  BY <3>a, OwnInputsType
    <3>4. own[i].semantic = "POSITION"  BY <3>a, <3>1, <3>2, OwnInputsType
    <3> HIDE DEF own, inputs
    <3>5. /\ Len(inputs \o own) = Len(inputs) + Len(own) /\ inputs \o own \in Seq(Input)
          /\ (inputs \o own)[Len(inputs) + i] = own[i] /\ Len(inputs) + i \in 1 .. Len(inputs \o own)
      <4>1. Len(inputs) \in Nat /\ i \in 1 .. Len(own)  BY <1>1, <3>1, <3>2, <3>3
      <4>2. Len(inputs) + i \in 1 .. Len(inputs) + Len(own) /\ ~ (Len(inputs) + i <= Len(inputs))
            /\ Len(inputs) + i - Len(inputs) = i
        BY <3>2, <3>3, <4>1
      <4>3. /\ inputs \o own \in Seq(Input) /\ Len(inputs \o own) = Len(inputs) + Len(own)
            /\ \A k \in 1 .. Len(inputs) + Len(own) :
                  (inputs \o own)[k] = IF k <= Len(inputs) THEN inputs[k] ELSE own[k - Len(inputs)]
        BY <1>1, <3>3, ConcatProperties
      <4>4. (inputs \o own)[Len(inputs) + i] = own[i]
        <5> DEFINE at == Len(inputs) + i
        <5>1. at \in 1 .. Len(inputs) + Len(own) /\ ~ (at <= Len(inputs)) /\ at - Len(inputs) = i
          <6>1. Len(inputs) \in Nat /\ i \in Int  BY <3>2, <4>1
          <6>2. at - Len(inputs) = i  BY ONLY <6>1
          <6> QED  BY <4>2, <6>2
        <5> HIDE DEF at
        <5>2. (inputs \o own)[at] = IF at <= Len(inputs) THEN inputs[at] ELSE own[at - Len(inputs)]
          BY <4>3, <5>1
        <5>3. (inputs \o own)[at] = own[i]  BY <5>1, <5>2
        <5> QED  BY <5>3 DEF at
      <4> QED  BY <4>2, <4>3, <4>4
    <3>6. Len(inputs) + i \in WithSemantic(inputs \o own, "POSITION")
      <4> DEFINE both == inputs \o own
                 at == Len(inputs) + i
      <4>1. both \in Seq(Input) /\ at \in 1 .. Len(both) /\ both[at].semantic = "POSITION"
        BY <3>4, <3>5
      <4> HIDE DEF both, at
      <4>2. at \in WithSemantic(both, "POSITION")  BY <4>1 DEF WithSemantic
      <4> QED  BY <4>2 DEF both, at
    <3> QED  BY <1>2, <2>1, <3>6
  <2>2. CASE input.semantic # "VERTEX"
    <3>1. PICK i \in DOMAIN raw' : raw'[i].semantic = "VERTEX"  BY DEF HasVertex
    <3>2. i \in 1 .. Len(raw) /\ raw'[i] = raw[i]
      <4>1. /\ DOMAIN raw' = 1 .. Len(raw) + 1 /\ Len(raw) \in Nat /\ raw'[Len(raw) + 1] = input
            /\ \A j \in 1 .. Len(raw) : raw'[j] = raw[j]
        BY <1>1, AppendProperties
      <4>2. i # Len(raw) + 1  BY <2>2, <3>1, <4>1
      <4>3. \A n \in Nat : \A k \in 1 .. n + 1 : k # n + 1 => k \in 1 .. n  OBVIOUS
      <4>4. i \in 1 .. Len(raw)  BY <3>1, <4>1, <4>2, <4>3, Zenon
      <4> QED  BY <4>1, <4>4
    <3>3. HasVertex(raw)  BY <1>1, <3>1, <3>2 DEF HasVertex
    <3>4. PICK j \in WithSemantic(inputs, "POSITION") : TRUE  BY <1>1, <3>3 DEF VertexSeen
    <3>5. j \in 1 .. Len(inputs) /\ inputs[j].semantic = "POSITION"  BY <1>1 DEF WithSemantic
    <3> HIDE DEF inputs
    <3>6. input \in Input  BY <2>2 DEF Input, Inputs
    <3>7. Append(inputs, input)[j] = inputs[j] /\ j \in DOMAIN Append(inputs, input)
      BY <1>1, <3>5, <3>6, AppendProperties
    <3>8. j \in WithSemantic(Append(inputs, input), "POSITION")  BY <3>5, <3>7 DEF WithSemantic
    <3> QED  BY <1>2, <2>2, <3>8
  <2> QED  BY <2>1, <2>2
<1>4. PositionsFirst'  BY <1>1, <1>2 DEF PositionsFirst, BeginInput
<1> QED  BY <1>3, <1>4

LEMMA DataVcountPositions ==
    ASSUME Consistent, VertexSeen, PositionsFirst, NEW n \in VertexCounts, DataVcount(n)
    PROVE  VertexSeen' /\ PositionsFirst'
<1>1. prim \in Members  BY ConsistentNumbers
<1>2. ~aborted /\ element = "primitive" /\ element' = "primitive" /\ raw' = raw
  BY DEF DataVcount, Going
<1>3. prim'.inputs = prim.inputs /\ prim'.uses = prim.uses /\ prim'.texts = prim.texts
  BY <1>1 DEF DataVcount, Members
<1> QED  BY <1>2, <1>3, PositionsStay

LEMMA BeginPPositions ==
    ASSUME Consistent, Shape, VertexSeen, PositionsFirst, BeginP
    PROVE  VertexSeen' /\ PositionsFirst'
<1>1. /\ ~aborted /\ raw' = raw /\ raw \in InputLists /\ element \in {"primitive", "new ph"}
      /\ element' \in {"p", "ph p"}
  BY DEF BeginP, Going
<1>2. prim'.inputs = prim.inputs  BY BeginPEndsNothing DEF Shape
<1>3. HasVertex(raw)  BY <1>1, MeshAssumption DEF HasVertex
<1>4. WithSemantic(prim.inputs, "POSITION") # {}  BY <1>1, <1>3 DEF VertexSeen
<1>5. VertexSeen'  BY <1>2, <1>4 DEF VertexSeen
<1>6. CASE prim.type \in {"TRIANGLES", "LINES"} \/ prim.texts = 0
  <2>1. StartIndices(prim) /\ prim.vertexCount = 0 /\ prim.lastCount = 0  BY <1>6, StartsFresh
  <2>2. /\ Critical(prim.inputs) => aborted' = TRUE
        /\ initialIndex' \in [Sources -> Nat] /\ prim'.uses = Uses(prim.inputs, initialIndex')
    BY <2>1, StartIndicesFacts DEF Consistent
  <2>3. prim.maxOffset \in Nat /\ InputsUpTo(prim.inputs, prim.maxOffset)
    BY DEF Consistent, Typed, Members
  <2>4. ~aborted' => prim'.uses # << >> /\ prim'.uses[1].list = "POSITION"
    <3> SUFFICES ASSUME ~aborted' PROVE prim'.uses # << >> /\ prim'.uses[1].list = "POSITION"
      OBVIOUS
    <3>1. ~Critical(prim.inputs)  BY <2>2
    <3> DEFINE initial == initialIndex'
    <3>2. initial \in [Sources -> Nat] /\ prim'.uses = Uses(prim.inputs, initial)  BY <2>2
    <3> HIDE DEF initial
    <3>3. /\ Uses(prim.inputs, initial) # << >>
          /\ Uses(prim.inputs, initial)[1].list = "POSITION"
      BY <1>4, <2>3, <3>1, <3>2, PositionFirst
    <3> QED  BY <3>2, <3>3
  <2> QED  BY <1>5, <2>4 DEF PositionsFirst
<1>7. CASE ~ (prim.type \in {"TRIANGLES", "LINES"} \/ prim.texts = 0)
  <2>1. prim' = prim /\ aborted' = aborted  BY <1>7, BeginPEndsNothing DEF Shape
  <2>2. prim.uses # << >> /\ prim.uses[1].list = "POSITION"
    BY <1>1, <1>7 DEF PositionsFirst
  <2> QED  BY <1>5, <2>1, <2>2 DEF PositionsFirst
<1> QED  BY <1>6, <1>7

LEMMA DataPositions ==
    ASSUME Consistent, VertexSeen, PositionsFirst, Data
    PROVE  VertexSeen' /\ PositionsFirst'
<1>1. prim'.inputs = prim.inputs /\ prim'.uses = prim.uses /\ element' = element  BY DataFacts
<1>2. ~aborted /\ element \in {"p", "ph p", "h"} /\ raw' = raw  BY DEF Data, Going
<1> QED  BY <1>1, <1>2, PositionsStay

LEMMA DataIgnoredPositions ==
    ASSUME VertexSeen, PositionsFirst, DataIgnored
    PROVE  VertexSeen' /\ PositionsFirst'
<1>1. ~aborted /\ element = "h" /\ raw' = raw /\ prim' = prim /\ element' = element
  BY DEF DataIgnored, Going
<1> QED  BY <1>1, PositionsStay

\* What end__p() leaves of the primitive
LEMMA EndPLists ==
    ASSUME Consistent, EndP
    PROVE  /\ prim'.inputs = prim.inputs
           /\ prim.type # "LINES" => prim'.uses = prim.uses
           /\ prim.type = "LINES" => prim'.uses = << >> /\ prim'.texts = 0
<1>1. /\ Ended \in Members /\ Ended.type = prim.type /\ Ended.uses = prim.uses
      /\ Ended.lastCount <= Ended.vertexCount /\ prim.type \in Types
  BY EndedFacts
<1>2. prim'.inputs = prim.inputs  BY EndPConsistent DEF Elsewhere
<1>3. CASE prim.type \in Strips
  <2>1. prim' = EndStrip(Ended)  BY <1>3, EndPCases
  <2>2. prim'.uses = Ended.uses  BY <1>1, <1>3, <2>1, EndStripParts
  <2>3. prim.type # "LINES"  BY <1>3 DEF Strips
  <2> QED  BY <1>1, <1>2, <2>2, <2>3
<1>4. CASE prim.type = "POLYGONS"
  <2> DEFINE holes == element = "ph p"
  <2>1. prim' = EndPolygon(Ended, holes) /\ holes \in BOOLEAN  BY <1>4, EndPCases
  <2> HIDE DEF holes
  <2>2. prim'.uses = Ended.uses  BY <1>1, <2>1, EndPolygonParts
  <2> QED  BY <1>1, <1>2, <1>4, <2>2
<1>5. CASE prim.type = "LINES"
  <2>1. prim'.uses = << >> /\ prim'.texts = 0  BY <1>5, EndPCases DEF NoPrimitive
  <2> QED  BY <1>2, <1>5, <2>1
<1>6. CASE prim.type \in {"TRIANGLES", "POLYLIST"}
  <2>1. prim' = Ended  BY <1>6, EndPCases
  <2> QED  BY <1>1, <1>2, <1>6, <2>1
<1> QED  BY <1>1, <1>3, <1>4, <1>5, <1>6, KindsOfTypes

LEMMA EndPPositions ==
    ASSUME Consistent, Shape, VertexSeen, PositionsFirst, EndP
    PROVE  VertexSeen' /\ PositionsFirst'
<1>1. /\ ~aborted /\ element \in {"p", "ph p"} /\ raw' = raw /\ element' \in {"primitive", "ph"}
      /\ aborted' = aborted /\ element' = (IF element = "p" THEN "primitive" ELSE "ph")
  BY DEF EndP, Going
<1>2. /\ prim'.inputs = prim.inputs
      /\ prim.type # "LINES" => prim'.uses = prim.uses
      /\ prim.type = "LINES" => prim'.uses = << >> /\ prim'.texts = 0
  BY EndPLists
<1>3. CASE prim.type # "LINES"  BY <1>1, <1>2, <1>3, PositionsStay
<1>4. CASE prim.type = "LINES"
  <2>1. element = "p"  BY <1>1, <1>4 DEF Shape, TagsFit
  <2>2. VertexSeen'  BY <1>1, <1>2 DEF VertexSeen
  <2> QED  BY <1>1, <1>2, <1>4, <2>1, <2>2 DEF PositionsFirst
<1> QED  BY <1>3, <1>4

LEMMA BeginPhPositions ==
    ASSUME Consistent, VertexSeen, PositionsFirst, BeginPh
    PROVE  VertexSeen' /\ PositionsFirst'
<1>1. prim \in Members  BY ConsistentNumbers
<1>2. ~aborted /\ element = "primitive" /\ element' = "new ph" /\ raw' = raw
  BY DEF BeginPh, Going
<1>3. prim'.inputs = prim.inputs /\ prim'.uses = prim.uses /\ prim'.texts = prim.texts
  BY <1>1 DEF BeginPh, Members
<1> QED  BY <1>2, <1>3, PositionsStay

LEMMA EndPhPositions ==
    ASSUME Consistent, VertexSeen, PositionsFirst, EndPh
    PROVE  VertexSeen' /\ PositionsFirst'
<1>1. prim \in Members  BY ConsistentNumbers
<1>2. ~aborted /\ element = "ph" /\ element' = "primitive" /\ raw' = raw
  BY DEF EndPh, Going
<1>3. prim'.inputs = prim.inputs /\ prim'.uses = prim.uses
  BY <1>1 DEF EndPh, Members
<1> QED  BY <1>2, <1>3, PositionsStay

LEMMA BeginHPositions ==
    ASSUME VertexSeen, PositionsFirst, BeginH
    PROVE  VertexSeen' /\ PositionsFirst'
<1>1. ~aborted /\ element = "ph" /\ element' = "h" /\ raw' = raw /\ prim' = prim
  BY DEF BeginH, Going
<1> QED  BY <1>1, PositionsStay

LEMMA EndHPositions ==
    ASSUME Consistent, Shape, VertexSeen, PositionsFirst, EndH
    PROVE  VertexSeen' /\ PositionsFirst'
<1>1. ~aborted /\ element = "h" /\ element' = "ph" /\ raw' = raw
  BY DEF EndH, Going
<1>2. prim'.uses = prim.uses  BY EndHParts
<1>3. prim'.inputs = prim.inputs  BY EndHConsistent DEF Elsewhere
<1> QED  BY <1>1, <1>2, <1>3, PositionsStay

LEMMA EndPositions == End => VertexSeen' /\ PositionsFirst'
BY DEF End, VertexSeen, PositionsFirst

-----------------------------------------------------------------------------
(* The index lists                                                         *)

\* The vertices of the open element of which the list has a number
Written(use) ==
    IF Reading THEN text[Len(text)].length + (IF use.offset < prim.offset THEN 1 ELSE 0) ELSE 0

ListsFit ==
    \A i \in 1 .. Len(prim.uses) :
        ListFits(prim.type, text, Closed, Written(prim.uses[i]), prim.uses[i], prim.indices[i])

LEMMA NoLists ==
    ASSUME prim'.uses = << >>
    PROVE  ListsFit'
<1>1. Len(prim'.uses) = 0  OBVIOUS
<1>2. \A i \in 1 .. Len(prim'.uses) : FALSE  BY <1>1
<1> QED  BY <1>2 DEF ListsFit

\* Nothing of the open element is written, neither before the step nor after it.
LEMMA ListsStay ==
    ASSUME ListsFit, text \in Seq(Texts), text' \in Seq(Texts), Outlined(text),
           NEW c \in Nat, Closed = c, Closed' = c, Same(text, text', c), ~Reading,
           prim'.type = prim.type, prim'.uses = prim.uses, prim'.indices = prim.indices,
           prim.uses \in Seq(IndexLists),
           Reading' => text'[Len(text')].length = 0 /\ prim'.offset = 0
    PROVE  ListsFit'
<1> SUFFICES ASSUME NEW i \in 1 .. Len(prim.uses)
             PROVE  ListFits(prim.type, text', c, Written(prim.uses[i])', prim.uses[i], prim.indices[i])
  BY DEF ListsFit
<1> DEFINE use == prim.uses[i]
           list == prim.indices[i]
<1>1. use \in IndexLists  OBVIOUS
<1>2. use.offset \in Nat  BY <1>1 DEF IndexLists
<1>3. Written(use) = 0  BY DEF Written
<1>4. Written(use)' = 0
  <2>1. CASE ~Reading'  BY <2>1 DEF Written
  <2>2. CASE Reading'
    <3>1. ~ (use.offset < 0)  BY <1>2
    <3> QED  BY <2>2, <3>1 DEF Written
  <2> QED  BY <2>1, <2>2
<1>5. ListFits(prim.type, text, c, 0, use, list)  BY <1>3 DEF ListsFit
<1> HIDE DEF use, list
<1>6. ListFits(prim.type, text', c, 0, use, list)
  <2> DEFINE u == text'
             type == prim.type
  <2>1. u \in Seq(Texts) /\ Same(text, u, c) /\ ListFits(type, text, c, 0, use, list) /\ 0 \in Nat
    BY <1>5
  <2> HIDE DEF u, type
  <2>2. ListFits(type, u, c, 0, use, list)  BY <2>1, ListStays
  <2> QED  BY <2>2 DEF u, type
<1> QED  BY <1>4, <1>6 DEF use, list

LEMMA EmptyListFits ==
    ASSUME NEW t \in Seq(Texts), NEW type, NEW use
    PROVE  ListFits(type, t, 0, 0, use, << >>)
<1>1. KeptUpTo(type, t)[0] = << >>  BY KeptUpToFacts
<1>2. Part(t[Len(t)], 0) = << >>
  <2>1. \A k \in 1 .. 0 : FALSE  OBVIOUS
  <2> QED  BY <2>1 DEF Part
<1>3. VerticesOf(type, t, 0, 0) = << >> \o << >>  BY <1>1, <1>2 DEF VerticesOf
<1>4. VerticesOf(type, t, 0, 0) = << >>
  <2>1. << >> \in Seq(Nat)  OBVIOUS
  <2> QED  BY <1>3, <2>1, ConcatEmptySeq
<1>5. Numbers(use, << >>) = << >>
  <2>1. \A k \in DOMAIN << >> : FALSE  OBVIOUS
  <2> QED  BY <2>1 DEF Numbers
<1> QED  BY <1>4, <1>5 DEF ListFits

LEMMA BeginLists ==
    ASSUME Consistent, NEW type \in Types, Begin(type)
    PROVE  ListsFit'
<1>1. prim = NoPrimitive /\ prim' = [prim EXCEPT !.type = type]  BY DEF Begin, Consistent, Typed
<1>2. prim'.uses = << >>  BY <1>1 DEF NoPrimitive
<1> QED  BY <1>2, NoLists

LEMMA BeginInputLists ==
    ASSUME Consistent, Shape, ListsFit, NEW input \in Inputs, BeginInput(input)
    PROVE  ListsFit'
<1>1. /\ prim \in Members /\ text \in Seq(Texts) /\ Len(text) \in Nat /\ Outlined(text)
      /\ prim.uses \in Seq(IndexLists)
  BY ConsistentNumbers DEF Shape
<1>2. element = "primitive" /\ element' = element /\ text' = text  BY DEF BeginInput
<1>3. prim'.type = prim.type /\ prim'.uses = prim.uses /\ prim'.indices = prim.indices
  BY <1>1 DEF BeginInput, Members
<1>4. Closed = Len(text) /\ Closed' = Len(text)  BY <1>2 DEF Closed, Opened
<1>5. Same(text, text', Len(text))  BY <1>1, <1>2, SameItself
<1>6. ~Reading /\ ~Reading'  BY <1>2 DEF Reading
<1> QED  BY <1>1, <1>2, <1>3, <1>4, <1>5, <1>6, ListsStay

LEMMA DataVcountLists ==
    ASSUME Consistent, Shape, ListsFit, NEW n \in VertexCounts, DataVcount(n)
    PROVE  ListsFit'
<1>1. /\ prim \in Members /\ text \in Seq(Texts) /\ Len(text) \in Nat /\ Outlined(text)
      /\ prim.uses \in Seq(IndexLists)
  BY ConsistentNumbers DEF Shape
<1>2. element = "primitive" /\ element' = element /\ text' = text  BY DEF DataVcount
<1>3. prim'.type = prim.type /\ prim'.uses = prim.uses /\ prim'.indices = prim.indices
  BY <1>1 DEF DataVcount, Members
<1>4. Closed = Len(text) /\ Closed' = Len(text)  BY <1>2 DEF Closed, Opened
<1>5. Same(text, text', Len(text))  BY <1>1, <1>2, SameItself
<1>6. ~Reading /\ ~Reading'  BY <1>2 DEF Reading
<1> QED  BY <1>1, <1>2, <1>3, <1>4, <1>5, <1>6, ListsStay

LEMMA EndPhLists ==
    ASSUME Consistent, Shape, ListsFit, EndPh
    PROVE  ListsFit'
<1>1. /\ prim \in Members /\ text \in Seq(Texts) /\ Len(text) \in Nat /\ Outlined(text)
      /\ prim.uses \in Seq(IndexLists)
  BY ConsistentNumbers DEF Shape
<1>2. element = "ph" /\ element' = "primitive" /\ text' = text  BY DEF EndPh
<1>3. prim'.type = prim.type /\ prim'.uses = prim.uses /\ prim'.indices = prim.indices
  BY <1>1 DEF EndPh, Members
<1>4. Closed = Len(text) /\ Closed' = Len(text)  BY <1>2 DEF Closed, Opened
<1>5. Same(text, text', Len(text))  BY <1>1, <1>2, SameItself
<1>6. ~Reading /\ ~Reading'  BY <1>2 DEF Reading
<1> QED  BY <1>1, <1>2, <1>3, <1>4, <1>5, <1>6, ListsStay

LEMMA BeginPhLists ==
    ASSUME Consistent, Shape, ListsFit, BeginPh
    PROVE  ListsFit'
<1>1. /\ prim \in Members /\ text \in Seq(Texts) /\ Len(text) \in Nat /\ Outlined(text) /\ Typed
      /\ prim.uses \in Seq(IndexLists)
  BY ConsistentNumbers DEF Shape, Consistent
<1>2. element = "primitive" /\ element' = "new ph" /\ OpenText("ph")  BY DEF BeginPh
<1>3. prim'.type = prim.type /\ prim'.uses = prim.uses /\ prim'.indices = prim.indices
  BY <1>1 DEF BeginPh, Members
<1>4. Len(text') = Len(text) + 1 /\ text' \in Seq(Texts) /\ Same(text, text', Len(text))
  BY <1>1, <1>2, OpenTextLast
<1>5. Closed = Len(text) /\ Closed' = Len(text)
  <2>1. Closed = Len(text)  BY <1>2 DEF Closed, Opened
  <2>2. Closed' = Len(text') - 1  BY <1>2 DEF Closed, Opened
  <2>3. Len(text') - 1 = Len(text)  BY <1>1, <1>4
  <2> QED  BY <2>1, <2>2, <2>3
<1>6. ~Reading /\ ~Reading'  BY <1>2 DEF Reading
<1> QED  BY <1>1, <1>3, <1>4, <1>5, <1>6, ListsStay

LEMMA BeginHLists ==
    ASSUME Consistent, Shape, ListsFit, BeginH
    PROVE  ListsFit'
<1>1. /\ text \in Seq(Texts) /\ Len(text) \in Nat /\ Outlined(text) /\ Typed
      /\ prim.uses \in Seq(IndexLists)
  BY ConsistentNumbers DEF Shape, Consistent
<1>2. element = "ph" /\ element' = "h" /\ OpenText("h") /\ prim' = prim  BY DEF BeginH
<1>3. /\ Len(text') = Len(text) + 1 /\ text' \in Seq(Texts) /\ Same(text, text', Len(text))
      /\ text'[Len(text')].length = 0
  BY <1>1, <1>2, OpenTextLast
<1>4. Closed = Len(text) /\ Closed' = Len(text)
  <2>1. Closed = Len(text)  BY <1>2 DEF Closed, Opened
  <2>2. Closed' = Len(text') - 1  BY <1>2 DEF Closed, Opened
  <2>3. Len(text') - 1 = Len(text)  BY <1>1, <1>3
  <2> QED  BY <2>1, <2>2, <2>3
<1>5. ~Reading  BY <1>2 DEF Reading
<1>6. prim'.offset = 0  BY <1>2, <1>5, ConsistentNumbers
<1> QED  BY <1>1, <1>2, <1>3, <1>4, <1>5, <1>6, ListsStay

LEMMA DataIgnoredLists ==
    ASSUME Consistent, Shape, ListsFit, DataIgnored
    PROVE  ListsFit'
<1>1. /\ text \in Seq(Texts) /\ Len(text) \in Nat /\ Outlined(text) /\ text # << >>
      /\ prim.uses \in Seq(IndexLists)
  BY ConsistentNumbers DEF Shape, DataIgnored
<1>2. element = "h" /\ element' = element /\ prim' = prim /\ Lengthen /\ prim.emptyP  BY DEF DataIgnored
<1>3. Len(text) - 1 \in Nat
  <2>1. text \in Seq(Texts) /\ text # << >>  BY <1>1
  <2> QED  BY ONLY <2>1
<1>4. text' \in Seq(Texts) /\ Len(text') = Len(text) /\ Same(text, text', Len(text) - 1)
  BY <1>1, <1>2, LengthenLast
<1>5. Closed = Len(text) - 1 /\ Closed' = Len(text) - 1  BY <1>2, <1>4 DEF Closed, Opened
<1>6. ~Reading /\ ~Reading'  BY <1>2 DEF Reading
<1> QED  BY <1>1, <1>2, <1>3, <1>4, <1>5, <1>6, ListsStay

LEMMA BeginPLists ==
    ASSUME Consistent, Shape, ListsFit, Fresh, BeginP
    PROVE  ListsFit'
<1>1. /\ text \in Seq(Texts) /\ Len(text) \in Nat /\ Outlined(text) /\ Typed
      /\ prim.uses \in Seq(IndexLists)
  BY ConsistentNumbers DEF Shape, Consistent
<1>2. element \in {"primitive", "new ph"} /\ ~Reading  BY DEF BeginP, Reading
<1>3. prim'.offset = 0 /\ prim'.type = prim.type  BY BeginPEndsNothing DEF Shape
<1>4. /\ text' \in Seq(Texts) /\ text'[Len(text')].length = 0
      /\ Closed \in Nat /\ Closed' = Closed /\ Same(text, text', Closed)
  <2>1. CASE element = "primitive"
    <3>1. element' = "p" /\ OpenText("p")  BY <2>1 DEF BeginP
    <3>2. /\ Len(text') = Len(text) + 1 /\ text' \in Seq(Texts) /\ Same(text, text', Len(text))
          /\ text'[Len(text')].length = 0
      BY <1>1, <3>1, OpenTextLast
    <3>3. Closed = Len(text)  BY <2>1 DEF Closed, Opened
    <3>4. Closed' = Len(text') - 1  BY <3>1 DEF Closed, Opened
    <3>5. Len(text') - 1 = Len(text)  BY <1>1, <3>2
    <3> QED  BY <1>1, <3>2, <3>3, <3>4, <3>5
  <2>2. CASE element = "new ph"
    <3>1. element' = "ph p" /\ text' = text /\ text # << >>  BY <2>2, ConsistentNumbers DEF BeginP
    <3>2. Closed = Len(text) - 1 /\ Closed' = Len(text) - 1  BY <2>2, <3>1 DEF Closed, Opened
    <3>3. Len(text) - 1 \in Nat /\ Len(text) - 1 <= Len(text)
      <4>1. text \in Seq(Texts) /\ text # << >>  BY <1>1, <3>1
      <4> QED  BY ONLY <4>1
    <3>4. Same(text, text', Len(text) - 1)  BY <1>1, <3>1, <3>3, SameItself
    <3>5. text'[Len(text')].length = 0  BY <2>2, <3>1 DEF Shape, LengthsFit
    <3> QED  BY <1>1, <3>1, <3>2, <3>3, <3>4, <3>5
  <2> QED  BY <1>2, <2>1, <2>2
<1>5. CASE prim.type \in {"TRIANGLES", "LINES"} \/ prim.texts = 0
  <2>1. StartIndices(prim) /\ prim.vertexCount = 0 /\ prim.lastCount = 0  BY <1>5, StartsFresh
  <2>2. prim'.indices = [i \in 1 .. Len(prim'.uses) |-> << >>] /\ prim' \in Members
    BY <2>1, StartIndicesFacts DEF Consistent
  <2>3. Closed = 0
    <3>1. CASE prim.type \in {"TRIANGLES", "LINES"}
      <4>1. text = << >> /\ element # "new ph"  BY <3>1 DEF BeginP, Single, Shape, TagsFit
      <4>2. Len(text) = 0  BY <4>1
      <4> QED  BY <1>2, <4>1, <4>2 DEF Closed, Opened
    <3>2. CASE prim.type \notin {"TRIANGLES", "LINES"}  BY <1>2, <1>5, <3>2 DEF Fresh
    <3> QED  BY <3>1, <3>2
  <2> SUFFICES ASSUME NEW i \in 1 .. Len(prim'.uses)
               PROVE  ListFits(prim'.type, text', Closed', Written(prim.uses[i])', prim'.uses[i],
                               prim'.indices[i])
    BY DEF ListsFit
  <2>4. prim'.uses[i] \in IndexLists
    <3>1. prim'.uses \in Seq(IndexLists)  BY <2>2 DEF Members
    <3> QED  BY <3>1
  <2>5. Written(prim.uses[i])' = 0
    <3>1. prim'.uses[i].offset \in Nat  BY <2>4 DEF IndexLists
    <3>2. ~ (prim'.uses[i].offset < 0)  BY <3>1
    <3> QED  BY <1>3, <1>4, <3>2 DEF Written
  <2>6. prim'.indices[i] = << >> /\ Closed' = 0  BY <1>4, <2>2, <2>3
  <2>7. ListFits(prim'.type, text', 0, 0, prim'.uses[i], << >>)
    <3> DEFINE t == text'
               type == prim'.type
               use == prim'.uses[i]
    <3>1. t \in Seq(Texts)  BY <1>4
    <3> HIDE DEF t, type, use
    <3>2. ListFits(type, t, 0, 0, use, << >>)  BY <3>1, EmptyListFits
    <3> QED  BY <3>2 DEF t, type, use
  <2> QED  BY <2>5, <2>6, <2>7
<1>6. CASE ~ (prim.type \in {"TRIANGLES", "LINES"} \/ prim.texts = 0)
  <2>1. prim' = prim  BY <1>6, BeginPEndsNothing DEF Shape
  <2> QED  BY <1>1, <1>2, <1>3, <1>4, <2>1, ListsStay
<1> QED  BY <1>5, <1>6

LEMMA EndLists == End => ListsFit'
<1> SUFFICES ASSUME End PROVE ListsFit'  OBVIOUS
<1>1. prim'.uses = << >>  BY DEF End, NoPrimitiveAfter, NoPrimitive
<1> QED  BY <1>1, NoLists

LEMMA DataLists ==
    ASSUME Consistent, Shape, ListsFit, Data
    PROVE  ListsFit'
<1> DEFINE n == Len(text)
           last == text[n]
           offset == prim.offset
           max == prim.maxOffset
<1>1. /\ Reading /\ text # << >> /\ Reading' /\ element' = element
      /\ prim'.type = prim.type /\ prim'.uses = prim.uses
      /\ prim'.offset = (IF offset = max THEN 0 ELSE offset + 1)
      /\ prim'.indices = [i \in 1 .. Len(prim.uses) |->
            IF prim.uses[i].offset = offset
            THEN Append(prim.indices[i], Number(Vertices, offset) + prim.uses[i].initial)
            ELSE prim.indices[i]]
      /\ IF offset = max THEN Lengthen ELSE text' = text
  BY DataFacts
<1>2. /\ text \in Seq(Texts) /\ n \in Nat /\ Outlined(text) /\ offset \in Nat /\ max \in Nat
      /\ prim.uses \in Seq(IndexLists) /\ prim.indices \in Seq(Seq(Int)) /\ prim \in Members
  BY ConsistentNumbers DEF Shape
<1>3. last.length \in Nat /\ last.first \in Nat /\ Vertices = last.first + last.length  BY <1>1, LastLength
<1>4. n - 1 \in Nat /\ n - 1 <= n /\ n - 1 \in 0 .. n
  <2>1. text \in Seq(Texts) /\ text # << >>  BY <1>1, <1>2
  <2> QED  BY ONLY <2>1
<1>5. /\ text' \in Seq(Texts) /\ Len(text') = n /\ Same(text, text', n - 1)
      /\ text'[n].first = last.first
      /\ text'[n].length = IF offset = max THEN last.length + 1 ELSE last.length
  <2>1. CASE offset = max  BY <1>1, <2>1, LengthenLast
  <2>2. CASE offset # max
    <3>1. text' = text  BY <1>1, <2>2
    <3> QED  BY <1>2, <1>4, <2>2, <3>1, SameItself
  <2> QED  BY <2>1, <2>2
<1>6. Closed = n - 1 /\ Closed' = n - 1
  <2>1. element \in {"p", "ph p", "h"}  BY DEF Data
  <2> QED  BY <1>1, <1>5, <2>1 DEF Closed, Opened
<1> SUFFICES ASSUME NEW i \in 1 .. Len(prim.uses)
             PROVE  ListFits(prim.type, text', n - 1, Written(prim.uses[i])', prim.uses[i], prim'.indices[i])
  BY <1>1, <1>6 DEF ListsFit
<1> DEFINE use == prim.uses[i]
           list == prim.indices[i]
           longer == prim'.indices[i]
           w == Written(use)
           v == w + (IF use.offset = offset THEN 1 ELSE 0)
           type == prim.type
<1>7. use \in IndexLists /\ use.offset \in Nat /\ use.initial \in Nat /\ list \in Seq(Int)
      /\ use.offset <= max
  <2>1. Len(prim.indices) = Len(prim.uses) /\ use.offset <= max  BY <1>2 DEF Consistent, GrownBy
  <2> QED  BY <1>2, <2>1, ElementsTyped
<1>8. w = last.length + (IF use.offset < offset THEN 1 ELSE 0)  BY <1>1 DEF Written
<1>9. longer = (IF use.offset = offset THEN Append(list, Number(Vertices, offset) + use.initial) ELSE list)
  BY <1>1
<1>10. offset <= max  BY ConsistentNumbers
<1>11. Written(use)' = v
  <2>1. Written(use)' = text'[n].length + (IF use.offset < prim'.offset THEN 1 ELSE 0)
    BY <1>1, <1>5 DEF Written
  <2>2. CASE offset = max
    <3>1. ~ (use.offset < 0)  BY <1>7
    <3>2. Written(use)' = last.length + 1  BY <1>1, <1>3, <1>5, <2>1, <2>2, <3>1
    <3>3. w + (IF use.offset = offset THEN 1 ELSE 0) = last.length + 1
      <4>1. last.length \in Nat /\ use.offset \in Nat /\ offset \in Nat /\ use.offset <= offset
        BY <1>2, <1>3, <1>7, <2>2
      <4> HIDE DEF last, w, offset, max, use
      <4> QED  BY ONLY <4>1, <1>8
    <3> QED  BY <3>2, <3>3
  <2>3. CASE offset # max
    <3>1. Written(use)' = last.length + (IF use.offset < offset + 1 THEN 1 ELSE 0)
      BY <1>1, <1>5, <2>1, <2>3
    <3>2. w + (IF use.offset = offset THEN 1 ELSE 0) = last.length + (IF use.offset < offset + 1 THEN 1 ELSE 0)
      <4>1. last.length \in Nat /\ use.offset \in Nat /\ offset \in Nat  BY <1>2, <1>3, <1>7
      <4> HIDE DEF last, w, offset, max, use
      <4> QED  BY ONLY <4>1, <1>8
    <3> QED  BY <3>1, <3>2
  <2> QED  BY <2>2, <2>3
<1>12. w \in Nat /\ v \in Nat
  <2> HIDE DEF last, use, offset
  <2>1. w \in Nat
    <3> HIDE DEF w
    <3> QED  BY <1>3, <1>8
  <2> HIDE DEF w
  <2> QED  BY <2>1
<1>13. ListFits(type, text, n - 1, w, use, list)  BY <1>6 DEF ListsFit
<1>14. ListFits(type, text, n - 1, v, use, longer)
  <2>1. CASE use.offset = offset
    <3>1. w = last.length
      <4>1. ~ (use.offset < offset)  BY <1>2, <2>1
      <4> HIDE DEF last, w, use, offset
      <4> QED  BY <1>3, <1>8, <4>1
    <3>2. v = w + 1  BY <2>1
    <3>3. longer = Append(list, Number(last.first + w, use.offset) + use.initial)
      BY <1>3, <1>9, <2>1, <3>1
    <3> HIDE DEF w, v, longer, list, use, last, type
    <3>4. ListFits(type, text, n - 1, w + 1, use,
                   Append(list, Number(text[Len(text)].first + w, use.offset) + use.initial))
      BY <1>1, <1>2, <1>4, <1>7, <1>12, <1>13, ListGrows
    <3> QED  BY <3>2, <3>3, <3>4 DEF last
  <2>2. CASE use.offset # offset
    <3>1. v = w /\ longer = list
      <4>1. w + 0 = w  BY <1>12
      <4> HIDE DEF w, use, offset, longer, list
      <4> QED  BY <1>9, <2>2, <4>1
    <3> HIDE DEF w, v, longer, list
    <3> QED  BY <1>13, <3>1
  <2> QED  BY <2>1, <2>2
<1>15. ListFits(type, text', n - 1, v, use, longer)
  <2> DEFINE u == text'
  <2>1. u \in Seq(Texts) /\ Same(text, u, n - 1) /\ text[Len(text)].first = u[Len(u)].first  BY <1>5
  <2> HIDE DEF u, v, use, longer, type, n
  <2>2. ListFits(type, u, n - 1, v, use, longer)  BY <1>2, <1>4, <1>12, <1>14, <2>1, ListStays
  <2> QED  BY <2>2 DEF u
<1> HIDE DEF v
<1> QED  BY <1>11, <1>15

\* The element that end__p() ends is written in every list.
LEMMA ElementWritten ==
    ASSUME Consistent, Shape, ListsFit, EndP, NEW i \in 1 .. Len(prim.uses), NEW n,
           n = prim.vertexCount - prim.lastCount
    PROVE  /\ n \in Nat /\ text[Len(text)].length = n /\ text[Len(text)].tag # "h"
           /\ ListFits(prim.type, text, Len(text) - 1, n, prim.uses[i], prim.indices[i])
           /\ prim.uses[i] \in IndexLists /\ prim.indices[i] \in Seq(Int)
<1> DEFINE m == Len(text)
           last == text[m]
<1>1. /\ text \in Seq(Texts) /\ text # << >> /\ Closed = m - 1
      /\ element = "p" => last.tag = "p"
      /\ element = "ph p" => last.tag = "ph"
      /\ Reading => last.length = n
  BY EndingElement
<1>2. element \in {"p", "ph p"} /\ prim.offset = 0  BY DEF EndP
<1>3. Reading /\ prim.lastCount <= prim.vertexCount  BY EndedFacts, ConsistentNumbers
<1>4. last.length = n /\ last.tag # "h"  BY <1>1, <1>2, <1>3
<1>5. n \in Nat
  <2>1. prim.vertexCount \in Nat /\ prim.lastCount \in Nat  BY ConsistentNumbers
  <2> QED  BY <1>3, <2>1
<1>6. prim.uses[i] \in IndexLists /\ prim.indices[i] \in Seq(Int) /\ prim.uses[i].offset \in Nat
  <2>1. prim \in Members /\ Len(prim.indices) = Len(prim.uses)
    BY ConsistentNumbers DEF Consistent, GrownBy
  <2> QED  BY <2>1, ElementsTyped
<1>7. ~ (prim.uses[i].offset < 0)  BY <1>6
<1>8. Written(prim.uses[i]) = n + 0  BY <1>2, <1>3, <1>4, <1>7 DEF Written
<1>9. n + 0 = n  BY <1>5
<1> HIDE DEF m
<1>10. ListFits(prim.type, text, m - 1, n, prim.uses[i], prim.indices[i])
  BY <1>1, <1>8, <1>9 DEF ListsFit
<1> QED  BY <1>4, <1>5, <1>6, <1>10 DEF m

LEMMA EndPIndices ==
    ASSUME Consistent, Shape, ListsFit, EndP
    PROVE  ListsFit'
<1> DEFINE n == prim.vertexCount - prim.lastCount
           m == Len(text)
           last == text[m]
<1>1. /\ text \in Seq(Texts) /\ text # << >> /\ text' = text /\ m \in Nat
      /\ Closed = m - 1 /\ Closed' = m
      /\ element = "p" => last.tag = "p"
      /\ element = "ph p" => last.tag = "ph"
      /\ Reading => last.length = n
      /\ element' \in {"primitive", "ph"}
  BY EndingElement
<1>2. element \in {"p", "ph p"}  BY DEF EndP
<1>3. /\ Ended \in Members /\ Ended.type = prim.type /\ Ended.offset = 0 /\ GrownBy(Ended)
      /\ Ended.uses = prim.uses /\ Ended.indices = prim.indices
      /\ Ended.vertexCount = prim.vertexCount /\ Ended.lastCount = prim.lastCount
      /\ Ended.lastCount <= Ended.vertexCount /\ prim.type \in Types /\ Reading
      /\ n = Ended.vertexCount - Ended.lastCount
  BY EndedFacts
<1>4. last.length = n /\ last.tag # "h"  BY <1>1, <1>2, <1>3
<1>5. prim'.type = prim.type  BY EndPConsistent DEF Elsewhere
<1>6. /\ n \in Nat /\ prim.uses \in Seq(IndexLists) /\ prim.indices \in Seq(Seq(Int)) /\ prim \in Members
      /\ Len(prim.indices) = Len(prim.uses) /\ prim.offset = 0
  <2>1. /\ prim.vertexCount \in Nat /\ prim.lastCount \in Nat /\ prim.uses \in Seq(IndexLists)
        /\ prim.indices \in Seq(Seq(Int)) /\ prim \in Members /\ prim.lastCount <= prim.vertexCount
    BY ConsistentNumbers
  <2>2. n \in Nat  BY <2>1
  <2>3. prim.offset = 0  BY DEF EndP
  <2> QED  BY <2>1, <2>2, <2>3 DEF Consistent, GrownBy
<1>7. ~Reading'  BY <1>1 DEF Reading
<1>8. ASSUME NEW i \in 1 .. Len(prim.uses)
      PROVE  /\ ListFits(prim.type, text, m - 1, n, prim.uses[i], prim.indices[i])
             /\ prim.uses[i] \in IndexLists /\ prim.indices[i] \in Seq(Int)
  BY ElementWritten
<1>9. CASE prim.type = "LINES"
  <2>1. prim'.uses = << >>  BY <1>9, EndPLists
  <2> QED  BY <2>1, NoLists
<1>10. CASE prim.type # "LINES"
  <2>1. prim'.uses = prim.uses  BY <1>10, EndPLists
  <2> SUFFICES ASSUME NEW i \in 1 .. Len(prim.uses)
               PROVE  ListFits(prim.type, text, m, 0, prim.uses[i], prim'.indices[i])
    BY <1>1, <1>5, <1>7, <2>1 DEF ListsFit, Written
  <2> DEFINE use == prim.uses[i]
             list == prim.indices[i]
             type == prim.type
  <2>2. ListFits(type, text, m - 1, n, use, list) /\ use \in IndexLists /\ list \in Seq(Int)  BY <1>8
  <2>3. (IF Kept(type, text, m) THEN n = last.length ELSE n = 0) => ListFits(type, text, m, 0, use, list)
    <3> SUFFICES ASSUME IF Kept(type, text, m) THEN n = last.length ELSE n = 0
                 PROVE  ListFits(type, text, m, 0, use, list)
      OBVIOUS
    <3> HIDE DEF use, list, type, n
    <3>1. ListFits(type, text, Len(text), 0, use, list)  BY <1>1, <1>6, <2>2, ListKept
    <3> QED  BY <3>1
  <2>4. CASE type \in Strips
    <3>1. prim' = EndStrip(Ended)  BY <2>4, EndPCases
    <3>2. /\ n = 0 => prim' = Ended
          /\ n # 0 /\ n >= Least(type) => prim'.indices = Ended.indices
          /\ n # 0 /\ ~ (n >= Least(type)) => prim'.indices = Erase(Ended, n)
      <4> HIDE DEF n
      <4> QED  BY <1>3, <2>4, <3>1, EndStripParts
    <3>3. Kept(type, text, m) <=> n >= Least(type)
      <4>1. Kept(type, text, m) <=> last.length >= Least(type)  BY <1>1, <1>4, <2>4, KeptLast
      <4> HIDE DEF n, last, m, type
      <4> QED  BY <1>4, <4>1
    <3>4. Least(type) \in {2, 3}  BY DEF Least
    <3>5. CASE n = 0
      <4>1. ~ (n >= Least(type))  BY <3>4, <3>5
      <4>2. ~Kept(type, text, m)  BY <3>3, <4>1, Zenon
      <4>3. prim'.indices[i] = list  BY <1>3, <3>2, <3>5
      <4> HIDE DEF n, m, type, use, list, last
      <4>4. ListFits(type, text, m, 0, use, list)  BY <2>3, <3>5, <4>2
      <4> QED  BY <4>3, <4>4 DEF use, type
    <3>6. CASE n # 0 /\ n >= Least(type)
      <4>1. Kept(type, text, m)  BY <3>3, <3>6, Zenon
      <4>2. prim'.indices[i] = list  BY <1>3, <3>2, <3>6
      <4> HIDE DEF n, m, type, use, list, last
      <4>3. ListFits(type, text, m, 0, use, list)  BY <1>4, <2>3, <4>1
      <4> QED  BY <4>2, <4>3 DEF use, type
    <3>7. CASE n # 0 /\ ~ (n >= Least(type))
      <4>1. ~Kept(type, text, m)  BY <3>3, <3>7, Zenon
      <4>2. prim'.indices[i] = (IF use.list \in {"TEXTANGENT", "TEXBINORMAL"} THEN list
                                ELSE SubSeq(list, 1, Len(list) - n))
        <5>1. prim'.indices = Erase(Ended, n)  BY <3>2, <3>7
        <5> DEFINE p == Ended
        <5>2. p \in Members /\ GrownBy(p) /\ n \in Nat /\ p.vertexCount - p.lastCount = n
              /\ i \in 1 .. Len(p.uses)
          BY <1>3, <1>6
        <5>3. p.uses[i] = use /\ p.indices[i] = list  BY <1>3
        <5> HIDE DEF n, p
        <5>4. Erase(p, n)[i] = IF p.uses[i].list \in {"TEXTANGENT", "TEXBINORMAL"} THEN p.indices[i]
                               ELSE SubSeq(p.indices[i], 1, Len(p.indices[i]) - n)
          BY <5>2, EraseFacts
        <5> HIDE DEF use, list
        <5> QED  BY <5>1, <5>3, <5>4 DEF p
      <4>3. ListFits(type, text, Len(text), 0, use,
                     IF use.list \in Tangents THEN list ELSE SubSeq(list, 1, Len(list) - n))
        <5>1. n = text[Len(text)].length /\ n # 0 /\ ~Kept(type, text, Len(text))
          BY <1>4, <3>7, <4>1
        <5>2. ListFits(type, text, Len(text) - 1, n, use, list)  BY <2>2
        <5> HIDE DEF n, type, use, list
        <5> QED  BY <1>1, <1>6, <2>2, <5>1, <5>2, ListTakenBack
      <4> QED  BY <4>2, <4>3 DEF Tangents
    <3> QED  BY <3>5, <3>6, <3>7
  <2>5. CASE type \notin Strips
    <3>1. Kept(type, text, m)  BY <1>1, <1>4, <2>5, KeptLast
    <3>2. prim'.indices = prim.indices
      <4>1. CASE type = "POLYGONS"
        <5> DEFINE holes == element = "ph p"
        <5>1. prim' = EndPolygon(Ended, holes) /\ holes \in BOOLEAN  BY <4>1, EndPCases
        <5> HIDE DEF holes, n
        <5>2. prim'.indices = Ended.indices  BY <1>3, <5>1, EndPolygonParts
        <5> QED  BY <1>3, <5>2
      <4>2. CASE type # "POLYGONS"
        <5>1. type \in {"TRIANGLES", "POLYLIST"}  BY <1>3, <1>10, <2>5, <4>2, KindsOfTypes
        <5>2. prim' = Ended  BY <5>1, EndPCases
        <5> QED  BY <1>3, <5>2
      <4> QED  BY <4>1, <4>2
    <3>3. ListFits(type, text, m, 0, use, list)
      <4> HIDE DEF n, m, type, use, list, last
      <4> QED  BY <1>4, <2>3, <3>1
    <3> QED  BY <3>2, <3>3
  <2> QED  BY <2>4, <2>5
<1> QED  BY <1>9, <1>10

LEMMA EndHLists ==
    ASSUME Consistent, Shape, ListsFit, EndH
    PROVE  ListsFit'
<1> DEFINE n == prim.vertexCount - prim.lastCount
           m == Len(text)
           last == text[m]
<1>1. /\ text \in Seq(Texts) /\ text # << >> /\ text' = text /\ m \in Nat
      /\ Closed = m - 1 /\ Closed' = m
      /\ element' \in {"primitive", "ph"}
  BY EndingElement
<1>2. element = "h" /\ prim.offset = 0  BY DEF EndH
<1>3. /\ n \in Nat /\ prim'.type = prim.type /\ prim'.uses = prim.uses /\ prim'.indices = prim.indices
      /\ Reading => last.length = n
      /\ ~Reading => n = 0
  BY EndHParts
<1>4. prim.uses \in Seq(IndexLists) /\ prim.indices \in Seq(Seq(Int)) /\ prim \in Members
      /\ Len(prim.indices) = Len(prim.uses)
  BY ConsistentNumbers DEF Consistent, GrownBy
<1>5. ~Reading'  BY <1>1 DEF Reading
<1>6. Kept(prim.type, text, m) <=> Reading
  <2>1. Kept(prim.type, text, m) <=> ~prim.emptyP  BY <1>2, HoleKept
  <2>2. Reading <=> ~prim.emptyP  BY <1>2 DEF Reading
  <2> QED  BY <2>1, <2>2, Zenon
<1> SUFFICES ASSUME NEW i \in 1 .. Len(prim.uses)
             PROVE  ListFits(prim.type, text, m, 0, prim.uses[i], prim.indices[i])
  BY <1>1, <1>3, <1>5 DEF ListsFit, Written
<1> DEFINE use == prim.uses[i]
           list == prim.indices[i]
           type == prim.type
<1>7. Written(use) = n
  <2>1. CASE Reading
    <3>1. use.offset \in Nat  BY <1>4, ElementsTyped
    <3>2. ~ (use.offset < 0)  BY <3>1
    <3>3. Written(use) = last.length + 0  BY <1>2, <2>1, <3>2 DEF Written
    <3>4. last.length + 0 = n  BY <1>3, <2>1
    <3> QED  BY <3>3, <3>4
  <2>2. CASE ~Reading  BY <1>3, <2>2 DEF Written
  <2> QED  BY <2>1, <2>2
<1>8. ListFits(type, text, m - 1, n, use, list)
  <2> HIDE DEF n
  <2> QED  BY <1>1, <1>7 DEF ListsFit
<1>9. IF Kept(type, text, m) THEN n = last.length ELSE n = 0  BY <1>3, <1>6
<1> HIDE DEF use, list, type, n
<1>10. ListFits(type, text, Len(text), 0, use, list)  BY <1>1, <1>3, <1>8, <1>9, ListKept
<1> QED  BY <1>10 DEF use, list, type

-----------------------------------------------------------------------------
(* The result                                                              *)

\* IndicesAreTheText, of a result r and the text t of its primitive
AppendedIsText(r, t) ==
    /\ \A i \in DOMAIN r.uses : ListFits(r.type, t, Len(t), 0, r.uses[i], r.indices[i])
    /\ r.type # "POLYLIST" => r.vcounts = Groups(r.type, t)
    /\ r.faces = FacesOf(r.type, t, r.vcounts)
    /\ CountedVertices(r.vcounts) <= Len(r.indices[1])
ResultIsText(r, t) ==
    /\ r.appended => AppendedIsText(r, t)
    /\ ~r.appended /\ r.type \notin {"NONE", "POLYLIST"} => FacesOf(r.type, t, Groups(r.type, t)) = 0
ResultFits == ResultIsText(result, text)

\* Only LINES have a result while their element is open.
NoResult ==
    element # "mesh" /\ ~ (prim.type = "LINES" /\ element = "primitive" /\ text # << >>) => result = None

LEMMA NothingYet ==
    ASSUME result' = None
    PROVE  NoResult' /\ ResultFits'
<1>1. ~result'.appended /\ result'.type = "NONE"  BY DEF None
<1>2. ResultIsText(result', text')  BY <1>1 DEF ResultIsText
<1> QED  BY <1>2 DEF NoResult, ResultFits

LEMMA WholeVertices ==
    ASSUME NEW t \in Seq(Texts), NEW type
    PROVE  /\ VerticesOf(type, t, Len(t), 0) = KeptVertices(type, t)
           /\ KeptVertices(type, t) \in Seq(Nat) /\ Len(KeptVertices(type, t)) \in Nat
<1>1. Len(t) \in Nat /\ Len(t) \in 0 .. Len(t)  OBVIOUS
<1>2. KeptUpTo(type, t)[Len(t)] \in Seq(Nat)  BY <1>1, KeptUpToFacts
<1>3. Part(t[Len(t)], 0) = << >>
  <2>1. \A k \in 1 .. 0 : FALSE  OBVIOUS
  <2> QED  BY <2>1 DEF Part
<1>4. VerticesOf(type, t, Len(t), 0) = KeptUpTo(type, t)[Len(t)]
  BY <1>2, <1>3, ConcatEmptySeq DEF VerticesOf
<1> QED  BY <1>2, <1>4 DEF KeptVertices

LEMMA FirstListLength ==
    ASSUME NEW t \in Seq(Texts), NEW type, NEW use \in IndexLists, use.list = "POSITION",
           NEW list, ListFits(type, t, Len(t), 0, use, list)
    PROVE  Len(list) = Len(KeptVertices(type, t))
<1>1. use.list \notin Tangents  BY DEF Tangents
<1>2. list = Numbers(use, KeptVertices(type, t))  BY <1>1, WholeVertices DEF ListFits
<1>3. KeptVertices(type, t) \in Seq(Nat)  BY WholeVertices
<1> QED  BY <1>2, <1>3, NumbersFacts

\* Other primitives than strips and polygons count nothing in their text.
LEMMA NoGroups ==
    ASSUME NEW t \in Seq(Texts), NEW type, type \notin Grouped
    PROVE  Groups(type, t) = << >>
<1> DEFINE n == Len(t)
           g == GroupsUpTo(type, t)
           P == {j \in 0 .. n : g[j] = << >>}
<1>1. n \in Nat  OBVIOUS
<1>2. /\ g[0] = << >>
      /\ \A k \in 1 .. n : g[k] = IF Counting(type, t, k) THEN Append(g[k - 1], CountOf(t, k)) ELSE g[k - 1]
  BY GroupsUpToFacts
<1>3. \A k : ~Counting(type, t, k)  BY DEF Counting, Grouped
<1> HIDE DEF n, g
<1>4. 0 \in P  BY <1>1, <1>2
<1>5. \A k \in 1 .. n : k - 1 \in P => k \in P  BY <1>1, <1>2, <1>3
<1>6. P \in SUBSET (0 .. n)  OBVIOUS
<1>7. \A j \in 0 .. n : j \in P
  <2> HIDE DEF P
  <2> QED  BY <1>1, <1>4, <1>5, <1>6, LoopKeeps
<1>8. g[n] = << >>  BY <1>1, <1>7
<1> QED  BY <1>8 DEF Groups, g, n

LEMMA FacesOfTypes ==
    ASSUME NEW t, NEW type, NEW v
    PROVE  /\ type = "TRIANGLES" => FacesOf(type, t, v) = Len(KeptVertices(type, t)) \div 3
           /\ type = "LINES" => FacesOf(type, t, v) = Len(KeptVertices(type, t)) \div 2
           /\ type = "POLYLIST" => FacesOf(type, t, v) = Len(v)
           /\ type \in Grouped => FacesOf(type, t, v) = FacesTotal(type, v)
BY DEF FacesOf, FacesTotal, Grouped, Strips

\* What end__p() and end__triangles() and so on need to know of a primitive p with text t
Whole(p, t) ==
    /\ p.uses # << >> /\ p.uses[1].list = "POSITION"
    /\ \A i \in 1 .. Len(p.uses) : ListFits(p.type, t, Len(t), 0, p.uses[i], p.indices[i])

LEMMA AppendedFits ==
    ASSUME NEW p \in Members, NEW t \in Seq(Texts), Whole(p, t), NEW faces,
           p.type # "POLYLIST" => p.vcounts = Groups(p.type, t),
           faces = FacesOf(p.type, t, p.vcounts),
           CountedVertices(p.vcounts) <= Len(KeptVertices(p.type, t))
    PROVE  ResultIsText(Appended(p, faces), t)
<1> DEFINE r == Appended(p, faces)
<1>1. /\ r.appended /\ r.type = p.type /\ r.uses = p.uses /\ r.indices = p.indices
      /\ r.vcounts = p.vcounts /\ r.faces = faces
  BY DEF Appended
<1>2. p.uses \in Seq(IndexLists) /\ p.uses # << >>  BY DEF Members, Whole
<1>3. p.uses[1] \in IndexLists /\ 1 \in 1 .. Len(p.uses) /\ DOMAIN p.uses = 1 .. Len(p.uses)
  BY <1>2
<1>4. Len(p.indices[1]) = Len(KeptVertices(p.type, t))
  <2>1. p.uses[1].list = "POSITION" /\ ListFits(p.type, t, Len(t), 0, p.uses[1], p.indices[1])
    BY <1>3 DEF Whole
  <2> QED  BY <1>3, <2>1, FirstListLength
<1> HIDE DEF r
<1>5. AppendedIsText(r, t)  BY <1>1, <1>3, <1>4 DEF AppendedIsText, Whole
<1> QED  BY <1>1, <1>5 DEF ResultIsText, r

LEMMA DiscardedFits ==
    ASSUME NEW p \in Members, NEW t,
           p.type \notin {"NONE", "POLYLIST"} => FacesOf(p.type, t, Groups(p.type, t)) = 0
    PROVE  ResultIsText(Discarded(p), t)
BY DEF Discarded, ResultIsText

LEMMA NothingCounted == CountedVertices(<< >>) = 0
<1>1. << >> \in Seq(Int) /\ 0 \in Int  OBVIOUS
<1> QED  BY <1>1, CountedAppend

LEMMA EndPResult ==
    ASSUME Consistent, Shape, CountsFit, PositionsFirst, ListsFit, NoResult, EndP
    PROVE  NoResult' /\ ResultFits'
<1>1. /\ text \in Seq(Texts) /\ text # << >> /\ text' = text /\ element \in {"p", "ph p"}
      /\ element = "ph p" => prim.type = "POLYGONS"
  BY EndingElement DEF EndP
<1>2. prim.type \in Types /\ Ended \in Members /\ Ended.type = prim.type /\ Ended.uses = prim.uses
      /\ Ended.indices = prim.indices /\ Ended.vcounts = prim.vcounts
  BY EndedFacts
<1>3. prim'.type = prim.type  BY EndPConsistent DEF Elsewhere
<1>4. CASE prim.type # "LINES"
  <2>1. result = None  BY <1>1, <1>4 DEF NoResult
  <2>2. result' = result  BY <1>2, <1>4, EndPCases, KindsOfTypes
  <2> QED  BY <2>1, <2>2, NothingYet
<1>5. CASE prim.type = "LINES"
  <2>1. element = "p" /\ element' = "primitive"  BY <1>1, <1>5 DEF EndP
  <2>2. NoResult'  BY <1>1, <1>3, <1>5, <2>1 DEF NoResult
  <2>3. prim.type \in Single /\ prim.type \notin Strips /\ prim.type \notin Grouped
    BY <1>5 DEF Single, Strips, Grouped
  <2>4. Len(KeptVertices(prim.type, text)) = prim.vertexCount  BY <2>3, OneElement
  <2>5. prim.uses # << >> /\ prim.uses[1].list = "POSITION"
    <3>1. ~aborted  BY DEF EndP, Going
    <3> QED  BY <2>1, <3>1 DEF PositionsFirst
  <2>6. ASSUME NEW i \in 1 .. Len(prim.uses)
        PROVE  ListFits(prim.type, text, Len(text), 0, prim.uses[i], prim.indices[i])
    <3> DEFINE n == prim.vertexCount - prim.lastCount
               use == prim.uses[i]
               list == prim.indices[i]
               type == prim.type
    <3>1. /\ n \in Nat /\ text[Len(text)].length = n /\ text[Len(text)].tag # "h"
          /\ ListFits(type, text, Len(text) - 1, n, use, list)
      BY ElementWritten
    <3>2. Kept(type, text, Len(text))  BY <1>1, <2>3, <3>1, KeptLast
    <3> HIDE DEF n, use, list, type
    <3>3. ListFits(type, text, Len(text), 0, use, list)  BY <1>1, <3>1, <3>2, ListKept
    <3> QED  BY <3>3 DEF use, list, type
  <2>7. Whole(Ended, text)  BY <1>2, <2>5, <2>6 DEF Whole
  <2>8. prim.vcounts = << >> /\ Groups(prim.type, text) = << >>
    BY <1>1, <1>5, <2>3, NoGroups DEF CountsFit
  <2>9. FacesOf(prim.type, text, << >>) = prim.vertexCount \div 2
    BY <1>5, <2>4, FacesOfTypes
  <2>10. prim.vertexCount \in Nat /\ prim.vertexCount \div 2 \in Nat
    <3>1. prim.vertexCount \in Nat  BY ConsistentNumbers
    <3> QED  BY <3>1, Division
  <2>11. CASE prim.vertexCount \div 2 > 0
    <3>1. result' = Appended(Ended, prim.vertexCount \div 2)  BY <1>5, <2>11, EndPCases
    <3>2. CountedVertices(<< >>) <= Len(KeptVertices(Ended.type, text))
      BY <1>2, <2>4, <2>10, NothingCounted
    <3> DEFINE p == Ended
               faces == prim.vertexCount \div 2
    <3>3. p \in Members /\ Whole(p, text) /\ p.vcounts = Groups(p.type, text)
          /\ faces = FacesOf(p.type, text, p.vcounts)
          /\ CountedVertices(p.vcounts) <= Len(KeptVertices(p.type, text))
      BY <1>2, <2>7, <2>8, <2>9, <3>2
    <3> HIDE DEF p, faces
    <3>4. ResultIsText(Appended(p, faces), text)  BY <1>1, <3>3, AppendedFits
    <3> QED  BY <1>1, <2>2, <3>1, <3>4 DEF ResultFits, p, faces
  <2>12. CASE ~ (prim.vertexCount \div 2 > 0)
    <3>1. result' = Discarded(Ended)  BY <1>5, <2>12, EndPCases
    <3>2. FacesOf(Ended.type, text, Groups(Ended.type, text)) = 0
      <4>1. prim.vertexCount \div 2 = 0  BY <2>10, <2>12
      <4> QED  BY <1>2, <2>8, <2>9, <4>1
    <3>3. ResultIsText(Discarded(Ended), text)  BY <1>2, <3>2, DiscardedFits
    <3> QED  BY <1>1, <2>2, <3>1, <3>3 DEF ResultFits
  <2> QED  BY <2>11, <2>12
<1> QED  BY <1>4, <1>5

LEMMA EndResult ==
    ASSUME Consistent, Shape, CountsFit, Fresh, PositionsFirst, ListsFit, ResultFits, End
    PROVE  NoResult' /\ ResultFits'
<1> DEFINE type == prim.type
           v == prim.vcounts
           n == prim.vertexCount
           kept == KeptVertices(type, text)
<1>1. element = "primitive" /\ element' = "mesh" /\ text' = text /\ ~aborted  BY DEF End, Going
<1>2. NoResult'  BY <1>1 DEF NoResult
<1>3. /\ prim \in Members /\ n \in Nat /\ prim.faces \in Nat /\ prim.expected \in Nat /\ v \in Seq(Int)
      /\ text \in Seq(Texts) /\ Len(text) \in Nat
  BY ConsistentNumbers
<1>4. type \in Types  BY <1>1 DEF Consistent, Typed
<1>5. Closed = Len(text) /\ ~Reading  BY <1>1 DEF Closed, Opened, Reading
<1>6. prim.texts # 0 => Whole(prim, text)
  <2> SUFFICES ASSUME prim.texts # 0 PROVE Whole(prim, text)  OBVIOUS
  <2>1. prim.uses # << >> /\ prim.uses[1].list = "POSITION"  BY <1>1 DEF PositionsFirst
  <2>2. \A i \in 1 .. Len(prim.uses) : ListFits(type, text, Len(text), 0, prim.uses[i], prim.indices[i])
    BY <1>5 DEF ListsFit, Written
  <2> QED  BY <2>1, <2>2 DEF Whole
<1>7. n > 0 => prim.texts # 0
  <2>1. prim.texts = 0 => n = 0  BY <1>1 DEF Consistent, Counted
  <2> QED  BY <1>3, <2>1
<1>8. Len(kept) \in Nat  BY <1>3, WholeVertices
<1>9. CASE type = "LINES"
  <2>1. result' = result  BY <1>9 DEF End
  <2> QED  BY <1>1, <1>2, <2>1 DEF ResultFits
<1>10. CASE type = "TRIANGLES"
  <2>1. v = << >> /\ n = Len(kept)  BY <1>1, <1>10 DEF CountsFit
  <2>2. type \notin Grouped  BY <1>10 DEF Grouped, Strips
  <2>3. Groups(type, text) = << >>  BY <1>3, <2>2, NoGroups
  <2>4. FacesOf(type, text, v) = n \div 3  BY <1>10, <2>1, FacesOfTypes
  <2>5. n \div 3 \in Nat  BY <1>3, Division
  <2>6. CASE n \div 3 > 0
    <3>1. result' = Appended(prim, n \div 3)  BY <1>10, <2>6 DEF End
    <3>2. prim.texts # 0
      <4>1. n # 0
        <5>1. 0 \div 3 = 0  OBVIOUS
        <5> HIDE DEF n
        <5> QED  BY <2>6, <5>1
      <4> QED  BY <1>3, <1>7, <4>1
    <3>3. Whole(prim, text)  BY <1>6, <3>2
    <3>4. CountedVertices(v) <= Len(kept)  BY <1>8, <2>1, NothingCounted
    <3> DEFINE p == prim
               faces == n \div 3
    <3>5. p \in Members /\ Whole(p, text) /\ p.vcounts = Groups(p.type, text)
          /\ faces = FacesOf(p.type, text, p.vcounts)
          /\ CountedVertices(p.vcounts) <= Len(KeptVertices(p.type, text))
      BY <1>3, <2>1, <2>3, <2>4, <3>3, <3>4
    <3> HIDE DEF p, faces
    <3>6. ResultIsText(Appended(p, faces), text)  BY <1>3, <3>5, AppendedFits
    <3> QED  BY <1>1, <1>2, <3>1, <3>6 DEF ResultFits, p, faces
  <2>7. CASE ~ (n \div 3 > 0)
    <3>1. result' = Discarded(prim)  BY <1>10, <2>7 DEF End
    <3>2. FacesOf(type, text, Groups(type, text)) = 0
      <4>1. n \div 3 = 0  BY <2>5, <2>7
      <4> QED  BY <2>1, <2>3, <2>4, <4>1
    <3>3. ResultIsText(Discarded(prim), text)  BY <1>3, <3>2, DiscardedFits
    <3> QED  BY <1>1, <1>2, <3>1, <3>3 DEF ResultFits
  <2> QED  BY <2>6, <2>7
<1>11. CASE type = "POLYLIST"
  <2>1. CountedVertices(v) = prim.expected /\ n = Len(kept)  BY <1>1, <1>11 DEF CountsFit
  <2>2. CASE n >= prim.expected /\ n > 0
    <3>1. result' = Appended(prim, Len(v))  BY <1>11, <2>2 DEF End
    <3>2. Whole(prim, text)  BY <1>6, <1>7, <2>2
    <3>3. CountedVertices(v) <= Len(kept)  BY <1>3, <2>1, <2>2
    <3>4. FacesOf(type, text, v) = Len(v)  BY <1>11, FacesOfTypes
    <3> DEFINE p == prim
               faces == Len(v)
    <3>5. p \in Members /\ Whole(p, text) /\ p.type = "POLYLIST"
          /\ faces = FacesOf(p.type, text, p.vcounts)
          /\ CountedVertices(p.vcounts) <= Len(KeptVertices(p.type, text))
      BY <1>3, <1>11, <3>2, <3>3, <3>4
    <3> HIDE DEF p, faces
    <3>6. ResultIsText(Appended(p, faces), text)  BY <1>3, <3>5, AppendedFits
    <3> QED  BY <1>1, <1>2, <3>1, <3>6 DEF ResultFits, p, faces
  <2>3. CASE ~ (n >= prim.expected /\ n > 0)
    <3>1. result' = Discarded(prim)  BY <1>11, <2>3 DEF End
    <3>2. ResultIsText(Discarded(prim), text)  BY <1>3, <1>11, DiscardedFits
    <3> QED  BY <1>1, <1>2, <3>1, <3>2 DEF ResultFits
  <2> QED  BY <2>2, <2>3
<1>12. CASE type \in Grouped
  <2>0. type \notin {"LINES", "TRIANGLES", "POLYLIST"}  BY <1>12 DEF Grouped, Strips
  <2>1. v = GroupsUpTo(type, text)[Len(text)] /\ prim.faces = FacesTotal(type, v)
    BY <1>5, <1>12 DEF CountsFit
  <2>2. v = Groups(type, text)  BY <2>1 DEF Groups
  <2>3. FacesOf(type, text, v) = prim.faces  BY <1>12, <2>1, FacesOfTypes
  <2>4. CountedVertices(v) = Len(kept)
    <3>1. Len(text) \in 0 .. Len(text) /\ type \in Strips \cup {"POLYGONS"}  BY <1>3, <1>12 DEF Grouped
    <3>2. CountedVertices(GroupsUpTo(type, text)[Len(text)]) = Len(KeptUpTo(type, text)[Len(text)])
      BY <1>3, <3>1, GroupsCountVertices
    <3> QED  BY <2>1, <3>2 DEF KeptVertices
  <2>5. CASE prim.faces > 0
    <3>1. result' = Appended(prim, prim.faces)  BY <2>0, <2>5 DEF End
    <3>2. prim.texts # 0
      <4> SUFFICES ASSUME prim.texts = 0 PROVE FALSE  OBVIOUS
      <4>1. Closed = 0  BY <1>1, <2>0 DEF Fresh
      <4>2. v = << >>  BY <1>3, <1>5, <2>1, <4>1, GroupsUpToFacts
      <4>3. << >> \in Seq(Int) /\ 0 \in Int  OBVIOUS
      <4>4. FacesTotal(type, << >>) = 0  BY <4>3, FacesAppend
      <4> QED  BY <2>1, <2>5, <4>2, <4>4
    <3>3. Whole(prim, text)  BY <1>6, <3>2
    <3>4. CountedVertices(v) <= Len(kept)  BY <1>8, <2>4
    <3> DEFINE p == prim
               faces == prim.faces
    <3>5. p \in Members /\ Whole(p, text) /\ p.vcounts = Groups(p.type, text)
          /\ faces = FacesOf(p.type, text, p.vcounts)
          /\ CountedVertices(p.vcounts) <= Len(KeptVertices(p.type, text))
      BY <1>3, <2>2, <2>3, <3>3, <3>4
    <3> HIDE DEF p, faces
    <3>6. ResultIsText(Appended(p, faces), text)  BY <1>3, <3>5, AppendedFits
    <3> QED  BY <1>1, <1>2, <3>1, <3>6 DEF ResultFits, p, faces
  <2>6. CASE ~ (prim.faces > 0)
    <3>1. result' = Discarded(prim)  BY <2>0, <2>6 DEF End
    <3>2. FacesOf(type, text, Groups(type, text)) = 0
      <4>1. prim.faces = 0  BY <1>3, <2>6
      <4> QED  BY <2>2, <2>3, <4>1
    <3>3. ResultIsText(Discarded(prim), text)  BY <1>3, <3>2, DiscardedFits
    <3> QED  BY <1>1, <1>2, <3>1, <3>3 DEF ResultFits
  <2> QED  BY <2>5, <2>6
<1> QED  BY <1>4, <1>9, <1>10, <1>11, <1>12, KindsOfTypes DEF Grouped

-----------------------------------------------------------------------------
(* The inductive invariant                                                 *)

\* Two parts, as the lemmas about the steps need them
Follows == Shape /\ CountsFit /\ Fresh
ReadsTheText == Follows /\ VertexSeen /\ PositionsFirst /\ ListsFit /\ NoResult /\ ResultFits

LEMMA InitReads == Init => ReadsTheText
<1> SUFFICES ASSUME Init PROVE ReadsTheText  OBVIOUS
<1>1. result = None /\ element = "mesh" /\ prim = NoPrimitive  BY DEF Init
<1>2. ListsFit
  <2>1. Len(prim.uses) = 0  BY <1>1 DEF NoPrimitive
  <2>2. \A i \in 1 .. Len(prim.uses) : FALSE  BY <2>1
  <2> QED  BY <2>2 DEF ListsFit
<1>3. NoResult  BY <1>1 DEF NoResult
<1>4. ResultFits  BY <1>1 DEF ResultFits, ResultIsText, None
<1> QED  BY <1>2, <1>3, <1>4, InitShape, InitCounts, InitPositions DEF ReadsTheText, Follows

\* The handlers that make no result are called when there is none.
LEMMA NoneYet ==
    ASSUME NoResult,
           \/ \E input \in Inputs : BeginInput(input)
           \/ \E n \in VertexCounts : DataVcount(n)
           \/ BeginP \/ Data \/ DataIgnored \/ BeginPh \/ EndPh \/ BeginH \/ EndH
    PROVE  NoResult' /\ ResultFits'
<1>1. result' = result /\ element # "mesh"
  BY DEF BeginInput, DataVcount, BeginP, Data, DataIgnored, BeginPh, EndPh, BeginH, EndH
<1>2. ~ (prim.type = "LINES" /\ element = "primitive" /\ text # << >>)
  BY DEF BeginInput, DataVcount, BeginP, Data, DataIgnored, BeginPh, EndPh, BeginH, EndH, Single
<1>3. result' = None  BY <1>1, <1>2 DEF NoResult
<1> QED  BY <1>3, NothingYet

LEMMA StepReads == Consistent /\ ReadsTheText /\ [Next]_vars => ReadsTheText'
<1> SUFFICES ASSUME Consistent, ReadsTheText, [Next]_vars PROVE ReadsTheText'  OBVIOUS
<1>1. /\ Shape /\ CountsFit /\ Fresh /\ VertexSeen /\ PositionsFirst /\ ListsFit /\ NoResult /\ ResultFits
  BY DEF ReadsTheText, Follows
<1>2. ASSUME NEW type \in Types, Begin(type) PROVE ReadsTheText'
  <2>1. Shape' /\ CountsFit' /\ Fresh'  BY <1>1, <1>2, BeginShape, BeginCounts
  <2>2. VertexSeen' /\ PositionsFirst' /\ ListsFit'  BY <1>2, BeginPositions, BeginLists
  <2>3. result' = None  BY <1>2 DEF Begin
  <2> QED  BY <2>1, <2>2, <2>3, NothingYet DEF ReadsTheText, Follows
<1>3. ASSUME NEW l \in InputLists, NEW i \in DOMAIN l, BeginInput(l[i]) PROVE ReadsTheText'
  <2> DEFINE input == l[i]
  <2>1. l \in Seq(Inputs)  BY MeshAssumption
  <2>2. input \in Inputs /\ BeginInput(input)  BY <1>3, <2>1
  <2> HIDE DEF input
  <2>3. Shape' /\ CountsFit' /\ Fresh'  BY <1>1, <2>2, BeginInputShape, BeginInputCounts
  <2>4. VertexSeen' /\ PositionsFirst' /\ ListsFit'
    BY <1>1, <2>2, BeginInputPositions, BeginInputLists
  <2>5. NoResult' /\ ResultFits'  BY <1>1, <2>2, NoneYet
  <2> QED  BY <2>3, <2>4, <2>5 DEF ReadsTheText, Follows
<1>4. ASSUME NEW n \in VertexCounts, DataVcount(n) PROVE ReadsTheText'
  <2>1. Shape' /\ CountsFit' /\ Fresh'  BY <1>1, <1>4, DataVcountShape, DataVcountCounts
  <2>2. VertexSeen' /\ PositionsFirst' /\ ListsFit'
    BY <1>1, <1>4, DataVcountPositions, DataVcountLists
  <2>3. NoResult' /\ ResultFits'  BY <1>1, <1>4, NoneYet
  <2> QED  BY <2>1, <2>2, <2>3 DEF ReadsTheText, Follows
<1>5. CASE BeginP
  <2>1. Shape' /\ CountsFit' /\ Fresh'  BY <1>1, <1>5, BeginPShape, BeginPCounts
  <2>2. VertexSeen' /\ PositionsFirst' /\ ListsFit'  BY <1>1, <1>5, BeginPPositions, BeginPLists
  <2>3. NoResult' /\ ResultFits'  BY <1>1, <1>5, NoneYet
  <2> QED  BY <2>1, <2>2, <2>3 DEF ReadsTheText, Follows
<1>6. CASE Data
  <2>1. Shape' /\ CountsFit' /\ Fresh'  BY <1>1, <1>6, DataShape, DataCounts
  <2>2. VertexSeen' /\ PositionsFirst' /\ ListsFit'  BY <1>1, <1>6, DataPositions, DataLists
  <2>3. NoResult' /\ ResultFits'  BY <1>1, <1>6, NoneYet
  <2> QED  BY <2>1, <2>2, <2>3 DEF ReadsTheText, Follows
<1>7. CASE DataIgnored
  <2>1. Shape' /\ CountsFit' /\ Fresh'  BY <1>1, <1>7, DataIgnoredShape, DataIgnoredCounts
  <2>2. VertexSeen' /\ PositionsFirst' /\ ListsFit'  BY <1>1, <1>7, DataIgnoredPositions, DataIgnoredLists
  <2>3. NoResult' /\ ResultFits'  BY <1>1, <1>7, NoneYet
  <2> QED  BY <2>1, <2>2, <2>3 DEF ReadsTheText, Follows
<1>8. CASE BeginPh
  <2>1. Shape' /\ CountsFit' /\ Fresh'  BY <1>1, <1>8, BeginPhShape, BeginPhCounts
  <2>2. VertexSeen' /\ PositionsFirst' /\ ListsFit'  BY <1>1, <1>8, BeginPhPositions, BeginPhLists
  <2>3. NoResult' /\ ResultFits'  BY <1>1, <1>8, NoneYet
  <2> QED  BY <2>1, <2>2, <2>3 DEF ReadsTheText, Follows
<1>9. CASE EndPh
  <2>1. Shape' /\ CountsFit' /\ Fresh'  BY <1>1, <1>9, EndPhShape, EndPhCounts
  <2>2. VertexSeen' /\ PositionsFirst' /\ ListsFit'  BY <1>1, <1>9, EndPhPositions, EndPhLists
  <2>3. NoResult' /\ ResultFits'  BY <1>1, <1>9, NoneYet
  <2> QED  BY <2>1, <2>2, <2>3 DEF ReadsTheText, Follows
<1>10. CASE BeginH
  <2>1. Shape' /\ CountsFit' /\ Fresh'  BY <1>1, <1>10, BeginHShape, BeginHCounts
  <2>2. VertexSeen' /\ PositionsFirst' /\ ListsFit'  BY <1>1, <1>10, BeginHPositions, BeginHLists
  <2>3. NoResult' /\ ResultFits'  BY <1>1, <1>10, NoneYet
  <2> QED  BY <2>1, <2>2, <2>3 DEF ReadsTheText, Follows
<1>11. CASE EndH
  <2>1. Shape' /\ CountsFit' /\ Fresh'  BY <1>1, <1>11, EndHShape, EndHCounts
  <2>2. VertexSeen' /\ PositionsFirst' /\ ListsFit'  BY <1>1, <1>11, EndHPositions, EndHLists
  <2>3. NoResult' /\ ResultFits'  BY <1>1, <1>11, NoneYet
  <2> QED  BY <2>1, <2>2, <2>3 DEF ReadsTheText, Follows
<1>12. CASE EndP
  <2>1. Shape' /\ CountsFit' /\ Fresh'  BY <1>1, <1>12, EndPShape, EndPCounts
  <2>2. VertexSeen' /\ PositionsFirst' /\ ListsFit'  BY <1>1, <1>12, EndPPositions, EndPIndices
  <2>3. NoResult' /\ ResultFits'  BY <1>1, <1>12, EndPResult
  <2> QED  BY <2>1, <2>2, <2>3 DEF ReadsTheText, Follows
<1>13. CASE End
  <2>1. Shape' /\ CountsFit' /\ Fresh'  BY <1>1, <1>13, EndShape, EndCounts
  <2>2. VertexSeen' /\ PositionsFirst' /\ ListsFit'  BY <1>13, EndPositions, EndLists
  <2>3. NoResult' /\ ResultFits'  BY <1>1, <1>13, EndResult
  <2> QED  BY <2>1, <2>2, <2>3 DEF ReadsTheText, Follows
<1>14. CASE UNCHANGED vars
  <2>1. /\ prim' = prim /\ raw' = raw /\ element' = element /\ text' = text /\ result' = result
        /\ aborted' = aborted
    BY <1>14 DEF vars
  <2>2. Shape'  BY <1>1, <2>1 DEF Shape, TagsFit, LengthsFit, Reading
  <2>3. Closed' = Closed  BY <2>1 DEF Closed, Opened
  <2>4. CountsFit' /\ Fresh'  BY <1>1, <2>1, <2>3 DEF CountsFit, Fresh
  <2>5. VertexSeen' /\ PositionsFirst'  BY <1>1, <2>1 DEF VertexSeen, PositionsFirst
  <2>6. ListsFit'  BY <1>1, <2>1, <2>3 DEF ListsFit, Written, Reading
  <2>7. NoResult' /\ ResultFits'  BY <1>1, <2>1 DEF NoResult, ResultFits
  <2> QED  BY <2>2, <2>4, <2>5, <2>6, <2>7 DEF ReadsTheText, Follows
<1> QED
  BY <1>2, <1>3, <1>4, <1>5, <1>6, <1>7, <1>8, <1>9, <1>10, <1>11, <1>12, <1>13, <1>14 DEF Next

LEMMA TextHere == Consistent /\ ReadsTheText => IndicesAreTheText
<1> SUFFICES ASSUME Consistent, ReadsTheText PROVE IndicesAreTheText  OBVIOUS
<1> DEFINE t == text
           r == result
<1>1. t \in Seq(Texts)  BY ConsistentNumbers
<1>2. r.appended => AppendedIsText(r, t)  BY DEF ReadsTheText, ResultFits, ResultIsText
<1>3. ~r.appended /\ r.type \notin {"NONE", "POLYLIST"} => FacesOf(r.type, t, Groups(r.type, t)) = 0
  BY DEF ReadsTheText, ResultFits, ResultIsText
<1> HIDE DEF t, r
<1>4. ASSUME r.appended, NEW i \in DOMAIN r.uses
      PROVE  LET use == r.uses[i]
                 kept == KeptVertices(r.type, t)
             IN  \/ use.list \in {"TEXTANGENT", "TEXBINORMAL"} /\ TakenBack(r.type, t)
                 \/ r.indices[i] = [k \in DOMAIN kept |-> Number(kept[k], use.offset) + use.initial]
  <2>1. ListFits(r.type, t, Len(t), 0, r.uses[i], r.indices[i])  BY <1>2, <1>4 DEF AppendedIsText
  <2>2. VerticesOf(r.type, t, Len(t), 0) = KeptVertices(r.type, t)  BY <1>1, WholeVertices
  <2>3. TakenBackUpTo(r.type, t, Len(t)) => TakenBack(r.type, t)
    BY <1>1 DEF TakenBackUpTo, TakenBack
  <2> QED  BY <2>1, <2>2, <2>3 DEF ListFits, Numbers, Tangents
<1>5. r.appended => /\ r.type # "POLYLIST" => r.vcounts = Groups(r.type, t)
                    /\ r.faces = FacesOf(r.type, t, r.vcounts)
                    /\ CountedVertices(r.vcounts) <= Len(r.indices[1])
  BY <1>2 DEF AppendedIsText
<1> QED  BY <1>3, <1>4, <1>5 DEF IndicesAreTheText, t, r

\* For texts of any length and any number of strips, polygons and holes, empty and short ones among
\* them: the index lists, counts and faces of a primitive of the mesh are those of its text, but for
\* lists of tangents and binormals if a strip was taken back, and a primitive is left out only if it
\* has no face.
THEOREM IndicesAreAlwaysTheText == Spec => []IndicesAreTheText
<1>1. Init => Consistent /\ ReadsTheText  BY InitConsistent, InitReads
<1>2. (Consistent /\ ReadsTheText) /\ [Next]_vars => (Consistent /\ ReadsTheText)'
  BY StepConsistent, StepReads
<1>3. Spec => [](Consistent /\ ReadsTheText)  BY <1>1, <1>2, PTL DEF Spec
<1> QED  BY <1>3, TextHere, PTL
=============================================================================

-------------------------------- MODULE Mesh --------------------------------
(***************************************************************************)
(* COLLADASaxFWL::MeshLoader: the primitives of a <mesh>.                  *)
(*                                                                         *)
(* The sources of one semantic are concatenated to one list of values.     *)
(* The numbers of <p> and <h> go round the offsets of the inputs, each to  *)
(* the index lists of the inputs with its offset, increased by where the   *)
(* values of the input's source begin.  Strips that are too short are      *)
(* taken back.                                                             *)
(*                                                                         *)
(* <source> and <vertices> have been read.  The elements of a primitive    *)
(* come in the order of the schema and the numbers of a <p> or <h> are     *)
(* complete vertices.  Number() gives each number of the text a value that *)
(* tells which one it is, so that the lists show what was written where.   *)
(***************************************************************************)
EXTENDS Integers, Sequences, FiniteSets, FiniteSetsExt, SequencesExt

CONSTANTS
    Sources,         \* ids of the <source> elements of the mesh
    Stride, Count,   \* the stride and the number of elements of each source
    VertexInputs,    \* the inputs of <vertices>: a sequence of [semantic, source]
    InputLists,      \* inputs that primitives have: sequences of [semantic, source, offset]
    VertexCounts,    \* numbers in <vcount>
    MaxTexts,        \* bound: <p>, <ph> and <h> elements of a primitive
    MaxVertices,     \* bound: vertices of a primitive
    MaxPrimitives    \* bound: primitives of the mesh

\* The lists of values of COLLADAFW::Mesh.  UV and TEXCOORD share one.
Lists == {"POSITION", "NORMAL", "COLOR", "TEXCOORD", "TEXTANGENT", "TEXBINORMAL"}
Semantics == Lists \cup {"UV"}
ListOf(semantic) == IF semantic = "UV" THEN "TEXCOORD" ELSE semantic

\* An <input> of a primitive.  begin__p() takes for granted that one has the semantic VERTEX.
Inputs == [semantic : Semantics \cup {"VERTEX"}, source : STRING, offset : Nat]

ASSUME MeshAssumption ==
    /\ Stride \in [Sources -> Nat \ {0}] /\ Count \in [Sources -> Nat]
    /\ VertexInputs \in Seq([semantic : Semantics, source : STRING])
    /\ \E i \in DOMAIN VertexInputs : VertexInputs[i].semantic = "POSITION"
    /\ InputLists \subseteq Seq(Inputs)
    /\ \A l \in InputLists : \E i \in DOMAIN l : l[i].semantic = "VERTEX"
    /\ VertexCounts \subseteq Nat /\ {MaxTexts, MaxVertices, MaxPrimitives} \subseteq Nat

Types == {"TRIANGLES", "LINES", "POLYLIST", "LINESTRIPS", "TRISTRIPS", "TRIFANS", "POLYGONS"}
Single == {"TRIANGLES", "LINES", "POLYLIST"}     \* types with one <p>

VARIABLES
    loaded,          \* mLoadedInputElements of each source
    initialIndex,    \* mInitialIndex of each source
    values,          \* the lists of values of mMesh, as sequences of sources
    prim,            \* the members of the MeshLoader about the current primitive
    raw,             \* the <input> elements of the primitive read so far
    element,         \* the innermost element of the primitive that is open
    text,            \* its <p> and <h> elements: what they are, their first vertex, their length
    result,          \* what became of the last primitive
    primitives,      \* number of primitives begun
    aborted          \* a handler returned false
meshVars == <<loaded, initialIndex, values>>
vars == <<meshVars, prim, raw, element, text, result, primitives, aborted>>

None == [appended |-> FALSE, type |-> "NONE"]

\* initCurrentValues(), and no current primitive
NoPrimitive == [type |-> "NONE", inputs |-> << >>, maxOffset |-> 0, uses |-> << >>, indices |-> << >>,
                vcounts |-> << >>, strips |-> 0, offset |-> 0, vertexCount |-> 0, lastCount |-> 0,
                expected |-> 0, faces |-> 0, texts |-> 0, emptyP |-> TRUE]

\* Mutant of NoPrimitiveAfter: mCurrentLastPrimitiveVertexCount is not reset.
ForgetsLastCount(p) == [NoPrimitive EXCEPT !.lastCount = p.lastCount]
\* The members after the end of a primitive with members p
NoPrimitiveAfter(p) == NoPrimitive

Init == /\ loaded = [s \in Sources |-> {}] /\ initialIndex = [s \in Sources |-> 0]
        /\ values = [l \in Lists |-> << >>]
        /\ prim = NoPrimitive /\ raw = << >> /\ element = "mesh" /\ text = << >>
        /\ result = None /\ primitives = 0 /\ aborted = FALSE

-----------------------------------------------------------------------------
(* Sources: loadSourceElement() and what it calls                          *)

\* The number of values in the first n sources of a list
ValuesUpTo(list) ==
    LET upTo[n \in 0 .. Len(list)] ==
            IF n = 0 THEN 0 ELSE upTo[n - 1] + Stride[list[n]] * Count[list[n]]
    IN  upTo
ValuesCount(list) == ValuesUpTo(list)[Len(list)]

\* The strides with which a source may serve a semantic; others are reported and marked as loaded.
StridesFor(semantic) ==
    CASE semantic = "COLOR" -> 3 .. 4
      [] semantic \in {"UV", "TEXCOORD"} -> 2 .. 4
      [] semantic \in {"TEXTANGENT", "TEXBINORMAL"} -> {3}
      [] OTHER -> Nat

\* loadSourceElement(input) with the lists as m, a record of the three variables
LoadSource(m, input) ==
    LET s == input.source
        list == ListOf(input.semantic)
    IN  IF s \notin Sources \/ input.semantic \in m.loaded[s] THEN m
        ELSE [loaded |-> [m.loaded EXCEPT ![s] = @ \cup {input.semantic}],
              initialIndex |-> IF Stride[s] \in StridesFor(input.semantic)
                               THEN [m.initialIndex EXCEPT ![s] = ValuesCount(m.values[list])]
                               ELSE m.initialIndex,
              values |-> IF Stride[s] \in StridesFor(input.semantic)
                         THEN [m.values EXCEPT ![list] = Append(@, s)]
                         ELSE m.values]
\* loadSourceElements(inputs), after n of the inputs
LoadedAfter(inputs) ==
    LET after[n \in 0 .. Len(inputs)] ==
            IF n = 0 THEN [loaded |-> loaded, initialIndex |-> initialIndex, values |-> values]
            ELSE LoadSource(after[n - 1], inputs[n])
    IN  after
LoadSourceElements(inputs) == LoadedAfter(inputs)[Len(inputs)]

-----------------------------------------------------------------------------
(* Offsets: initializeOffsets().  A use is an index list that the          *)
(* primitive will have.                                                    *)

\* Mutant of IndexOffset: as for positions, where a list has one source.
UndividedOffset(semantic, s, initial) == initial[s]
\* Where the elements of source s begin, as the members ...IndexOffset and PrimitiveInput.mInitialIndex say
IndexOffset(semantic, s, initial) ==
    IF semantic = "POSITION" THEN initial[s] ELSE initial[s] \div Stride[s]

Use(input, initial) == [list |-> input.semantic, source |-> input.source, offset |-> input.offset,
                        initial |-> IndexOffset(input.semantic, input.source, initial)]
WithSemantic(inputs, semantic) == {i \in DOMAIN inputs : inputs[i].semantic = semantic}

\* Positions, normals, tangents and binormals have one list, from the first input with the semantic.
SingleUse(inputs, semantic, initial) ==
    LET found == WithSemantic(inputs, semantic)
        input == inputs[Min(found)]
    IN  IF found = {} \/ input.source \notin Sources \/ (semantic # "POSITION" /\ Stride[input.source] # 3)
        THEN << >> ELSE <<Use(input, initial)>>
\* Colors and texture coordinates have a list for each input, up to one without source.
UsesUpTo(inputs, semantic, initial) ==
    LET missing == {i \in WithSemantic(inputs, semantic) : inputs[i].source \notin Sources}
        uses[n \in 0 .. Len(inputs)] ==
            IF n = 0 THEN << >>
            ELSE IF n \in WithSemantic(inputs, semantic) /\ \A i \in missing : n < i
                 THEN Append(uses[n - 1], Use(inputs[n], initial)) ELSE uses[n - 1]
    IN  uses
EveryUse(inputs, semantic, initial) == UsesUpTo(inputs, semantic, initial)[Len(inputs)]
Uses(inputs, initial) ==
    SingleUse(inputs, "POSITION", initial) \o SingleUse(inputs, "NORMAL", initial)
      \o EveryUse(inputs, "COLOR", initial) \o EveryUse(inputs, "TEXCOORD", initial)
      \o SingleUse(inputs, "TEXTANGENT", initial) \o SingleUse(inputs, "TEXBINORMAL", initial)

PositionSource(inputs) == inputs[Min(WithSemantic(inputs, "POSITION"))].source
\* initializeOffsets() reports a critical error, or an error after which the handler decides.
Critical(inputs) == PositionSource(inputs) \notin Sources \/ Stride[PositionSource(inputs)] # 3
Reported(inputs) == \E i \in DOMAIN inputs : /\ inputs[i].semantic \in {"COLOR", "TEXCOORD"}
                                             /\ inputs[i].source \notin Sources

-----------------------------------------------------------------------------
(* Index lists                                                             *)

Number(vertex, offset) == 10 * vertex + offset

\* writePrimitiveIndices() for one number; it keeps nothing from one number of a call to the next
\* but the members, so that this is also how it goes on in the next piece of the text.
WriteIndex(p, number) ==
    [p EXCEPT !.indices = [i \in DOMAIN p.uses |->
                  IF p.uses[i].offset = p.offset THEN Append(@[i], number + p.uses[i].initial) ELSE @[i]],
              !.offset = IF @ = p.maxOffset THEN 0 ELSE @ + 1,
              !.vertexCount = IF p.offset = p.maxOffset THEN @ + 1 ELSE @]

\* Mutant of Erase: the colors and texture coordinates are left.
EraseSingleLists(p, n) ==
    [p.indices EXCEPT ![1] = SubSeq(@, 1, Len(@) - n)]
\* ArrayPrimitiveType::erase(n) on the lists that end__p() takes a short strip from: not on tangents
\* and binormals
Erase(p, n) ==
    [i \in DOMAIN p.uses |->
        IF p.uses[i].list \in {"TEXTANGENT", "TEXBINORMAL"} THEN p.indices[i]
        ELSE SubSeq(p.indices[i], 1, IF n > Len(p.indices[i]) THEN 0 ELSE Len(p.indices[i]) - n)]

Least(type) == IF type = "LINESTRIPS" THEN 2 ELSE 3

\* The strip that ends: counted if it is long enough, else taken back
EndStrip(p) ==
    LET n == p.vertexCount - p.lastCount
    IN  IF n = 0 THEN p
        ELSE IF n >= Least(p.type)
        THEN [p EXCEPT !.vcounts = Append(@, n), !.strips = @ + 1,
                       !.faces = @ + n - (Least(p.type) - 1), !.lastCount = p.vertexCount]
        ELSE [p EXCEPT !.indices = Erase(p, n), !.lastCount = p.vertexCount]

\* The polygon that ends, or with hasHoles the outline of a polygon with holes
EndPolygon(p, hasHoles) ==
    LET n == p.vertexCount - p.lastCount
        q == [p EXCEPT !.emptyP = IF hasHoles THEN n = 0 ELSE @, !.lastCount = p.vertexCount]
    IN  IF n = 0 THEN q ELSE [q EXCEPT !.vcounts = Append(@, n), !.faces = @ + 1]

\* The primitive is appended to the mesh with this number of faces, or deleted.
Appended(p, faces) == [appended |-> TRUE, type |-> p.type, uses |-> p.uses, indices |-> p.indices,
                       vcounts |-> p.vcounts, faces |-> faces]
Discarded(p) == [appended |-> FALSE, type |-> p.type]

-----------------------------------------------------------------------------
(* Handlers                                                                *)

Going == ~aborted

\* begin__triangles() and so on.  The object of LINES is made by begin__p().
Begin(type) ==
    /\ Going /\ element = "mesh" /\ primitives < MaxPrimitives
    /\ prim' = [prim EXCEPT !.type = type]
    /\ element' = "primitive" /\ raw' = << >> /\ text' = << >>
    /\ result' = None /\ primitives' = primitives + 1
    /\ UNCHANGED <<meshVars, aborted>>

\* begin__input____InputLocalOffset(), with MeshPrimitiveInputList::appendInputElement()
BeginInput(input) ==
    /\ Going /\ element = "primitive" /\ text = << >>
    /\ \E l \in InputLists : IsPrefix(Append(raw, input), l)
    /\ raw' = Append(raw, input)
    /\ prim' = [prim EXCEPT
          !.maxOffset = IF input.offset > @ THEN input.offset ELSE @,
          !.inputs = IF input.semantic = "VERTEX"
                     THEN @ \o [i \in DOMAIN VertexInputs |->
                                   [semantic |-> VertexInputs[i].semantic,
                                    source |-> VertexInputs[i].source, offset |-> input.offset]]
                     ELSE Append(@, input)]
    /\ UNCHANGED <<meshVars, element, text, result, primitives, aborted>>

\* data__vcount(), one number
DataVcount(n) ==
    /\ Going /\ element = "primitive" /\ prim.type = "POLYLIST" /\ raw \in InputLists /\ text = << >>
    /\ prim.expected + n <= MaxVertices /\ Len(prim.vcounts) < MaxTexts
    /\ prim' = [prim EXCEPT !.vcounts = Append(@, n), !.expected = @ + n]
    /\ UNCHANGED <<meshVars, raw, element, text, result, primitives, aborted>>

Vertices == IF text = << >> THEN 0 ELSE text[Len(text)].first + text[Len(text)].length
OpenText(tag) == text' = Append(text, [tag |-> tag, first |-> Vertices, length |-> 0])

\* loadSourceElements() and initializeOffsets(), where begin__p() calls them
StartIndices(p) ==
    LET m == LoadSourceElements(p.inputs)
    IN  /\ loaded' = m.loaded /\ initialIndex' = m.initialIndex /\ values' = m.values
        /\ LET uses == Uses(p.inputs, m.initialIndex)
           IN  prim' = [p EXCEPT !.offset = 0, !.uses = uses, !.indices = [i \in DOMAIN uses |-> << >>]]
        /\ \E stop \in BOOLEAN :
              /\ Critical(p.inputs) => stop
              /\ stop => Critical(p.inputs) \/ Reported(p.inputs)
              /\ aborted' = stop

\* begin__p()
BeginP ==
    /\ Going /\ raw \in InputLists
    /\ \/ element = "primitive" /\ element' = "p" /\ Len(text) < MaxTexts /\ OpenText("p")
       \/ element = "new ph" /\ element' = "ph p" /\ UNCHANGED text
    /\ prim.type \in Single => text = << >>
    /\ IF prim.type \in {"TRIANGLES", "LINES"} \/ prim.texts = 0
       THEN StartIndices(prim)
       ELSE /\ prim' = IF prim.type = "TRIFANS" THEN EndStrip(prim) ELSE prim
            /\ UNCHANGED <<meshVars, aborted>>
    /\ UNCHANGED <<raw, result, primitives>>

Lengthen == text' = [text EXCEPT ![Len(text)].length = @ + 1]

\* data__p(), and data__h() below a <p> with contents; one number
Data ==
    /\ Going /\ element \in {"p", "ph p", "h"} /\ ~(element = "h" /\ prim.emptyP)
    /\ prim.offset = 0 => Vertices < MaxVertices
    /\ prim' = WriteIndex(prim, Number(Vertices, prim.offset))
    /\ IF prim.offset = prim.maxOffset THEN Lengthen ELSE UNCHANGED text
    /\ UNCHANGED <<meshVars, raw, element, result, primitives, aborted>>
\* data__h() after an empty <p>; a vertex
DataIgnored ==
    /\ Going /\ element = "h" /\ prim.emptyP /\ Vertices < MaxVertices /\ Lengthen
    /\ UNCHANGED <<meshVars, prim, raw, element, result, primitives, aborted>>

\* end__p()
EndP ==
    /\ Going /\ element \in {"p", "ph p"} /\ prim.offset = 0
    /\ element' = IF element = "p" THEN "primitive" ELSE "ph"
    /\ LET p == [prim EXCEPT !.texts = @ + 1]
           lines == p.vertexCount \div 2
       IN  CASE p.type \in {"LINESTRIPS", "TRISTRIPS", "TRIFANS"} ->
                  prim' = EndStrip(p) /\ UNCHANGED result
             [] p.type = "POLYGONS" -> prim' = EndPolygon(p, element = "ph p") /\ UNCHANGED result
             [] p.type = "LINES" ->
                  /\ result' = IF lines > 0 THEN Appended(p, lines) ELSE Discarded(p)
                  /\ prim' = [NoPrimitiveAfter(p) EXCEPT !.type = p.type, !.inputs = p.inputs,
                                                         !.maxOffset = p.maxOffset]
             [] OTHER -> prim' = p /\ UNCHANGED result
    /\ UNCHANGED <<meshVars, raw, text, primitives, aborted>>

\* begin__ph() and end__ph()
BeginPh ==
    /\ Going /\ element = "primitive" /\ prim.type = "POLYGONS" /\ raw \in InputLists
    /\ Len(text) < MaxTexts /\ OpenText("ph")
    /\ element' = "new ph" /\ prim' = [prim EXCEPT !.emptyP = TRUE]
    /\ UNCHANGED <<meshVars, raw, result, primitives, aborted>>
EndPh ==
    /\ Going /\ element = "ph"
    /\ element' = "primitive" /\ prim' = [prim EXCEPT !.texts = @ + 1]
    /\ UNCHANGED <<meshVars, raw, text, result, primitives, aborted>>

\* begin__h() and end__h()
BeginH ==
    /\ Going /\ element = "ph" /\ Len(text) < MaxTexts
    /\ element' = "h" /\ OpenText("h")
    /\ UNCHANGED <<meshVars, prim, raw, result, primitives, aborted>>
EndH ==
    /\ Going /\ element = "h" /\ prim.offset = 0
    /\ element' = "ph"
    /\ LET n == prim.vertexCount - prim.lastCount
       IN  prim' = IF n = 0 THEN prim
                   ELSE [prim EXCEPT !.vcounts = Append(@, -n), !.lastCount = prim.vertexCount]
    /\ UNCHANGED <<meshVars, raw, text, result, primitives, aborted>>

\* end__triangles() and so on; LINES are done by end__p()
End ==
    /\ Going /\ element = "primitive" /\ raw \in InputLists
    /\ element' = "mesh" /\ prim' = NoPrimitiveAfter(prim)
    /\ result' =
        CASE prim.type = "LINES" -> result
          [] prim.type = "TRIANGLES" ->
                IF prim.vertexCount \div 3 > 0 THEN Appended(prim, prim.vertexCount \div 3)
                ELSE Discarded(prim)
          [] prim.type = "POLYLIST" ->
                IF prim.vertexCount >= prim.expected /\ prim.vertexCount > 0
                THEN Appended(prim, Len(prim.vcounts)) ELSE Discarded(prim)
          [] OTHER -> IF prim.faces > 0 THEN Appended(prim, prim.faces) ELSE Discarded(prim)
    /\ UNCHANGED <<meshVars, raw, text, primitives, aborted>>

Next == \/ \E type \in Types : Begin(type)
        \/ \E l \in InputLists : \E i \in DOMAIN l : BeginInput(l[i])
        \/ \E n \in VertexCounts : DataVcount(n)
        \/ BeginP \/ Data \/ DataIgnored \/ EndP
        \/ BeginPh \/ EndPh \/ BeginH \/ EndH \/ End
Spec == Init /\ [][Next]_vars

-----------------------------------------------------------------------------
(* Properties                                                              *)

Elements == {"mesh", "primitive", "p", "new ph", "ph p", "ph", "h"}

\* The members have the values of their types.  What the counters say of the primitive is consistent:
\* none is left of the primitive before, each index list that is used has grown by a number for each
\* vertex since the last strip or polygon ended.
TypeOK ==
    /\ loaded \in [Sources -> SUBSET Semantics] /\ initialIndex \in [Sources -> Nat]
    /\ \A l \in Lists : Range(values[l]) \subseteq Sources
    /\ element \in Elements /\ (element = "mesh" <=> prim.type = "NONE")
    /\ prim.type \in Types \cup {"NONE"} /\ primitives \in 0 .. MaxPrimitives /\ aborted \in BOOLEAN
    /\ prim.offset \in 0 .. prim.maxOffset
    /\ prim.lastCount \in 0 .. prim.vertexCount /\ prim.vertexCount \in 0 .. MaxVertices
    /\ Len(prim.indices) = Len(prim.uses)
    /\ \A i \in DOMAIN prim.indices :
          Len(prim.indices[i]) >= prim.vertexCount - prim.lastCount

(* What the text says                                                      *)

Ids(t) == [k \in 1 .. t.length |-> t.first + k - 1]
Outline(t, i) == Max({j \in 1 .. i : t[j].tag # "h"})
Strips == {"LINESTRIPS", "TRISTRIPS", "TRIFANS"}
Kept(type, t, i) == /\ type \in Strips => t[i].length >= Least(type)
                    /\ t[i].tag = "h" => t[Outline(t, i)].length > 0
\* The vertices of the first n elements
KeptUpTo(type, t) ==
    LET kept[n \in 0 .. Len(t)] ==
            IF n = 0 THEN << >> ELSE kept[n - 1] \o (IF Kept(type, t, n) THEN Ids(t[n]) ELSE << >>)
    IN  kept
KeptVertices(type, t) == KeptUpTo(type, t)[Len(t)]
\* The counts of the strips, or of the polygons and holes, of the first n elements
GroupsUpTo(type, t) ==
    LET groups[n \in 0 .. Len(t)] ==
            IF n = 0 THEN << >>
            ELSE IF type \notin Strips \cup {"POLYGONS"} \/ ~Kept(type, t, n) \/ t[n].length = 0
                 THEN groups[n - 1]
                 ELSE Append(groups[n - 1], IF t[n].tag = "h" THEN -t[n].length ELSE t[n].length)
    IN  groups
Groups(type, t) == GroupsUpTo(type, t)[Len(t)]
\* The faces of a strip, or of a polygon or hole, with this count
FacesIn(type, n) == IF type \in Strips THEN n - (Least(type) - 1) ELSE IF n > 0 THEN 1 ELSE 0
FacesUpTo(type, vcounts) ==
    LET faces[n \in 0 .. Len(vcounts)] == IF n = 0 THEN 0 ELSE faces[n - 1] + FacesIn(type, vcounts[n])
    IN  faces
FacesOf(type, t, vcounts) ==
    CASE type = "TRIANGLES" -> Len(KeptVertices(type, t)) \div 3
      [] type = "LINES" -> Len(KeptVertices(type, t)) \div 2
      [] type = "POLYLIST" -> Len(vcounts)
      [] OTHER -> FacesUpTo(type, vcounts)[Len(vcounts)]
CountedUpTo(vcounts) ==
    LET sum[n \in 0 .. Len(vcounts)] ==
            IF n = 0 THEN 0 ELSE sum[n - 1] + (IF vcounts[n] > 0 THEN vcounts[n] ELSE -vcounts[n])
    IN  sum
CountedVertices(vcounts) == CountedUpTo(vcounts)[Len(vcounts)]
TakenBack(type, t) == \E i \in DOMAIN t : t[i].length > 0 /\ ~Kept(type, t, i)

\* A primitive of the mesh has the vertices of the text in their order, in every one of its index
\* lists, but for strips that are too short and holes without outline; its counts are those of the
\* strips, polygons and holes that are kept, and a primitive is left out only if it has no face.
\* Tangents and binormals are like this only if no strip was too short: end__p() (line 1476) takes
\* nothing back from their lists.
IndicesAreTheText ==
    /\ result.appended =>
        /\ \A i \in DOMAIN result.uses :
              LET use == result.uses[i]
                  kept == KeptVertices(result.type, text)
              IN  \/ use.list \in {"TEXTANGENT", "TEXBINORMAL"} /\ TakenBack(result.type, text)
                  \/ result.indices[i] =
                        [k \in DOMAIN kept |-> Number(kept[k], use.offset) + use.initial]
        /\ result.type # "POLYLIST" => result.vcounts = Groups(result.type, text)
        /\ result.faces = FacesOf(result.type, text, result.vcounts)
        /\ CountedVertices(result.vcounts) <= Len(result.indices[1])
    /\ (element = "mesh" /\ ~result.appended /\ result.type \notin {"NONE", "POLYLIST"}) =>
        FacesOf(result.type, text, Groups(result.type, text)) = 0

\* The values of the first n sources of a list, each as <<source, number of the value>>
ContentUpTo(list) ==
    LET content[n \in 0 .. Len(list)] ==
            IF n = 0 THEN << >>
            ELSE content[n - 1] \o [k \in 1 .. Stride[list[n]] * Count[list[n]] |-> <<list[n], k - 1>>]
    IN  content
Content(list) == ContentUpTo(list)[Len(list)]
\* A source that one semantic only has loaded, with a stride that is taken, and behind a whole number
\* of elements of its own stride, as in a list of sources with one stride.  No values are before the
\* positions: their offset is not divided by the stride.
Plain(use) ==
    /\ loaded[use.source] = {use.list} /\ Stride[use.source] \in StridesFor(use.list)
    /\ \A k \in DOMAIN values[use.list] :
          LET before == ValuesUpTo(values[use.list])[k - 1]
          IN  values[use.list][k] = use.source =>
                 before % Stride[use.source] = 0 /\ (use.list = "POSITION" => before = 0)

\* Element 0 of an input's source is found in the list of values where the indices of the input have
\* been moved to, whichever sources the mesh's earlier primitives loaded, and in which order.  Left out
\* are sources that two semantics use, which share one mInitialIndex, sources behind others of another
\* stride if the division of the offset has a remainder, and positions from a second source.
IndicesFindTheirSource ==
    result.appended =>
        \A i \in DOMAIN result.uses :
            LET use == result.uses[i]
            IN  Plain(use) /\ Count[use.source] > 0 =>
                  LET at == use.initial * Stride[use.source] + 1
                  IN  at <= Len(Content(values[use.list])) /\ Content(values[use.list])[at] = <<use.source, 0>>
=============================================================================

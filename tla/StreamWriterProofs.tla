------------------------- MODULE StreamWriterProofs -------------------------
(***************************************************************************)
(* The text a StreamWriter has written is well-formed at every moment, for *)
(* every set of names and every number of elements.  The invariant joins   *)
(* what the writer remembers (the stack of open tags) with what a reader   *)
(* knows (the elements it has seen opened and not closed).                 *)
(***************************************************************************)
EXTENDS StreamWriter, SequenceTheorems, TLAPS

IInv == TypeOK /\ WellFormed /\ StackOrdered /\ ValuesSeparated

AnyName == Name \union {Root}
Kind == {"markup", "space", "value", "block"}
ReaderType == [open : Seq(AnyName), inTag : BOOLEAN, last : Kind, bad : BOOLEAN, glued : BOOLEAN]

\* Two stacks with the same elements; contents and text may differ.
SameElements(s, t) ==
    /\ Len(s) = Len(t)
    /\ \A i \in 1 .. Len(t) : s[i].name = t[i].name /\ s[i].index = t[i].index

LEMMA OpenTagType ==
    ASSUME NEW name \in AnyName, NEW index \in Nat, NEW c \in BOOLEAN, NEW t \in BOOLEAN
    PROVE  /\ OpenTag(name, index, c, t) \in Tag
           /\ OpenTag(name, index, c, t).name = name
           /\ OpenTag(name, index, c, t).index = index
           /\ OpenTag(name, index, c, t).hasContents = c
           /\ OpenTag(name, index, c, t).hasText = t
  BY DEF OpenTag, Tag, AnyName

LEMMA StackType ==
    ASSUME TypeOK
    PROVE  /\ openTags \in Seq(Tag) /\ Depth \in Nat
           /\ \A i \in 1 .. Depth : /\ openTags[i] \in Tag
                                    /\ openTags[i].name \in AnyName
                                    /\ openTags[i].index \in Nat
                                    /\ openTags[i].hasContents \in BOOLEAN
                                    /\ openTags[i].hasText \in BOOLEAN
           /\ openTags # << >> <=> Depth > 0
           /\ reader \in ReaderType
<1>1. openTags \in Seq(Tag) /\ Depth \in Nat /\ (openTags # << >> <=> Depth > 0)
  BY DEF TypeOK, Depth
<1>2. \A i \in 1 .. Depth : openTags[i] \in Tag
  BY <1>1 DEF Depth
<1>3. \A t \in Tag : /\ t.name \in AnyName /\ t.index \in Nat
                     /\ t.hasContents \in BOOLEAN /\ t.hasText \in BOOLEAN
  BY DEF Tag, AnyName
<1>4. reader \in ReaderType
  BY DEF TypeOK, ReaderType, AnyName, Kind
<1> QED BY <1>1, <1>2, <1>3, <1>4

\* Giving the top tag new flags changes nothing else.
LEMMA TopReplaced ==
    ASSUME TypeOK, openTags # << >>, NEW c \in BOOLEAN, NEW t \in BOOLEAN
    PROVE  /\ Flagged(c, t) \in Seq(Tag) /\ SameElements(Flagged(c, t), openTags)
           /\ Flagged(c, t)[Depth].hasContents = c /\ Flagged(c, t)[Depth].hasText = t
           /\ \A i \in 1 .. Depth - 1 : Flagged(c, t)[i] = openTags[i]
<1> DEFINE s == Flagged(c, t)  o == OpenTag(Top.name, Top.index, c, t)
<1>1. Depth \in 1 .. Depth /\ Depth \in Nat /\ openTags \in Seq(Tag)
  BY StackType
<1>2. o \in Tag /\ o.name = Top.name /\ o.index = Top.index /\ o.hasContents = c /\ o.hasText = t
  <2>1. Top.name \in AnyName /\ Top.index \in Nat
    BY <1>1, StackType DEF Top
  <2> QED BY <2>1, OpenTagType
<1>3. s = [openTags EXCEPT ![Depth] = o]
  BY DEF Flagged
<1> HIDE DEF s, o
<1>4. /\ s \in Seq(Tag) /\ Len(s) = Depth /\ s[Depth] = o
      /\ \A i \in 1 .. Depth : i # Depth => s[i] = openTags[i]
  BY <1>1, <1>2, <1>3 DEF Depth
<1>5. \A i \in 1 .. Depth - 1 : s[i] = openTags[i]
  BY <1>1, <1>4
<1>6. SameElements(s, openTags)
  BY <1>1, <1>2, <1>4 DEF SameElements, Top, Depth
<1> QED BY <1>2, <1>4, <1>5, <1>6 DEF s

\* prepareToAddContents closes the start tag of the top element, for the
\* writer and for the reader.
LEMMA PreparedStack ==
    ASSUME IInv
    PROVE  /\ Prepared \in Seq(Tag) /\ SameElements(Prepared, openTags)
           /\ \A i \in 1 .. Depth : Prepared[i].hasContents
           /\ \A i \in 1 .. Depth : Prepared[i].hasText = openTags[i].hasText
<1>1. \A i \in 1 .. Depth - 1 : openTags[i].hasContents
  BY DEF IInv, WellFormed
<1>2. TypeOK
  BY DEF IInv
<1>3. CASE NeedsTagEnd
  <2>1. Prepared = Flagged(TRUE, Top.hasText)
    BY <1>3 DEF Prepared
  <2>2. Depth \in Nat /\ Depth > 0 /\ Top.hasText \in BOOLEAN /\ openTags # << >>
    BY <1>2, <1>3, StackType DEF NeedsTagEnd, Top
  <2>3. /\ Prepared \in Seq(Tag) /\ SameElements(Prepared, openTags)
        /\ Prepared[Depth].hasContents = TRUE /\ Prepared[Depth].hasText = Top.hasText
        /\ \A i \in 1 .. Depth - 1 : Prepared[i] = openTags[i]
    BY <1>2, <2>1, <2>2, TopReplaced
  <2>4. ASSUME NEW i \in 1 .. Depth
        PROVE  Prepared[i].hasContents /\ Prepared[i].hasText = openTags[i].hasText
    <3>1. i = Depth \/ i \in 1 .. Depth - 1
      BY <2>2
    <3> QED BY <3>1, <2>3, <1>1 DEF Top
  <2> QED BY <2>3, <2>4
<1>4. CASE ~ NeedsTagEnd
  <2>1. Prepared = openTags
    BY <1>4 DEF Prepared
  <2>2. ASSUME NEW i \in 1 .. Depth PROVE openTags[i].hasContents
    <3>1. Depth \in Nat /\ Depth > 0 /\ openTags # << >>
      BY <1>2, StackType
    <3>2. i = Depth \/ i \in 1 .. Depth - 1
      BY <3>1
    <3> QED BY <3>1, <3>2, <1>1, <1>4 DEF NeedsTagEnd, Top
  <2> QED BY <2>1, <2>2, <1>2, StackType DEF SameElements, Depth
<1> QED BY <1>3, <1>4

\* A reader that has seen r is in the contents of the elements that `reader'
\* has open, and has found nothing wrong.
InContents(r) == /\ r \in ReaderType /\ r.open = reader.open
                 /\ ~ r.inTag /\ ~ r.bad /\ ~ r.glued

LEMMA PreparedReaderInContents ==
    ASSUME IInv
    PROVE  InContents(PreparedReader) /\ PreparedReader.last \in {"markup", reader.last}
<1>1. reader \in ReaderType /\ ~ reader.bad /\ ~ reader.glued /\ (reader.inTag <=> NeedsTagEnd)
  BY StackType DEF IInv, WellFormed, ValuesSeparated
<1> QED BY <1>1 DEF PreparedReader, ReadTagEnd, Reader, InContents, ReaderType, Kind

\* Reading a space, text or a value in the contents of an element.
LEMMA ReadInContents ==
    ASSUME NEW r, InContents(r)
    PROVE  /\ InContents(ReadSpace(r)) /\ ReadSpace(r).last = "space"
           /\ reader.open # << >> =>
                 /\ \A kind \in Kind : InContents(ReadText(r, kind))
                                       /\ ReadText(r, kind).last = kind
                 /\ r.last # "value" =>
                       InContents(ReadValue(r)) /\ ReadValue(r).last = "value"
BY DEF InContents, ReaderType, Kind, ReadSpace, ReadText, ReadValue, Reader

-----------------------------------------------------------------------------
\* A step that adds contents to the top element.
AddsContents ==
    /\ openTags' \in Seq(Tag) /\ SameElements(openTags', openTags)
    /\ \A i \in 1 .. Depth : openTags'[i].hasContents
    /\ InContents(reader')
    /\ reader'.last = "value" => Depth > 0 /\ openTags'[Depth].hasText
    /\ level' = level /\ closer' = NoCloser
    /\ nextIndex' \in nextIndex .. MaxElements

LEMMA AddingContents ==
    ASSUME IInv, AddsContents
    PROVE  IInv'
<1>1. /\ openTags \in Seq(Tag) /\ Depth \in Nat /\ Depth' = Depth
      /\ (openTags' # << >> <=> Depth > 0) /\ openTags' \in Seq(Tag)
      /\ \A i \in 1 .. Depth : openTags[i].index \in Nat
  BY StackType DEF IInv, AddsContents, SameElements, Depth
<1>2. nextIndex \in Nat /\ nextIndex' \in Nat /\ nextIndex' \in 0 .. MaxElements
      /\ nextIndex <= nextIndex' /\ MaxElements \in Nat
  BY NamesAssumption DEF IInv, AddsContents, TypeOK
<1>3. TypeOK'
  BY <1>1, <1>2 DEF IInv, TypeOK, AddsContents, InContents, ReaderType, AnyName, Kind
<1>4. WellFormed'
  <2>1. ~ NeedsTagEnd'
    BY <1>1 DEF NeedsTagEnd, Top, AddsContents
  <2> QED BY <1>1, <2>1 DEF IInv, WellFormed, AddsContents, InContents, SameElements, Depth
<1>5. StackOrdered'
  <2>1. \A i \in 1 .. Depth : openTags'[i].index = openTags[i].index
    BY DEF AddsContents, SameElements, Depth
  <2>2. /\ \A i, j \in 1 .. Depth : i < j => openTags[i].index < openTags[j].index
        /\ \A i \in 1 .. Depth : openTags[i].index < nextIndex
        /\ level = Depth
    BY DEF IInv, StackOrdered
  <2>3. \A i \in 1 .. Depth : openTags[i].index < nextIndex'
    BY <1>1, <1>2, <2>2
  <2> QED BY <1>1, <2>1, <2>2, <2>3 DEF StackOrdered, AddsContents
<1>6. ValuesSeparated'
  BY <1>1 DEF ValuesSeparated, AddsContents, InContents, Top
<1> QED BY <1>3, <1>4, <1>5, <1>6 DEF IInv

\* The space in front of values, where it is written, follows any text.
LEMMA SeparatedReader ==
    ASSUME IInv, openTags # << >>
    PROVE  InContents(Separated) /\ Separated.last # "value" /\ reader.open # << >>
<1>1. Top.hasText => InContents(Separated) /\ Separated.last = "space"
  BY PreparedReaderInContents, ReadInContents DEF Separated
<1>2. ~ Top.hasText => reader.last # "value"
  BY DEF IInv, ValuesSeparated
<1>3. ~ Top.hasText => InContents(Separated) /\ Separated.last # "value"
  BY <1>2, PreparedReaderInContents DEF Separated
<1>4. Len(reader.open) = Depth /\ Depth > 0
  BY StackType DEF IInv, WellFormed
<1> QED BY <1>1, <1>3, <1>4

LEMMA WithTextStack ==
    ASSUME IInv, openTags # << >>
    PROVE  /\ WithText \in Seq(Tag) /\ SameElements(WithText, openTags)
           /\ \A i \in 1 .. Depth : WithText[i].hasContents
           /\ Depth > 0 /\ WithText[Depth].hasText
<1>1. TypeOK /\ Depth \in Nat /\ Depth > 0
  BY StackType DEF IInv
<1>2. /\ WithText \in Seq(Tag) /\ SameElements(WithText, openTags)
      /\ WithText[Depth].hasContents = TRUE /\ WithText[Depth].hasText = TRUE
      /\ \A i \in 1 .. Depth - 1 : WithText[i] = openTags[i]
  BY <1>1, TopReplaced DEF WithText
<1>3. \A i \in 1 .. Depth - 1 : openTags[i].hasContents
  BY DEF IInv, WellFormed
<1>4. \A i \in 1 .. Depth : i = Depth \/ i \in 1 .. Depth - 1
  BY <1>1
<1> QED BY <1>1, <1>2, <1>3, <1>4

LEMMA SameIndex ==
    ASSUME IInv, nextIndex' = nextIndex
    PROVE  nextIndex' \in nextIndex .. MaxElements
BY NamesAssumption DEF IInv, TypeOK

LEMMA AppendTextStep == IInv /\ AppendText => IInv'
<1> SUFFICES ASSUME IInv, AppendText PROVE AddsContents
  BY AddingContents
<1>1. InContents(reader')
  BY PreparedReaderInContents, SeparatedReader, ReadInContents DEF AppendText, Kind
<1> QED BY <1>1, WithTextStack, SameIndex DEF AppendText, AddsContents

LEMMA AppendTextBlockStep == IInv /\ AppendTextBlock => IInv'
<1> SUFFICES ASSUME IInv, AppendTextBlock PROVE AddsContents
  BY AddingContents
<1>1. InContents(ReadSpace(PreparedReader)) /\ reader.open # << >>
  BY PreparedReaderInContents, SeparatedReader, ReadInContents DEF AppendTextBlock
<1>2. InContents(reader') /\ reader'.last = "block"
  BY <1>1, ReadInContents DEF AppendTextBlock, Kind
<1> QED BY <1>2, PreparedStack, SameIndex DEF AppendTextBlock, AddsContents

LEMMA AppendValuesStep ==
    ASSUME IInv, NEW many \in BOOLEAN, AppendValues(many)
    PROVE  IInv'
<1> DEFINE first == ReadValue(Separated)  space == ReadSpace(first)  second == ReadValue(space)
<1>1. InContents(first) /\ reader.open # << >>
  BY SeparatedReader, ReadInContents DEF AppendValues
<1>2. InContents(space) /\ space.last = "space"
  BY <1>1, ReadInContents
<1> HIDE DEF space
<1>3. InContents(second)
  BY <1>1, <1>2, ReadInContents
<1>4. InContents(reader')
  BY <1>1, <1>3 DEF AppendValues, space
<1>5. AddsContents
  BY <1>4, WithTextStack, SameIndex DEF AppendValues, AddsContents
<1> QED BY <1>5, AddingContents

LEMMA AppendArrayStep ==
    ASSUME IInv, NEW empty \in BOOLEAN, AppendArray(empty)
    PROVE  IInv'
<1>1. InContents(ReadValue(Separated)) /\ InContents(Separated)
  BY SeparatedReader, ReadInContents DEF AppendArray
<1>2. InContents(ReadSpace(ReadValue(Separated)))
  BY <1>1, ReadInContents
<1>3. InContents(reader')
  BY <1>1, <1>2 DEF AppendArray
<1>4. AddsContents
  BY <1>3, WithTextStack, SameIndex DEF AppendArray, AddsContents
<1> QED BY <1>4, AddingContents

-----------------------------------------------------------------------------
\* The start tag of a new element in the contents of the top element, or of
\* the root.
LEMMA OpenedReader ==
    ASSUME IInv, NEW name \in AnyName, openTags # << >> \/ nextIndex = 0
    PROVE  /\ Opened(name) \in ReaderType
           /\ Opened(name).open = Append(reader.open, name)
           /\ Opened(name).inTag /\ ~ Opened(name).bad /\ ~ Opened(name).glued
           /\ Opened(name).last = "markup"
<1> DEFINE r == ReadSpace(PreparedReader)
<1>1. InContents(r)
  BY PreparedReaderInContents, ReadInContents
<1>2. reader.open = << >> => nextIndex = 0
  BY StackType DEF IInv, WellFormed
<1> HIDE DEF r
<1>3. Opened(name) = ReadStart(r, name, nextIndex = 0)
  BY DEF Opened, r
<1> QED BY <1>1, <1>2, <1>3 DEF InContents, ReadStart, Reader, ReaderType, Kind

\* A step that pushes an element whose start tag is not ended.
PushesElement(name) ==
    /\ openTags' = Append(Prepared, OpenTag(name, nextIndex, FALSE, FALSE))
    /\ level' = level + 1 /\ nextIndex' = nextIndex + 1 /\ nextIndex < MaxElements
    /\ reader' \in ReaderType /\ reader'.open = Append(reader.open, name)
    /\ reader'.inTag /\ ~ reader'.bad /\ ~ reader'.glued /\ reader'.last = "markup"
    /\ closer' = NoCloser

LEMMA PushingElement ==
    ASSUME IInv, NEW name \in AnyName, PushesElement(name)
    PROVE  IInv'
<1> DEFINE o == OpenTag(name, nextIndex, FALSE, FALSE)
<1>1. /\ Prepared \in Seq(Tag) /\ SameElements(Prepared, openTags)
      /\ \A i \in 1 .. Depth : Prepared[i].hasContents
      /\ Depth \in Nat /\ nextIndex \in Nat /\ nextIndex + 1 <= MaxElements
      /\ MaxElements \in Nat
  BY PreparedStack, StackType, NamesAssumption DEF IInv, TypeOK, PushesElement
<1>2. o \in Tag /\ o.name = name /\ o.index = nextIndex /\ ~ o.hasContents /\ ~ o.hasText
  BY <1>1, OpenTagType
<1> HIDE DEF o
<1>3. /\ openTags' \in Seq(Tag) /\ Depth' = Depth + 1 /\ openTags'[Depth + 1] = o
      /\ \A i \in 1 .. Depth : openTags'[i] = Prepared[i]
  <2>1. openTags' = Append(Prepared, o) /\ Len(Prepared) = Depth
    BY <1>1 DEF PushesElement, SameElements, Depth, o
  <2>2. /\ Append(Prepared, o) \in Seq(Tag)
        /\ Len(Append(Prepared, o)) = Depth + 1
        /\ Append(Prepared, o)[Depth + 1] = o
        /\ \A i \in 1 .. Depth : Append(Prepared, o)[i] = Prepared[i]
    BY <1>1, <1>2, <2>1, AppendProperties
  <2> QED BY <2>1, <2>2 DEF Depth
<1>4. \A i \in 1 .. Depth + 1 : i = Depth + 1 \/ i \in 1 .. Depth
  BY <1>1
<1>9. nextIndex' = nextIndex + 1
  BY DEF PushesElement
<1>5. TypeOK'
  <2>1. level' \in Nat /\ nextIndex' \in 0 .. MaxElements
    BY <1>1 DEF IInv, TypeOK, PushesElement
  <2>2. reader' \in ReaderType /\ closer' = NoCloser
    BY DEF PushesElement
  <2> QED BY <1>3, <2>1, <2>2 DEF TypeOK, ReaderType, AnyName, Kind
<1>6. WellFormed'
  <2>1. NeedsTagEnd'
    <3>1. Top' = o
      BY <1>3 DEF Top
    <3>2. (openTags # << >>)'
      BY <1>1, <1>3 DEF Depth
    <3> QED BY <1>2, <3>1, <3>2 DEF NeedsTagEnd
  <2>2. /\ Len(reader.open) = Depth /\ reader.open \in Seq(AnyName)
        /\ \A i \in 1 .. Depth : reader.open[i] = openTags[i].name
    BY StackType DEF IInv, WellFormed, ReaderType
  <2>3. /\ Len(reader'.open) = Depth + 1 /\ reader'.open[Depth + 1] = name
        /\ \A i \in 1 .. Depth : reader'.open[i] = reader.open[i]
    BY <1>1, <2>2 DEF PushesElement
  <2>4. \A i \in 1 .. Depth : openTags'[i].name = openTags[i].name
    BY <1>1, <1>3 DEF SameElements, Depth
  <2>5. \A i \in 1 .. Depth + 1 : reader'.open[i] = openTags'[i].name
    BY <1>2, <1>3, <1>4, <2>2, <2>3, <2>4
  <2>6. \A i \in 1 .. Depth' - 1 : openTags'[i].hasContents
    BY <1>1, <1>3
  <2> QED BY <1>3, <2>1, <2>3, <2>5, <2>6 DEF WellFormed, PushesElement
<1>7. StackOrdered'
  <2>1. \A i \in 1 .. Depth : openTags'[i].index = openTags[i].index /\ openTags[i].index \in Nat
    BY <1>1, <1>3, StackType DEF SameElements, Depth, IInv
  <2>2. /\ \A i, j \in 1 .. Depth : i < j => openTags[i].index < openTags[j].index
        /\ \A i \in 1 .. Depth : openTags[i].index < nextIndex
        /\ level = Depth
    BY DEF IInv, StackOrdered
  <2>3. \A i \in 1 .. Depth + 1 : openTags'[i].index < nextIndex'
    <3>1. openTags'[Depth + 1].index < nextIndex'
      BY <1>1, <1>2, <1>3, <1>9
    <3>2. ASSUME NEW i \in 1 .. Depth PROVE openTags'[i].index < nextIndex'
      BY <1>1, <2>1, <2>2, <1>9
    <3> QED BY <1>4, <3>1, <3>2
  <2>4. ASSUME NEW i \in 1 .. Depth + 1, NEW j \in 1 .. Depth + 1, i < j
        PROVE  openTags'[i].index < openTags'[j].index
    <3>1. i \in 1 .. Depth
      BY <1>1, <2>4
    <3>2. CASE j = Depth + 1
      BY <3>1, <3>2, <1>2, <1>3, <2>1, <2>2
    <3>3. CASE j \in 1 .. Depth
      BY <3>1, <3>3, <2>1, <2>2, <2>4
    <3> QED BY <3>2, <3>3, <1>4
  <2>5. level' = Depth'
    BY <1>3, <2>2 DEF PushesElement
  <2> QED BY <1>3, <2>3, <2>4, <2>5 DEF StackOrdered
<1>8. ValuesSeparated'
  BY DEF ValuesSeparated, PushesElement
<1> QED BY <1>5, <1>6, <1>7, <1>8 DEF IInv

LEMMA OpenElementStep ==
    ASSUME IInv, NEW name \in Name, openTags # << >>, OpenElement(name)
    PROVE  IInv'
<1>1. name \in AnyName
  BY DEF AnyName
<1>2. PushesElement(name)
  BY <1>1, OpenedReader DEF OpenElement, PushesElement
<1> QED BY <1>1, <1>2, PushingElement

LEMMA StartDocumentStep == IInv /\ StartDocument => IInv'
<1> SUFFICES ASSUME IInv, StartDocument PROVE IInv'
  OBVIOUS
<1>1. Root \in AnyName /\ nextIndex = 0
  BY DEF AnyName, StartDocument
<1>2. openTags = << >> /\ Prepared = << >>
  <2>1. \A i \in 1 .. Depth : openTags[i].index \in Nat /\ openTags[i].index < 0
    BY <1>1, StackType DEF IInv, StackOrdered
  <2>2. Depth \in Nat /\ (openTags # << >> <=> Depth > 0)
    BY StackType DEF IInv
  <2>3. ~ (Depth > 0)
    BY <2>1, <2>2
  <2> QED BY <2>2, <2>3 DEF Prepared, NeedsTagEnd
<1>3. openTags' = Append(Prepared, OpenTag(Root, nextIndex, FALSE, FALSE))
  BY <1>1, <1>2 DEF StartDocument
<1>4. /\ reader' \in ReaderType /\ reader'.open = Append(reader.open, Root)
      /\ reader'.inTag /\ ~ reader'.bad /\ ~ reader'.glued /\ reader'.last = "markup"
  <2>1. reader' = ReadAttribute(Opened(Root))
    BY DEF StartDocument
  <2> QED BY <1>1, <2>1, OpenedReader DEF ReadAttribute, Reader, ReaderType, Kind
<1>5. PushesElement(Root)
  <2>1. nextIndex < MaxElements /\ nextIndex' = nextIndex + 1
    BY <1>1, NamesAssumption DEF StartDocument
  <2> QED BY <1>3, <1>4, <2>1 DEF StartDocument, PushesElement
<1> QED BY <1>1, <1>5, PushingElement

LEMMA AppendAttributeStep == IInv /\ AppendAttribute => IInv'
<1> SUFFICES ASSUME IInv, AppendAttribute PROVE IInv'
  OBVIOUS
<1>1. reader \in ReaderType /\ reader.inTag
  BY StackType DEF IInv, WellFormed, AppendAttribute, NeedsTagEnd
<1>2. /\ reader' \in ReaderType /\ reader'.open = reader.open /\ reader'.last = "markup"
      /\ reader'.inTag = reader.inTag /\ reader'.bad = reader.bad /\ reader'.glued = reader.glued
  BY <1>1 DEF AppendAttribute, ReadAttribute, Reader, ReaderType, Kind
<1>3. TypeOK'
  BY <1>2 DEF IInv, TypeOK, AppendAttribute, ReaderType, AnyName, Kind
<1>4. WellFormed'
  BY <1>2 DEF IInv, WellFormed, AppendAttribute, NeedsTagEnd, Top, Depth
<1>5. StackOrdered' /\ ValuesSeparated'
  BY <1>2 DEF IInv, StackOrdered, ValuesSeparated, AppendAttribute, Depth
<1> QED BY <1>3, <1>4, <1>5 DEF IInv

-----------------------------------------------------------------------------
\* The ends that closeElement writes are those that the reader waits for.
LEMMA EndsAreExpected ==
    ASSUME IInv, NEW k \in 1 .. Depth
    PROVE  /\ ReadEnds(reader, Ends(k)) \in ReaderType
           /\ ReadEnds(reader, Ends(k)).open = SubSeq(reader.open, 1, Depth - k)
           /\ ~ ReadEnds(reader, Ends(k)).inTag /\ ~ ReadEnds(reader, Ends(k)).bad
           /\ ~ ReadEnds(reader, Ends(k)).glued
           /\ ReadEnds(reader, Ends(k)).last = "markup"
<1> DEFINE e == Ends(k)
<1>1. /\ reader \in ReaderType /\ Depth \in Nat /\ Depth > 0 /\ openTags # << >>
      /\ Len(reader.open) = Depth /\ ~ reader.bad /\ ~ reader.glued
      /\ (reader.inTag <=> NeedsTagEnd) /\ reader.open \in Seq(AnyName)
  BY StackType DEF IInv, WellFormed, ValuesSeparated, ReaderType
<1>2. Len(e) = k /\ \A i \in 1 .. k : /\ e[i].empty = ~ openTags[Depth + 1 - i].hasContents
                                       /\ e[i].name = openTags[Depth + 1 - i].name
  BY DEF Ends
<1>3. \A i \in 1 .. k : e[i].name = reader.open[Depth + 1 - i]
  <2>1. \A i \in 1 .. k : Depth + 1 - i \in 1 .. Depth
    BY <1>1
  <2> QED BY <2>1, <1>2 DEF IInv, WellFormed
<1>4. \A i \in 2 .. k : ~ e[i].empty
  <2>1. \A i \in 2 .. k : Depth + 1 - i \in 1 .. Depth - 1 /\ i \in 1 .. k
    BY <1>1
  <2> QED BY <2>1, <1>2 DEF IInv, WellFormed
<1>5. e[1].empty = reader.inTag
  <2>1. 1 \in 1 .. k /\ Depth + 1 - 1 = Depth
    BY <1>1
  <2>2. e[1].empty = ~ Top.hasContents
    BY <1>2, <2>1 DEF Top
  <2>3. reader.inTag = ~ Top.hasContents
    BY <1>1, StackType DEF NeedsTagEnd, IInv, Top, ReaderType
  <2> QED BY <2>2, <2>3
<1>6. SubSeq(reader.open, 1, Depth - k) \in Seq(AnyName)
  BY <1>1, SubSeqProperties
<1> DEFINE bad == \/ reader.bad
                  \/ Len(e) > Len(reader.open)
                  \/ e[1].empty # reader.inTag
                  \/ \E i \in 2 .. Len(e) : e[i].empty
                  \/ \E i \in 1 .. Len(e) : /\ ~ e[i].empty
                                             /\ e[i].name # reader.open[Len(reader.open) + 1 - i]
<1>7. bad = FALSE
  BY <1>1, <1>2, <1>3, <1>4, <1>5
<1>8. ReadEnds(reader, e) = Reader(SubSeq(reader.open, 1, Len(reader.open) - Len(e)),
                                   FALSE, "markup", bad, reader.glued)
  BY DEF ReadEnds
<1> HIDE DEF bad, e
<1>9. ReadEnds(reader, e) = Reader(SubSeq(reader.open, 1, Depth - k),
                                   FALSE, "markup", FALSE, reader.glued)
  BY <1>1, <1>2, <1>7, <1>8
<1>10. reader.glued \in BOOLEAN
  BY <1>1 DEF ReaderType
<1> QED BY <1>1, <1>6, <1>9, <1>10 DEF Reader, ReaderType, Kind, e

LEMMA ClosingElements ==
    ASSUME IInv, NEW k \in 1 .. Depth, Close(k), closer' \in Nat \union {NoCloser}
    PROVE  IInv'
<1>1. /\ openTags \in Seq(Tag) /\ Depth \in Nat /\ Depth - k \in Nat
      /\ Depth - k <= Depth - 1 /\ 1 .. Depth - k \subseteq 1 .. Depth
      /\ 1 .. Depth - k \subseteq 1 .. Depth - 1
  BY StackType DEF IInv
<1>2. /\ openTags' \in Seq(Tag) /\ Depth' = Depth - k
      /\ \A i \in 1 .. Depth - k : openTags'[i] = openTags[i]
  <2>1. openTags' = SubSeq(openTags, 1, Depth - k) /\ Len(openTags) = Depth
    BY DEF Close, Depth
  <2> QED BY <1>1, <2>1, SubSeqProperties DEF Depth
<1>3. /\ reader' \in ReaderType /\ reader'.open = SubSeq(reader.open, 1, Depth - k)
      /\ ~ reader'.inTag /\ ~ reader'.bad /\ ~ reader'.glued /\ reader'.last = "markup"
  BY EndsAreExpected DEF Close
<1>4. /\ Len(reader'.open) = Depth - k
      /\ \A i \in 1 .. Depth - k : reader'.open[i] = reader.open[i]
  <2>1. reader.open \in Seq(AnyName) /\ Len(reader.open) = Depth
    BY StackType DEF IInv, WellFormed, ReaderType
  <2> QED BY <1>1, <1>3, <2>1, SubSeqProperties
<1>5. level' = Depth - k /\ nextIndex' = nextIndex
  BY DEF IInv, StackOrdered, Close
<1>6. TypeOK'
  BY <1>1, <1>2, <1>3, <1>5 DEF IInv, TypeOK, ReaderType, AnyName, Kind
<1>7. \A i \in 1 .. Depth' : openTags'[i].hasContents
  BY <1>1, <1>2 DEF IInv, WellFormed
<1>8. WellFormed'
  <2>1. ~ NeedsTagEnd'
    <3>1. (openTags # << >>)' => Depth' \in 1 .. Depth'
      BY <1>1, <1>2 DEF Depth
    <3> QED BY <3>1, <1>7 DEF NeedsTagEnd, Top
  <2>2. \A i \in 1 .. Depth' : reader'.open[i] = openTags'[i].name
    BY <1>1, <1>2, <1>4 DEF IInv, WellFormed
  <2>3. 1 .. Depth' - 1 \subseteq 1 .. Depth'
    BY <1>1, <1>2
  <2> QED BY <1>2, <1>3, <1>4, <1>7, <2>1, <2>2, <2>3 DEF WellFormed
<1>9. StackOrdered'
  BY <1>1, <1>2, <1>5 DEF IInv, StackOrdered
<1>10. ValuesSeparated'
  BY <1>3 DEF ValuesSeparated
<1> QED BY <1>6, <1>8, <1>9, <1>10 DEF IInv

LEMMA CloseElementsStep ==
    ASSUME IInv, NEW index \in 0 .. nextIndex - 1, CloseElements(index)
    PROVE  IInv'
<1>1. nextIndex \in Nat
  BY NamesAssumption DEF IInv, TypeOK
<1>2. closer' \in Nat
  BY <1>1 DEF CloseElements
<1>3. CASE \E k \in 1 .. Depth : Close(k)
  BY <1>2, <1>3, ClosingElements
<1>4. CASE UNCHANGED <<openTags, level, nextIndex, reader>>
  BY <1>2, <1>4 DEF IInv, TypeOK, WellFormed, StackOrdered, ValuesSeparated,
                    NeedsTagEnd, Top, Depth
<1> QED BY <1>3, <1>4 DEF CloseElements

LEMMA AppendTextElementStep ==
    ASSUME IInv, NEW name \in Name, AppendTextElement(name)
    PROVE  IInv'
<1> DEFINE start == Opened(name)  text == ReadText(ReadTagEnd(start), "value")
<1>1. name \in AnyName /\ openTags # << >>
  BY DEF AppendTextElement, AnyName
<1>2. /\ reader \in ReaderType /\ reader.open \in Seq(AnyName)
      /\ start \in ReaderType /\ start.open = Append(reader.open, name)
      /\ start.inTag /\ ~ start.bad /\ ~ start.glued
  BY <1>1, OpenedReader, StackType DEF IInv, ReaderType
<1> HIDE DEF start
<1>3. /\ text \in ReaderType /\ text.open = Append(reader.open, name)
      /\ ~ text.inTag /\ ~ text.bad /\ ~ text.glued
  <2>1. Append(reader.open, name) # << >>
    BY <1>1, <1>2
  <2> QED BY <1>2, <2>1 DEF ReadText, ReadTagEnd, Reader, ReaderType, Kind
<1> HIDE DEF text
<1>4. /\ Len(text.open) = Len(reader.open) + 1
      /\ text.open[Len(text.open)] = name
      /\ SubSeq(text.open, 1, Len(text.open) - 1) = reader.open
  BY <1>1, <1>2, <1>3, AppendProperties
<1>5. reader' = ReadEnds(text, << [empty |-> FALSE, name |-> name] >>)
  BY DEF AppendTextElement, text, start
<1>6. InContents(reader') /\ reader'.last = "markup"
  <2> DEFINE e == << [empty |-> FALSE, name |-> name] >>
             n == Len(text.open)
             bad == \/ text.bad
                    \/ Len(e) > n
                    \/ e[1].empty # text.inTag
                    \/ \E i \in 2 .. Len(e) : e[i].empty
                    \/ \E i \in 1 .. Len(e) : ~ e[i].empty /\ e[i].name # text.open[n + 1 - i]
  <2>1. Len(e) = 1 /\ e[1].empty = FALSE /\ e[1].name = name /\ n \in Nat /\ n > 0
    BY <1>2, <1>4
  <2>2. text.inTag = FALSE
    BY <1>3 DEF ReaderType
  <2>3. reader' = Reader(SubSeq(text.open, 1, n - Len(e)), FALSE, "markup", bad, text.glued)
    BY <1>5 DEF ReadEnds
  <2> HIDE DEF e
  <2>4. n + 1 - 1 = n /\ text.open[n] = name
    BY <1>4, <2>1
  <2>5. bad = FALSE
    <3>1. \A i \in 1 .. Len(e) : i = 1
      BY <2>1
    <3>2. \A i \in 2 .. Len(e) : FALSE
      BY <2>1
    <3>3. \A i \in 1 .. Len(e) : e[i].name = text.open[n + 1 - i]
      BY <3>1, <2>1, <2>4
    <3>4. ~ (Len(e) > n)
      BY <2>1
    <3>5. e[1].empty = text.inTag
      BY <2>1, <2>2
    <3> QED BY <1>3, <3>2, <3>3, <3>4, <3>5
  <2> HIDE DEF bad
  <2>6. reader' = Reader(reader.open, FALSE, "markup", FALSE, text.glued)
    BY <1>4, <2>1, <2>3, <2>5
  <2> QED BY <1>2, <1>3, <2>6 DEF Reader, InContents, ReaderType, Kind
<1>7. nextIndex' \in nextIndex .. MaxElements
  BY NamesAssumption DEF IInv, TypeOK, AppendTextElement
<1>8. AddsContents
  BY <1>6, <1>7, PreparedStack DEF AppendTextElement, AddsContents
<1> QED BY <1>8, AddingContents

LEMMA Inductive == IInv /\ [Next]_vars => IInv'
<1> SUFFICES ASSUME IInv, [Next]_vars PROVE IInv'
  OBVIOUS
<1>1. CASE StartDocument
  BY <1>1, StartDocumentStep
<1>2. ASSUME NEW name \in Name, openTags # << >>, OpenElement(name) \/ AppendTextElement(name)
      PROVE  IInv'
  BY <1>2, OpenElementStep, AppendTextElementStep
<1>3. CASE AppendAttribute \/ AppendText \/ AppendTextBlock
  BY <1>3, AppendAttributeStep, AppendTextStep, AppendTextBlockStep
<1>4. ASSUME NEW several \in BOOLEAN, AppendValues(several) \/ AppendArray(several)
      PROVE  IInv'
  BY <1>4, AppendValuesStep, AppendArrayStep
<1>5. CASE CloseElement \/ EndDocument
  <2>1. 1 \in 1 .. Depth /\ Depth \in 1 .. Depth
    BY <1>5, StackType DEF IInv, CloseElement, EndDocument
  <2> QED BY <1>5, <2>1, ClosingElements DEF CloseElement, EndDocument
<1>6. ASSUME NEW index \in 0 .. nextIndex - 1, CloseElements(index)
      PROVE  IInv'
  BY <1>6, CloseElementsStep
<1>7. CASE UNCHANGED vars
  BY <1>7 DEF vars, IInv, TypeOK, WellFormed, StackOrdered, ValuesSeparated,
              NeedsTagEnd, Top, Depth
<1> QED BY <1>1, <1>2, <1>3, <1>4, <1>5, <1>6, <1>7 DEF Next

LEMMA InitIInv == Init => IInv
BY NamesAssumption DEF Init, IInv, TypeOK, WellFormed, StackOrdered, ValuesSeparated,
   NeedsTagEnd, Depth, NothingRead, Reader

LEMMA Invariance == Spec => []IInv
BY InitIInv, Inductive, PTL DEF Spec

-----------------------------------------------------------------------------
(* The state of a StreamWriter has its types, and what is open in the       *)
(* document and on its stack are names.                                     *)
THEOREM TypesAreRight == Spec => []TypeOK
<1>1. IInv => TypeOK
  BY DEF IInv
<1> QED BY <1>1, Invariance, PTL

(* What a StreamWriter has written is a well-formed beginning of a document *)
(* whose open elements are those on its stack: every element is closed with *)
(* its own name, in order, by /> exactly when nothing was put into it.      *)
THEOREM AlwaysWellFormed == Spec => []WellFormed
<1>1. IInv => WellFormed
  BY DEF IInv
<1> QED BY <1>1, Invariance, PTL

(* The indices of open elements grow towards the top, which is what lets    *)
(* closeElements stop at the first smaller index, and mLevel is the depth.  *)
THEOREM StackAlwaysOrdered == Spec => []StackOrdered
<1>1. IInv => StackOrdered
  BY DEF IInv
<1> QED BY <1>1, Invariance, PTL

(* Values appended by any sequence of calls stay apart, through children    *)
(* opened and closed between them.                                          *)
THEOREM ValuesAlwaysSeparated == Spec => []ValuesSeparated
<1>1. IInv => ValuesSeparated
  BY DEF IInv
<1> QED BY <1>1, Invariance, PTL

(* TagCloser::close keeps the elements opened before its own on the stack,  *)
(* however late it is called, and takes its own, if that is still open, off *)
(* it together with all that were opened later.                             *)
THEOREM ClosersCloseTheirOwn == Spec => CloserClosesOwn
<1>1. IInv /\ [Next]_vars => [ClosesOwn]_vars
  <2> SUFFICES ASSUME IInv, Next, closer' # NoCloser, NEW j \in 1 .. Depth
               PROVE  LET stays == \E i \in 1 .. Depth' : openTags'[i] = openTags[j]
                      IN  /\ openTags[j].index < closer' => stays
                          /\ openTags[j].index >= closer' /\ IsOpen(closer') => ~ stays
    BY DEF ClosesOwn
  <2>1. PICK index \in 0 .. nextIndex - 1 : CloseElements(index)
    BY DEF Next, StartDocument, OpenElement, AppendTextElement, AppendAttribute,
           AppendText, AppendTextBlock, AppendValues, AppendArray, CloseElement, EndDocument
  <2>2. closer' = index
    BY <2>1 DEF CloseElements
  <2>3. /\ openTags \in Seq(Tag) /\ Depth \in Nat
        /\ \A i \in 1 .. Depth : openTags[i].index \in Nat
        /\ \A i, l \in 1 .. Depth : i < l => openTags[i].index < openTags[l].index
    BY StackType DEF IInv, StackOrdered
  <2>4. ASSUME NEW k \in 1 .. Depth, StopsAt(index, k),
               openTags[Depth + 1 - k].index = index, Close(k)
        PROVE  (\E i \in 1 .. Depth' : openTags'[i] = openTags[j]) <=> openTags[j].index < index
    <3>1. /\ Depth' = Depth - k /\ \A i \in 1 .. Depth - k : openTags'[i] = openTags[i]
      <4>1. openTags' = SubSeq(openTags, 1, Depth - k) /\ Depth - k \in 0 .. Len(openTags)
        BY <2>3, <2>4 DEF Close, Depth
      <4> QED BY <2>3, <4>1, SubSeqProperties DEF Depth
    <3>2. Depth + 1 - k \in 1 .. Depth
      BY <2>3
    <3>3. CASE j <= Depth - k
      <4>1. j \in 1 .. Depth' /\ openTags'[j] = openTags[j]
        BY <2>3, <3>1, <3>3
      <4>2. openTags[j].index < index
        BY <2>3, <2>4, <3>2, <3>3
      <4> QED BY <4>1, <4>2
    <3>4. CASE ~ (j <= Depth - k)
      <4>1. ~ (openTags[j].index < index)
        <5>1. j = Depth + 1 - k \/ Depth + 1 - k < j
          BY <2>3, <3>4
        <5>2. openTags[j].index = index \/ index < openTags[j].index
          BY <5>1, <2>3, <2>4, <3>2
        <5>3. openTags[j].index \in Nat /\ index \in Int
          BY <2>3, <2>4, <3>2
        <5> QED BY <5>2, <5>3
      <4>2. \A i \in 1 .. Depth - k : openTags[i].index < openTags[j].index
        <5>1. \A i \in 1 .. Depth - k : i \in 1 .. Depth /\ i < j
          BY <2>3, <3>4
        <5> QED BY <5>1, <2>3
      <4>3. \A i \in 1 .. Depth - k : openTags[i] # openTags[j]
        <5>1. \A i \in 1 .. Depth - k : i \in 1 .. Depth
          BY <2>3
        <5>2. \A m, n \in Nat : m < n => m # n
          OBVIOUS
        <5> QED BY <4>2, <5>1, <5>2, <2>3
      <4> QED BY <3>1, <4>1, <4>3
    <3> QED BY <3>3, <3>4
  <2>5. CASE \E k \in 1 .. Depth : /\ StopsAt(index, k) /\ Close(k)
                                  /\ openTags[Depth + 1 - k].index = index
    <3>1. PICK k \in 1 .. Depth : /\ StopsAt(index, k) /\ Close(k)
                                 /\ openTags[Depth + 1 - k].index = index
      BY <2>5
    <3>2. openTags[j].index \in Nat /\ index \in Int
      BY <2>3
    <3>3. openTags[j].index >= index => ~ (openTags[j].index < index)
      BY <3>2
    <3> QED BY <2>2, <2>4, <3>1, <3>3
  <2>6. CASE /\ \A k \in 1 .. Depth :
                   StopsAt(index, k) => openTags[Depth + 1 - k].index # index
             /\ UNCHANGED openTags
    <3>1. ASSUME NEW i \in 1 .. Depth, openTags[i].index = index PROVE FALSE
      <4>1. Depth + 1 - i \in 1 .. Depth /\ Depth + 1 - (Depth + 1 - i) = i
        BY <2>3
      <4>2. ASSUME NEW l \in 1 .. (Depth + 1 - i) - 1
            PROVE  openTags[Depth + 1 - l].index > index
        <5>1. Depth + 1 - l \in 1 .. Depth /\ i < Depth + 1 - l
          BY <2>3
        <5> QED BY <5>1, <2>3, <3>1
      <4>3. index <= index
        BY <3>1, <2>3
      <4>4. StopsAt(index, Depth + 1 - i)
        BY <3>1, <4>1, <4>2, <4>3 DEF StopsAt
      <4> QED BY <2>6, <3>1, <4>1, <4>4
    <3>2. ~ IsOpen(closer')
      BY <2>2, <3>1 DEF IsOpen
    <3>3. j \in 1 .. Depth' /\ openTags'[j] = openTags[j]
      BY <2>6 DEF Depth
    <3> QED BY <3>2, <3>3
  <2> QED BY <2>1, <2>5, <2>6 DEF CloseElements
<1> QED BY <1>1, Invariance, PTL DEF Spec, CloserClosesOwn
=============================================================================

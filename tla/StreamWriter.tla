---------------------------- MODULE StreamWriter ----------------------------
(***************************************************************************)
(* COLLADASW::StreamWriter and TagCloser: the document is written straight *)
(* to a stream, and what the writer remembers of it is the stack of open   *)
(* tags.  Whether an end tag, a /> or a separating space has to be written *)
(* is decided from two flags per open tag.                                 *)
(*                                                                         *)
(* The characters written are not kept.  An XML reader reads them at once, *)
(* and `reader' is what it has found so far.                               *)
(*                                                                         *)
(* Callers keep to the header's rules: startDocument comes first, one root *)
(* element, attributes only before any content, names that persist until   *)
(* their element is closed.                                                *)
(***************************************************************************)
EXTENDS Integers, Sequences, XmlReader

CONSTANTS
    Name,            \* names of elements
    MaxElements      \* bound: elements opened

Root == "COLLADA"

ASSUME NamesAssumption == MaxElements \in Nat

VARIABLES
    openTags,        \* mOpenTags
    level,           \* mLevel
    nextIndex,       \* mNextElementIndex
    reader,          \* what an XML reader has found in the stream
    closer           \* the last call: the element of a TagCloser that was closed, or NoCloser

vars == <<openTags, level, nextIndex, reader, closer>>

NoCloser == -1

OpenTag(name, index, contents, text) ==
    [name |-> name, index |-> index, hasContents |-> contents, hasText |-> text]

Init == /\ openTags = << >> /\ level = 0 /\ nextIndex = 0
        /\ reader = NothingRead
        /\ closer = NoCloser

-----------------------------------------------------------------------------
Depth == Len(openTags)
Top == openTags[Depth]

\* Mutant of NeedsTagEnd: the flag is not looked at.
NeedsTagEndAlways == openTags # << >>

NeedsTagEnd == openTags # << >> /\ ~ Top.hasContents

\* The stack with the flags of the top tag set.
Flagged(contents, text) ==
    [openTags EXCEPT ![Depth] = OpenTag(Top.name, Top.index, contents, text)]

\* prepareToAddContents(): the stack and the reader after it.
Prepared == IF NeedsTagEnd THEN Flagged(TRUE, Top.hasText) ELSE openTags
PreparedReader == IF NeedsTagEnd THEN ReadTagEnd(reader) ELSE reader

\* The stack after contents with text were added to the top element.
WithText == Flagged(TRUE, TRUE)

\* The line that openElement begins and the start tag it writes.
Opened(name) == ReadStart(ReadSpace(PreparedReader), name, nextIndex = 0)

OpenElement(name) ==
    /\ nextIndex < MaxElements
    /\ openTags' = Append(Prepared, OpenTag(name, nextIndex, FALSE, FALSE))
    /\ level' = level + 1
    /\ nextIndex' = nextIndex + 1
    /\ reader' = Opened(name)
    /\ closer' = NoCloser

\* startDocument(): the root element with its attributes.
StartDocument ==
    /\ nextIndex = 0 /\ MaxElements > 0
    /\ openTags' = << OpenTag(Root, 0, FALSE, FALSE) >>
    /\ level' = level + 1
    /\ nextIndex' = 1
    /\ reader' = ReadAttribute(Opened(Root))
    /\ closer' = NoCloser

AppendAttribute ==
    /\ openTags # << >> /\ ~ Top.hasContents
    /\ reader' = ReadAttribute(reader)
    /\ closer' = NoCloser
    /\ UNCHANGED <<openTags, level, nextIndex>>

AppendText ==
    /\ openTags # << >>
    /\ openTags' = WithText
    /\ reader' = ReadText(PreparedReader, "value")
    /\ closer' = NoCloser
    /\ UNCHANGED <<level, nextIndex>>

\* appendTextBlock() begins a line but does not set mHasText.
AppendTextBlock ==
    /\ openTags # << >>
    /\ openTags' = Prepared
    /\ reader' = ReadText(ReadSpace(PreparedReader), "block")
    /\ closer' = NoCloser
    /\ UNCHANGED <<level, nextIndex>>

\* The space that appendValues writes between old text and new values.
Separated == IF Top.hasText THEN ReadSpace(PreparedReader) ELSE PreparedReader

\* Mutant of AppendValues: mHasText is not set.
AppendValuesNoFlag(many) ==
    /\ openTags # << >>
    /\ openTags' = Prepared
    /\ reader' = IF many THEN ReadValue(ReadSpace(ReadValue(Separated)))
                 ELSE ReadValue(Separated)
    /\ closer' = NoCloser
    /\ UNCHANGED <<level, nextIndex>>

\* appendValues() of one or of several numbers.
AppendValues(many) ==
    /\ openTags # << >>
    /\ openTags' = WithText
    /\ reader' = IF many THEN ReadValue(ReadSpace(ReadValue(Separated)))
                 ELSE ReadValue(Separated)
    /\ closer' = NoCloser
    /\ UNCHANGED <<level, nextIndex>>

\* appendValues() of an array: a space follows every value.
AppendArray(empty) ==
    /\ openTags # << >>
    /\ openTags' = WithText
    /\ reader' = IF empty THEN Separated ELSE ReadSpace(ReadValue(Separated))
    /\ closer' = NoCloser
    /\ UNCHANGED <<level, nextIndex>>

-----------------------------------------------------------------------------
\* The last k open tags, inside out: each ends in /> if nothing was added
\* to it, and in an end tag otherwise.
Ends(k) == [i \in 1 .. k |-> [empty |-> ~ openTags[Depth + 1 - i].hasContents,
                              name |-> openTags[Depth + 1 - i].name]]

\* Mutant of Close: the level goes down once too often.
CloseTwoLevels(k) ==
    /\ openTags' = SubSeq(openTags, 1, Depth - k)
    /\ level' = level - k - 1
    /\ reader' = ReadEnds(reader, Ends(k))
    /\ UNCHANGED nextIndex

\* closeElement() k times.  The line that is begun before some end tags is
\* white space between markup.
Close(k) ==
    /\ openTags' = SubSeq(openTags, 1, Depth - k)
    /\ level' = level - k
    /\ reader' = ReadEnds(reader, Ends(k))
    /\ UNCHANGED nextIndex

CloseElement == openTags # << >> /\ Close(1) /\ closer' = NoCloser

\* The loop of closeElements: the first tag from the top, k tags deep, whose
\* index is not larger than the given one.
StopsAt(index, k) == /\ openTags[Depth + 1 - k].index <= index
                     /\ \A i \in 1 .. k - 1 : openTags[Depth + 1 - i].index > index

\* Mutant of CloseElements: the elements down to the first smaller index go.
CloseElementsPast(index) ==
    /\ nextIndex > 0
    /\ closer' = index
    /\ \/ \E k \in 1 .. Depth : StopsAt(index, k) /\ Close(k)
       \/ /\ ~ \E k \in 1 .. Depth : StopsAt(index, k)
          /\ UNCHANGED <<openTags, level, nextIndex, reader>>

\* TagCloser::close(), closeElements(): an element that is no longer open is
\* left alone.
CloseElements(index) ==
    /\ nextIndex > 0
    /\ closer' = index
    /\ \/ \E k \in 1 .. Depth :
             /\ StopsAt(index, k)
             /\ openTags[Depth + 1 - k].index = index
             /\ Close(k)
       \/ /\ \A k \in 1 .. Depth :
                StopsAt(index, k) => openTags[Depth + 1 - k].index # index
          /\ UNCHANGED <<openTags, level, nextIndex, reader>>

\* appendTextElement(), appendURIElement(): an element that holds only text.
AppendTextElement(name) ==
    /\ openTags # << >> /\ nextIndex < MaxElements
    /\ openTags' = Prepared
    /\ nextIndex' = nextIndex + 1
    /\ reader' = ReadEnds(ReadText(ReadTagEnd(Opened(name)), "value"),
                          << [empty |-> FALSE, name |-> name] >>)
    /\ closer' = NoCloser
    /\ UNCHANGED level

EndDocument == openTags # << >> /\ Close(Depth) /\ closer' = NoCloser

Next == \/ StartDocument
        \/ \E name \in Name : /\ openTags # << >>
                              /\ OpenElement(name) \/ AppendTextElement(name)
        \/ AppendAttribute
        \/ AppendText
        \/ AppendTextBlock
        \/ \E several \in BOOLEAN : AppendValues(several) \/ AppendArray(several)
        \/ CloseElement
        \/ \E index \in 0 .. nextIndex - 1 : CloseElements(index)
        \/ EndDocument

Spec == Init /\ [][Next]_vars

-----------------------------------------------------------------------------
Tag == [name : Name \union {Root}, index : Nat, hasContents : BOOLEAN, hasText : BOOLEAN]

TypeOK ==
    /\ openTags \in Seq(Tag)
    /\ level \in Nat /\ nextIndex \in 0 .. MaxElements
    /\ closer \in Nat \union {NoCloser}
    /\ reader \in [open : Seq(Name \union {Root}), inTag : BOOLEAN,
                   last : {"markup", "space", "value", "block"},
                   bad : BOOLEAN, glued : BOOLEAN]

\* The stream is a well-formed beginning of a document at every moment: the
\* elements a reader sees open are those on the stack, and it is inside a
\* start tag exactly when the top tag has no contents yet, as all others have.
\* Hence the text after endDocument is a whole document.
WellFormed ==
    /\ ~ reader.bad
    /\ Len(reader.open) = Depth
    /\ \A i \in 1 .. Depth : reader.open[i] = openTags[i].name
    /\ reader.inTag <=> NeedsTagEnd
    /\ \A i \in 1 .. Depth - 1 : openTags[i].hasContents

\* Indices grow up the stack, so that closeElements may stop its search early,
\* and the indentation is the depth of the open elements.
StackOrdered ==
    /\ \A i, j \in 1 .. Depth : i < j => openTags[i].index < openTags[j].index
    /\ \A i \in 1 .. Depth : openTags[i].index < nextIndex
    /\ level = Depth

\* Values written by separate calls never run into one another, whatever
\* elements are opened and closed between the calls.
ValuesSeparated ==
    /\ ~ reader.glued
    /\ reader.last = "value" => openTags # << >> /\ Top.hasText

IsOpen(index) == \E i \in 1 .. Depth : openTags[i].index = index

\* Whenever it is used, a closer leaves the elements opened before its own as they
\* are, and if its own is open, closes it with all that were opened since.  Nothing
\* is said of elements opened after its own if that is closed: TagCloser::close()
\* "closes all elements that have been open and not closed, since this object has
\* been instantiated" (COLLADASWStreamWriter.h:58), closeElements() none of them.
ClosesOwn ==
    closer' # NoCloser
      => \A t \in {openTags[i] : i \in 1 .. Depth} :
            LET stays == t \in {openTags'[i] : i \in 1 .. Depth'}
            IN  /\ t.index < closer' => stays
                /\ t.index >= closer' /\ IsOpen(closer') => ~ stays
CloserClosesOwn == [][ClosesOwn]_vars
=============================================================================

----------------------------- MODULE XmlReader -----------------------------
(***************************************************************************)
(* What an XML parser makes of the text that the StreamWriter has written  *)
(* so far: which elements it sees open, whether it is inside a start tag,  *)
(* and whether the text was well-formed.  Every operator reads one more    *)
(* piece of text.  It also watches the text of elements: "value" and       *)
(* "block" say that the text ends in a value or in a block of text.        *)
(***************************************************************************)
LOCAL INSTANCE Integers
LOCAL INSTANCE Sequences

Reader(open, inTag, last, bad, glued) ==
    [open |-> open, inTag |-> inTag, last |-> last, bad |-> bad, glued |-> glued]

NothingRead == Reader(<< >>, FALSE, "markup", FALSE, FALSE)

\* The name of a start tag: allowed in the content of an element, or once at
\* the beginning.
ReadStart(r, name, isFirst) ==
    Reader(Append(r.open, name), TRUE, "markup",
           r.bad \/ r.inTag \/ (r.open = << >> /\ ~ isFirst), r.glued)

ReadAttribute(r) == Reader(r.open, r.inTag, "markup", r.bad \/ ~ r.inTag, r.glued)

\* The > of a start tag.
ReadTagEnd(r) == Reader(r.open, FALSE, "markup", r.bad \/ ~ r.inTag, r.glued)

ReadSpace(r) == Reader(r.open, r.inTag, "space", r.bad \/ r.inTag, r.glued)

\* Text, which may follow other text immediately.
ReadText(r, kind) ==
    Reader(r.open, r.inTag, kind, r.bad \/ r.inTag \/ r.open = << >>, r.glued)

\* A value.  It is glued to what comes before if that is a value or text.
ReadValue(r) ==
    Reader(r.open, r.inTag, "value", r.bad \/ r.inTag \/ r.open = << >>,
           r.glued \/ r.last = "value")

\* The ends of the innermost Len(ends) elements, inside out.  Each end is the
\* name in an end tag or, if empty, the /> that ends an empty element.
ReadEnds(r, ends) ==
    LET n == Len(r.open)
        k == Len(ends)
    IN  Reader(SubSeq(r.open, 1, n - k), FALSE, "markup",
               \/ r.bad
               \/ k > n
               \/ ends[1].empty # r.inTag
               \/ \E i \in 2 .. k : ends[i].empty
               \/ \E i \in 1 .. k : ~ ends[i].empty /\ ends[i].name # r.open[n + 1 - i],
               r.glued)
=============================================================================

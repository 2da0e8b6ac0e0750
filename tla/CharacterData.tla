---------------------------- MODULE CharacterData ----------------------------
(***************************************************************************)
(* The text of an element that is a list of values (float_array, p, ...).  *)
(* The XML reader reports it in pieces that end anywhere, so that one may  *)
(* end within a number.  ParserTemplate::characterData2Data() converts     *)
(* what it can, gives the values to the implementation in batches, and     *)
(* keeps the unfinished rest, the fragment, as an object on the stack of   *)
(* mStackMemoryManager for the next piece, or for dataEnd().               *)
(*                                                                         *)
(* The values are integers with an optional sign, as Utils::toInteger()    *)
(* reads them; a value is the sequence of its characters.  The array of    *)
(* values, on top of the stack while a piece is converted, is left out.    *)
(***************************************************************************)
EXTENDS Integers, Sequences, SequencesExt

CONSTANTS
    Digit, Sign, Space,   \* digits; the signs; white space
    Other,                \* any other character
    BufferSize,           \* TYPED_VALUES_BUFFER_SIZE
    Enclosing,            \* objects on the stack when the element begins
    Piece,                \* texts textData() is called with
    MaxText               \* bound: characters in an element

Char == Digit \union {Sign, Space, Other}

ASSUME TextAssumption ==
    /\ Piece \subseteq Seq(Char) \ {<< >>}
    /\ {Sign, Space, Other} \intersect Digit = {}
    /\ Sign # Space /\ Other \notin {Sign, Space}
    /\ BufferSize \in Nat \ {0, 1}
    /\ Enclosing \in Seq(Seq(Char)) /\ MaxText \in Nat

VARIABLES
    stack,       \* objects of mStackMemoryManager, as the characters in them
    fragment,    \* mLastIncompleteFragmentInCharacterData, as an index of stack, or 0
    delivered,   \* values the data function was called with
    pieces,      \* texts textData() was called with
    errors,      \* number of calls to handleError()
    element      \* "open", "ended" or "aborted"

vars == <<stack, fragment, delivered, pieces, errors, element>>

Init == /\ stack = Enclosing /\ fragment = 0
        /\ delivered = << >> /\ pieces = << >> /\ errors = 0
        /\ element = "open"

-----------------------------------------------------------------------------
(* Conversions. *)

\* The first position from p on where s has no character of C, or the end.
After(C, s, p) ==
    CHOOSE i \in p..(Len(s) + 1) :
        (\A j \in p..(i - 1) : s[j] \in C) /\ (i <= Len(s) => s[i] \notin C)

WhiteSpaceOnly(s) == \A i \in 1..Len(s) : s[i] = Space

\* toInteger(): the value at p, and where it ends.
ToData(s, p) ==
    LET i == After({Space}, s, p)
        j == IF i <= Len(s) /\ s[i] = Sign THEN i + 1 ELSE i
        k == After(Digit, s, j)
    IN [failed |-> k = j, value |-> SubSeq(s, i, k - 1), next |-> k]

\* The loop from p on: the values before the one that reaches the end of s or
\* cannot be converted, where that one begins (`last') and where it ends.
Loop(s, p) ==
    LET from[q \in 1..(Len(s) + 1)] ==
            LET d == ToData(s, q)
            IN IF d.failed \/ d.next = Len(s) + 1
               THEN [values |-> << >>, last |-> q, next |-> d.next]
               ELSE [from[d.next] EXCEPT !.values = <<d.value>> \o @]
    IN from[p]

\* The values of s if it is the whole text of an element.
Values(s) ==
    LET l == Loop(s, 1)
        d == ToData(s, l.last)
    IN IF d.failed THEN l.values ELSE Append(l.values, d.value)

-----------------------------------------------------------------------------
(* toDataPrefix(): a fragment, never white space only, and what follows it. *)

PrefixSize(f) == Len(f) + 1 - After({Space}, f, 1)

\* Mutant of Joined: what follows the fragment is not looked at.
JoinedAlone(f, text) == SubSeq(f, After({Space}, f, 1), Len(f)) \o <<Space>>

\* The object the value is converted from.
Joined(f, text) ==
    SubSeq(f, After({Space}, f, 1), Len(f))
    \o SubSeq(text, 1, After(Char \ {Space}, text, 1) - 1) \o <<Space>>

\* Objects on the stack, values, and the position in text after the fragment's value.
Begun(text) ==
    IF fragment = 0 THEN [stack |-> stack, values |-> << >>, next |-> 1, failed |-> FALSE]
    ELSE LET f == stack[fragment]
             d == ToData(Joined(f, text), 1)
         IN [stack |-> Append(stack, Joined(f, text)), values |-> <<d.value>>,
             next |-> d.next - PrefixSize(f), failed |-> d.failed]

\* The position may lie before the text, if a longer fragment (see LongerFragment) has
\* white space within: so many characters of whatever is there are read, too.
Overrun(text) == IF Begun(text).next < 1 THEN 1 - Begun(text).next ELSE 0

\* What the loop makes of text, and of `read', which is text and what is read before it;
\* it is not entered if the fragment's value is all.
Converted(text, read) ==
    IF Begun(text).next = Len(text) + 1
    THEN [values |-> << >>, last |-> 1, next |-> Len(text) + 1]
    ELSE LET l == Loop(read, Begun(text).next + Overrun(text))
         IN [l EXCEPT !.values = Begun(text).values \o @]

Rest(text, read) == SubSeq(read, Converted(text, read).last, Len(read))

-----------------------------------------------------------------------------
(* characterData2Data() and dataEnd(). *)

\* Mutant of Cleared: the object the value was converted from stays.
ClearedOnce(s) == /\ stack' = IF fragment = 0 THEN s ELSE Front(s)
                  /\ fragment' = 0

\* That object and the fragment are deleted.
Cleared(s) == /\ stack' = IF fragment = 0 THEN s ELSE Front(Front(s))
              /\ fragment' = 0

\* handleError() says whether to go on.
Failed(goOn) == /\ errors' = errors + 1
                /\ element' = IF goOn THEN "open" ELSE "aborted"

Went == UNCHANGED <<errors, element>>

\* The fragment and what follows it are no value: the text is dropped.
FragmentFails(text, goOn) ==
    /\ Begun(text).failed
    /\ Cleared(Begun(text).stack)
    /\ Failed(goOn)
    /\ UNCHANGED delivered

\* Characters that cannot be converted: values of the last batch are dropped.
LoopFails(text, read, goOn) ==
    /\ ~ Begun(text).failed /\ Converted(text, read).next <= Len(read)
    /\ Cleared(Begun(text).stack)
    /\ LET v == Converted(text, read).values
       IN delivered' = delivered \o SubSeq(v, 1, (Len(v) \div BufferSize) * BufferSize)
    /\ Failed(goOn)

ReachesEnd(text, read) == ~ Begun(text).failed /\ Converted(text, read).next = Len(read) + 1

NothingUnfinished(text, read) ==
    /\ ReachesEnd(text, read) /\ WhiteSpaceOnly(Rest(text, read))
    /\ delivered' = delivered \o Converted(text, read).values
    /\ Cleared(Begun(text).stack)
    /\ Went

\* Mutant of Reuses: the condition of characterData2EnumData().
ReusesAnything(text, read) == Converted(text, read).values = << >>

\* No value was found, and there is a fragment to be made longer.
Reuses(text, read) == Converted(text, read).values = << >> /\ fragment # 0

\* The rest of the text becomes the fragment, on top of what is on the stack.
NewFragment(text, read) ==
    /\ ReachesEnd(text, read) /\ ~ WhiteSpaceOnly(Rest(text, read)) /\ ~ Reuses(text, read)
    /\ delivered' = delivered \o Converted(text, read).values
    /\ stack' = Append(Begun(text).stack, Rest(text, read))
    /\ fragment' = Len(stack')
    /\ Went

\* The top object is deleted; a new one in its place is to begin with what is in
\* the memory there, from which the size of the fragment less 1 is taken.
LongerFragment(text, read) ==
    /\ ReachesEnd(text, read) /\ ~ WhiteSpaceOnly(Rest(text, read)) /\ Reuses(text, read)
    /\ LET below == Front(Begun(text).stack)
           memory == Last(Begun(text).stack)
           kept == IF fragment = 0 THEN 0 ELSE Len(stack[fragment]) - 1
       IN \E unwritten \in [Len(memory) + 1..kept -> Char] :
             stack' = Append(below, [i \in 1..kept |-> IF i <= Len(memory) THEN memory[i]
                                                       ELSE unwritten[i]] \o Rest(text, read))
    /\ fragment' = Len(stack')
    /\ Went
    /\ UNCHANGED delivered

TextData(text, goOn) ==
    /\ element = "open"
    /\ Len(FlattenSeq(pieces)) + Len(text) <= MaxText
    /\ pieces' = Append(pieces, text)
    /\ \/ FragmentFails(text, goOn)
       \/ \E before \in [1..Overrun(text) -> Char] :
             \/ LoopFails(text, before \o text, goOn)
             \/ NothingUnfinished(text, before \o text)
             \/ NewFragment(text, before \o text)
             \/ LongerFragment(text, before \o text)

\* Mutant of EndsWith: the fragment is deleted but not forgotten.
EndsWithKept(d) ==
    /\ stack' = Front(stack) /\ fragment' = fragment
    /\ delivered' = IF d.failed THEN delivered ELSE Append(delivered, d.value)

\* The fragment is deleted, and its value delivered.
EndsWith(d) ==
    /\ stack' = Front(stack) /\ fragment' = 0
    /\ delivered' = IF d.failed THEN delivered ELSE Append(delivered, d.value)

\* A fragment that fails without a character left is no error.
DataEnd(goOn) ==
    /\ element = "open"
    /\ \/ /\ fragment = 0
          /\ element' = "ended"
          /\ UNCHANGED <<stack, fragment, delivered, errors>>
       \/ /\ fragment # 0
          /\ LET d == ToData(stack[fragment], 1)
                 reported == d.failed /\ d.next <= Len(stack[fragment])
             IN /\ EndsWith(d)
                /\ errors' = IF reported THEN errors + 1 ELSE errors
                /\ element' = IF reported /\ ~ goOn THEN "aborted" ELSE "ended"
    /\ UNCHANGED pieces

Next == \E goOn \in BOOLEAN :
            \/ \E text \in Piece : TextData(text, goOn)
            \/ DataEnd(goOn)

Spec == Init /\ [][Next]_vars

-----------------------------------------------------------------------------
(* Properties. *)

\* The variables have their types.  The fragment is the top object, the one that the next
\* deleteObject() deletes, and there is a value in it to be finished.
TypeOK ==
    /\ stack \in Seq(Seq(Char))
    /\ \/ fragment = 0
       \/ fragment = Len(stack) /\ ~ WhiteSpaceOnly(stack[fragment])
    /\ delivered \in Seq(Seq(Digit \union {Sign}))
    /\ pieces \in Seq(Piece) /\ errors \in Nat
    /\ element \in {"open", "ended", "aborted"}

\* The values delivered, with those in the fragment.
Known == delivered \o IF fragment = 0 THEN << >> ELSE Values(stack[fragment])

\* A piece from within a number to within the same number or to the end of both.
Swallowed(i) == /\ i > 1 /\ Last(pieces[i - 1]) \in Digit \union {Sign}
                /\ \A k \in 1..Len(pieces[i]) : pieces[i][k] \in Digit

\* Wherever the reader splits the text, the values are those of the whole text: none
\* is lost, damaged or delivered twice, as long as it can be converted and no piece is
\* swallowed by a number that began before it (see SplitAnywhere).
PiecesDoNotMatter ==
    errors = 0 /\ (\A i \in 1..Len(pieces) : ~ Swallowed(i)) =>
        Known = Values(FlattenSeq(pieces))

\* characterData2Data(): "we need to store the not parsed fraction": with no exception
\* for a number that has more than one piece after the first.
SplitAnywhere == errors = 0 => Known = Values(FlattenSeq(pieces))

\* Whatever the text, objects of the enclosing elements stay on the stack.
EnclosingKept == IsPrefix(Enclosing, stack)

\* Nothing is left on the stack once no value is unfinished, unless a piece began and
\* ended within values: then the old fragment and a copy of it stay for good.
NothingLeftBehind ==
    /\ fragment = 0
    /\ \A i \in 2..Len(pieces) : Last(pieces[i - 1]) = Space \/ Last(pieces[i]) = Space
    => stack = Enclosing
=============================================================================

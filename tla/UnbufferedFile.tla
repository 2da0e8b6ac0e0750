--------------------------- MODULE UnbufferedFile ---------------------------
(***************************************************************************)
(* What Common::Buffer promises to the code that writes through it: a file *)
(* in which every call takes effect at once.  Writing replaces what is     *)
(* there from the current position on, a mark remembers a position, a jump *)
(* goes back to it.  Nothing is promised once the file is broken, i.e.     *)
(* once the system has refused to take bytes.                              *)
(***************************************************************************)
EXTENDS Integers, Sequences

VARIABLES content, position, marks, broken

\* c with s written over it from position p on.
Put(c, p, s) == SubSeq(c, 1, p) \o s \o SubSeq(c, p + Len(s) + 1, Len(c))

Init == content = << >> /\ position = 0 /\ marks = << >> /\ broken = FALSE

\* Callers write any bytes.  Whatever they write, nothing else changes.
Write == /\ position' \in position .. Len(content')
         /\ content' = Put(content, position, SubSeq(content', position + 1, position'))
         /\ UNCHANGED marks

\* A mark is a position; marks are numbered from 1.  A forgotten one is -1.
SetMark == marks' = Append(marks, position) /\ UNCHANGED <<content, position>>

JumpToMark(keep) == \E i \in DOMAIN marks :
                       /\ marks[i] # -1
                       /\ position' = marks[i]
                       /\ marks' = IF keep THEN marks ELSE [marks EXCEPT ![i] = -1]
                       /\ UNCHANGED content

JumpToEnd == position' = Len(content) /\ UNCHANGED <<content, marks>>

Next == \/ ~ broken' /\ (Write \/ SetMark \/ JumpToEnd \/ \E keep \in BOOLEAN : JumpToMark(keep))
        \/ broken'

Spec == Init /\ [][Next]_<<content, position, marks, broken>>
=============================================================================

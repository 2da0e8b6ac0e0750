------------------------------- MODULE Buffer -------------------------------
(***************************************************************************)
(* Common::Buffer and CharacterBuffer, the buffers through which the       *)
(* StreamWriter sends the document to its file, with FWriteBufferFlusher,  *)
(* the flusher it uses.                                                    *)
(*                                                                         *)
(* Bytes are numbered in the order in which callers hand them in, so that  *)
(* loss, duplication and reordering all show in the file.  A call to       *)
(* fwrite may fail after a part of the bytes.                              *)
(***************************************************************************)
EXTENDS Integers, Sequences

CONSTANTS
    BufferSize,      \* mBufferSize
    Lengths,         \* lengths of the data callers copy to the buffer
    TextLengths,     \* lengths of numbers converted to text
    NumberSize,      \* FTOA_BUFFERSIZE, DTOA_BUFFERSIZE, MINIMUM_BUFFERSIZE_10
    DirectSizes,     \* arguments of setDirectFlushSize
    MaxBytes,        \* bound: bytes handed in
    MaxMarks,        \* bound: marks set
    MaxFailures      \* bound: calls of fwrite that fail

ASSUME BufferAssumption ==
    /\ BufferSize \in Nat \ {0} /\ NumberSize \in Nat \ {0}
    /\ Lengths \subseteq Nat /\ DirectSizes \subseteq Nat
    /\ TextLengths \subseteq 1 .. NumberSize
    /\ MaxBytes \in Nat /\ MaxMarks \in Nat /\ MaxFailures \in Nat

VARIABLES
    buf,             \* the bytes between mBuffer and mCurrentPos
    directFlush,     \* mDirectFlushSize
    flushed,         \* mBytesFlushed
    markSet,         \* mMarkSet
    overwriting,     \* mIsOverwriting
    file, filePos,   \* the flusher's mStream: its bytes and its position
    marks,           \* the flusher's mMarkIds, from id to position
    lastMark,        \* the flusher's mLastMarkId
    call, returned,  \* the last call of a caller and what it returned
    written,         \* the number of bytes handed in by callers
    failures         \* the number of failed calls of fwrite

bufferVars == <<buf, directFlush, flushed, markSet, overwriting>>
flusherVars == <<file, filePos, marks, lastMark>>
vars == <<bufferVars, flusherVars, call, returned, written, failures>>

EndOfStream == 0
InvalidId == -1

Init == /\ buf = << >> /\ directFlush = BufferSize /\ flushed = 0
        /\ markSet = FALSE /\ overwriting = FALSE
        /\ file = << >> /\ filePos = 0
        /\ marks = << >> /\ lastMark = EndOfStream
        /\ call = "ctor" /\ returned = TRUE
        /\ written = 0 /\ failures = 0

-----------------------------------------------------------------------------
File == INSTANCE UnbufferedFile WITH content <- file, position <- filePos, broken <- failures > 0

\* Mutant of Available: a byte too many.
AvailableAndOne == BufferSize - Len(buf) + 1

\* getBytesAvailable()
Available == BufferSize - Len(buf)

\* n new bytes of a caller.
New(n) == [i \in 1 .. n |-> written + i]

\* fwrite takes all of s, or fails after any smaller part of it.
Whole(s) == {Len(s)}
Part(s) == IF failures < MaxFailures THEN 0 .. Len(s) - 1 ELSE {}

\* sendDataToFlusher(): the flusher is handed counted bytes; out reach the file.
Send(out, counted) ==
    /\ file' = File!Put(file, filePos, out)
    /\ filePos' = filePos + Len(out)
    /\ flushed' = IF overwriting THEN flushed ELSE flushed + counted

\* Mutant of SendBuffer: a buffer that could not be flushed is kept.
SendBufferKept(n) == /\ Send(SubSeq(buf, 1, n), Len(buf))
                     /\ buf' = IF n = Len(buf) THEN << >> ELSE buf
                     /\ failures' = IF n = Len(buf) THEN failures ELSE failures + 1

\* flushBuffer() when n bytes reach the file: the buffer is reset even if
\* that is not all of them.
SendBuffer(n) == /\ Send(SubSeq(buf, 1, n), Len(buf))
                 /\ buf' = << >>
                 /\ failures' = IF n = Len(buf) THEN failures ELSE failures + 1

Did(c, r) == call' = c /\ returned' = r

HandIn(n) == written + n <= MaxBytes /\ written' = written + n

-----------------------------------------------------------------------------
\* copyToBuffer(data, length): large data are sent directly, after what is in
\* the buffer.  r is what the call returns.
CopyDirectly(d, r) ==
    /\ Len(d) >= directFlush
    /\ \/ /\ r = FALSE
          /\ \E n \in Part(buf) : SendBuffer(n)
       \/ \E n \in Whole(d) \union Part(d) :
             /\ r = (n = Len(d))
             /\ Send(buf \o SubSeq(d, 1, n), Len(buf) + Len(d))
             /\ buf' = << >>
             /\ failures' = IF r THEN failures ELSE failures + 1

\* Mutant of CopyAfterFlush: the result of the flush is ignored.
CopyAfterAnyFlush(d, r) ==
    /\ Len(d) < directFlush /\ Len(d) > Available
    /\ \E n \in Whole(buf) \union Part(buf) :
          /\ r = TRUE
          /\ Send(SubSeq(buf, 1, n), Len(buf))
          /\ buf' = d
          /\ failures' = IF n = Len(buf) THEN failures ELSE failures + 1

\* Data that do not fit are copied after a flush that succeeds.
CopyAfterFlush(d, r) ==
    /\ Len(d) < directFlush /\ Len(d) > Available
    /\ \E n \in Whole(buf) \union Part(buf) :
          /\ r = (n = Len(buf))
          /\ Send(SubSeq(buf, 1, n), Len(buf))
          /\ buf' = IF r THEN d ELSE << >>
          /\ failures' = IF r THEN failures ELSE failures + 1

CopyIntoBuffer(d, r) ==
    /\ Len(d) < directFlush /\ Len(d) <= Available
    /\ r = TRUE
    /\ buf' = buf \o d
    /\ UNCHANGED <<file, filePos, flushed, failures>>

CopyToBuffer(d, r) == CopyDirectly(d, r) \/ CopyAfterFlush(d, r) \/ CopyIntoBuffer(d, r)

Copy(n) == /\ \E r \in BOOLEAN : CopyToBuffer(New(n), r) /\ Did("copy", r)
           /\ HandIn(n)
           /\ UNCHANGED <<directFlush, markSet, overwriting, marks, lastMark>>

\* copyToBufferAsChar of a number: room for the longest text of the type is
\* made, whatever the flush returns; without it the call returns false.
ConvertNumber(n) ==
    /\ Did("number", NumberSize <= BufferSize)
    /\ HandIn(IF NumberSize <= BufferSize THEN n ELSE 0)
    /\ \/ /\ Available >= NumberSize
          /\ buf' = buf \o New(n)
          /\ UNCHANGED <<file, filePos, flushed, failures>>
       \/ /\ Available < NumberSize
          /\ \E k \in Whole(buf) \union Part(buf) :
                /\ Send(SubSeq(buf, 1, k), Len(buf))
                /\ buf' = IF NumberSize <= BufferSize THEN New(n) ELSE << >>
                /\ failures' = IF k = Len(buf) THEN failures ELSE failures + 1
    /\ UNCHANGED <<directFlush, markSet, overwriting, marks, lastMark>>

\* copyToBufferAsChar(bool): one character, handed to copyToBuffer, whose
\* result is ignored as is that of the flush that makes room.
ConvertBool ==
    /\ Did("bool", TRUE)
    /\ HandIn(1)
    /\ \/ Available >= 1 /\ \E r \in BOOLEAN : CopyToBuffer(New(1), r)
       \/ /\ Available < 1
          /\ \E k \in Whole(buf) \union Part(buf) :
                LET kept == SubSeq(buf, 1, k)
                    lost == IF k = Len(buf) THEN 0 ELSE 1
                IN  \/ /\ directFlush <= 1
                       /\ \E m \in {0, 1} :
                             /\ failures + lost + 1 - m <= MaxFailures \/ m = 1
                             /\ Send(kept \o SubSeq(New(1), 1, m), Len(buf) + 1)
                             /\ failures' = failures + lost + 1 - m
                       /\ buf' = << >>
                    \/ /\ directFlush > 1
                       /\ Send(kept, Len(buf))
                       /\ buf' = New(1)
                       /\ failures' = failures + lost
    /\ UNCHANGED <<directFlush, markSet, overwriting, marks, lastMark>>

\* flushBuffer(), and flushFlusher() and the destructor, whose fflush moves
\* no byte of the stream.
Flush == /\ \E n \in Whole(buf) \union Part(buf) : SendBuffer(n) /\ Did("flush", n = Len(buf))
         /\ UNCHANGED <<directFlush, markSet, overwriting, marks, lastMark, written>>

SetDirectFlushSize(n) ==
    /\ directFlush' = IF n > BufferSize THEN BufferSize ELSE n
    /\ Did("setDirectFlushSize", TRUE)
    /\ UNCHANGED <<buf, flushed, markSet, overwriting, flusherVars, written, failures>>

-----------------------------------------------------------------------------
\* Mutant of StartMark: the flusher remembers its position before the flush.
StartMarkUnflushed ==
    /\ ~ markSet /\ lastMark < MaxMarks
    /\ \E n \in Whole(buf) \union Part(buf) : SendBuffer(n)
    /\ markSet' = TRUE
    /\ lastMark' = lastMark + 1
    /\ marks' = [id \in DOMAIN marks \union {lastMark'} |->
                    IF id = lastMark' THEN filePos ELSE marks[id]]
    /\ Did("startMark", TRUE)
    /\ UNCHANGED <<directFlush, overwriting, written>>

\* startMark(): the flusher remembers where its file stands after the flush.
StartMark ==
    /\ ~ markSet /\ lastMark < MaxMarks
    /\ \E n \in Whole(buf) \union Part(buf) : SendBuffer(n)
    /\ markSet' = TRUE
    /\ lastMark' = lastMark + 1
    /\ marks' = [id \in DOMAIN marks \union {lastMark'} |->
                    IF id = lastMark' THEN filePos' ELSE marks[id]]
    /\ Did("startMark", TRUE)
    /\ UNCHANGED <<directFlush, overwriting, written>>

EndMark ==
    /\ markSet
    /\ markSet' = FALSE
    /\ \E n \in Whole(buf) \union Part(buf) : SendBuffer(n)
    /\ Did("endMark", TRUE)
    /\ UNCHANGED <<directFlush, overwriting, marks, lastMark, written>>

\* jumpToMark(): id may be one that the flusher does not know (any more).
JumpToMark(id, keep) ==
    /\ \E n \in Whole(buf) \union Part(buf) :
          LET out == SubSeq(buf, 1, n)
              end == File!Put(file, filePos, out)
          IN  /\ file' = end
              /\ flushed' = IF overwriting THEN flushed ELSE flushed + Len(buf)
              /\ failures' = IF n = Len(buf) THEN failures ELSE failures + 1
              /\ filePos' = CASE id = EndOfStream -> Len(end)
                              [] id \in DOMAIN marks -> marks[id]
                              [] OTHER -> filePos + n
    /\ buf' = << >>
    /\ overwriting' = (id # EndOfStream)
    /\ marks' = IF keep THEN marks ELSE [m \in DOMAIN marks \ {id} |-> marks[m]]
    /\ Did("jump", id = EndOfStream \/ id \in DOMAIN marks)
    /\ UNCHANGED <<directFlush, markSet, lastMark, written>>

\* The calls that have no effect but their result.
Refused == /\ \/ markSet /\ Did("startMark", FALSE)
              \/ ~ markSet /\ Did("endMark", FALSE)
           /\ UNCHANGED <<bufferVars, flusherVars, written, failures>>

Next == \/ \E n \in Lengths : Copy(n)
        \/ \E n \in TextLengths : ConvertNumber(n)
        \/ ConvertBool
        \/ Flush
        \/ \E n \in DirectSizes : SetDirectFlushSize(n)
        \/ StartMark
        \/ EndMark
        \/ \E id \in {EndOfStream, InvalidId} \union 1 .. lastMark, keep \in BOOLEAN :
              JumpToMark(id, keep)
        \/ Refused

Spec == Init /\ [][Next]_vars

-----------------------------------------------------------------------------
\* The types of the buffer's and the flusher's fields.  The buffer is never
\* overrun, neither by copied data nor by a converted number, and the file
\* never has a hole.
TypeOK ==
    /\ buf \in Seq(1 .. MaxBytes) /\ Len(buf) <= BufferSize
    /\ directFlush \in 0 .. BufferSize
    /\ flushed \in Nat /\ written \in 0 .. MaxBytes
    /\ markSet \in BOOLEAN /\ overwriting \in BOOLEAN /\ returned \in BOOLEAN
    /\ file \in Seq(1 .. MaxBytes) /\ filePos \in 0 .. Len(file)
    /\ lastMark \in 0 .. MaxMarks
    /\ DOMAIN marks \subseteq 1 .. lastMark
    /\ \A id \in DOMAIN marks : marks[id] \in 0 .. Len(file)
    /\ failures \in 0 .. MaxFailures

\* What a reader would see if the buffer were flushed now.
Content == File!Put(file, filePos, buf)
Position == filePos + Len(buf)

\* If no call ever fails, buffering cannot be seen: whatever the mix of
\* copies, direct flushes, marks and jumps, the file and the buffer together
\* are the file an unbuffered writer would have written.
Implements == INSTANCE UnbufferedFile WITH
    content <- Content, position <- Position, broken <- failures > 0,
    marks <- [id \in 1 .. lastMark |-> IF id \in DOMAIN marks THEN marks[id] ELSE -1]
ImplementsUnbufferedFile == Implements!Spec

\* As long as there is no mark to jump to, the bytes that survive failed writes reach the
\* file once and in the order in which they were written.
SurvivorsInOrder ==
    lastMark = 0 =>
      \A i, j \in DOMAIN (file \o buf) :
          i < j => (file \o buf)[i] < (file \o buf)[j]

\* When copyToBuffer or flushBuffer returns true, neither its own bytes nor
\* any byte that waited in the buffer was lost in the call.
TrueMeansKept ==
    [][ call' \in {"copy", "flush"} /\ returned'
           => Content' = File!Put(Content, Position, New(written' - written)) ]_vars
=============================================================================

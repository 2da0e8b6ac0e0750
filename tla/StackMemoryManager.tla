------------------------- MODULE StackMemoryManager -------------------------
(***************************************************************************)
(* GeneratedSaxParser::StackMemoryManager: the stack allocator on which    *)
(* the SAX parser puts converted attribute data, enum values and the       *)
(* fragments of text that two chunks of character data share.              *)
(*                                                                         *)
(* Memory is a list of frames (blobs), each twice as large as the one      *)
(* before it.  An object is followed by a word that holds its size, so     *)
(* that the top object can be found from mCurrentPosition alone:           *)
(*                                                                         *)
(*    data0 size0 data1 size1 data2 size2 |free                            *)
(*                                        ^ mCurrentPosition               *)
(*                                                                         *)
(* The while loops of newObject and growObject that call                   *)
(* allocateMoreMemory are one step: they end in the first frame that has   *)
(* room, and every frame between is left allocated and empty.  The bytes   *)
(* that the caller copies into the object it got are part of the step.     *)
(***************************************************************************)
EXTENDS Integers, Sequences

CONSTANTS
    MaxFrames,       \* MAX_NUM_OF_FRAMES
    Factor,          \* SIZE_OF_NEW_FRAME_FACTOR
    FrameSize,       \* the size of every frame; FrameSize[0] is the ctor's stackSize
    WordSize,        \* sizeof(size_t)
    Data,            \* the bytes callers store
    Sizes            \* the numbers of bytes callers ask for

Frame == 0 .. MaxFrames - 1

ASSUME FramesAssumption ==
    /\ MaxFrames \in Nat \ {0}
    /\ Factor \in Nat \ {0}
    /\ FrameSize \in [Frame -> Nat \ {0}]
    /\ \A f \in Frame \ {0} : FrameSize[f] = Factor * FrameSize[f - 1]
    /\ WordSize \in Nat \ {0}
    /\ Sizes \subseteq Nat

VARIABLES
    active,          \* mActiveFrame
    pos,             \* mCurrentPosition of every frame
    blob,            \* mMemoryBlob of every frame; NoBlob is the null pointer
    live             \* the objects the callers hold: where each starts, how long it is

vars == <<active, pos, blob, live>>

NoBlob == << >>
Unset == -1          \* the content of a byte nobody has written
NewBlob(f) == [a \in 0 .. FrameSize[f] - 1 |-> Unset]

Init == /\ active = 0
        /\ pos = [f \in Frame |-> 0]
        /\ blob = [f \in Frame |-> IF f = 0 THEN NewBlob(0) ELSE NoBlob]
        /\ live = << >>

-----------------------------------------------------------------------------
\* getTopObjectSize(): the word before mCurrentPosition of the active frame.
TopSize == blob[active][pos[active] - WordSize]

\* top(): where the top object starts, -1 for the null pointer.
TopStart == IF pos[active] = 0 THEN -1
            ELSE pos[active] - TopSize - WordSize

\* Where an object lands if the loop of newObject ends in frame f: frames
\* beyond the active one are new, hence empty.
Base(f) == IF f = active THEN pos[f] ELSE 0

\* Mutant of HasRoom: the size word is forgotten.
HasRoomWithoutWord(f, n) == Base(f) + n <= FrameSize[f]

HasRoom(f, n) == Base(f) + n + WordSize <= FrameSize[f]

\* The loop of newObject ends in the first frame with room.
FirstWithRoom(f, n) == /\ HasRoom(f, n)
                       /\ \A g \in active .. f - 1 : ~ HasRoom(g, n)

\* The frames after the allocations that make f the active frame.
Allocated(f) == [g \in Frame |-> IF active < g /\ g <= f THEN NewBlob(g) ELSE blob[g]]
Zeroed(f) == [g \in Frame |-> IF active < g /\ g <= f THEN 0 ELSE pos[g]]

\* b with n bytes d at address a, then the size word of an object of s bytes.
\* The word is kept in its first byte.  What lies above it is free.
Written(b, a, n, d, s) ==
    [c \in DOMAIN b |-> IF c < a THEN b[c]
                        ELSE IF c < a + n THEN d
                        ELSE IF c = a + n THEN s ELSE Unset]

\* b when mCurrentPosition goes down to p: the bytes above it are dead.
Forgotten(b, p) == [c \in DOMAIN b |-> IF c < p THEN b[c] ELSE Unset]

Object(f, a, n) == [frame |-> f, at |-> a, size |-> n]

NewObject(n, d) ==
    \E f \in active .. MaxFrames - 1 :
        /\ FirstWithRoom(f, n)
        /\ active' = f
        /\ pos' = [Zeroed(f) EXCEPT ![f] = Base(f) + n + WordSize]
        /\ blob' = [Allocated(f) EXCEPT ![f] = Written(@, Base(f), n, d, n)]
        /\ live' = Append(live, Object(f, Base(f), n))

\* No frame has room: newObject returns 0, and the frames it allocated on
\* the way stay.
NewObjectRefused(n) ==
    /\ \A f \in active .. MaxFrames - 1 : ~ HasRoom(f, n)
    /\ active' = MaxFrames - 1
    /\ pos' = Zeroed(MaxFrames - 1)
    /\ blob' = Allocated(MaxFrames - 1)
    /\ UNCHANGED live

-----------------------------------------------------------------------------
\* After a refusal the active frame may be empty while objects are live.
\* getTopObjectSize then reads in front of the blob: what deleteObject and
\* growObject do is undefined and has no step here.
TopReadable == live # << >> /\ pos[active] # 0

\* deleteObject's loop frees empty frames from the top down and stops in the
\* highest frame that holds something, or in frame 0.
Survivor(f, p) == /\ f = 0 \/ p[f] # 0
                  /\ \A g \in f + 1 .. active : p[g] = 0

\* Mutant of DeleteObject: the size word is subtracted twice.
DeleteObjectTwoWords ==
    /\ TopReadable
    /\ pos' = [pos EXCEPT ![active] = @ - (TopSize + WordSize + WordSize)]
    /\ live' = SubSeq(live, 1, Len(live) - 1)
    /\ UNCHANGED <<active, blob>>

DeleteObject ==
    LET left == [pos EXCEPT ![active] = @ - (TopSize + WordSize)]
    IN  /\ TopReadable
        /\ \E f \in 0 .. active :
              /\ Survivor(f, left)
              /\ active' = f
              /\ blob' = [g \in Frame |-> IF g > f THEN NoBlob ELSE Forgotten(blob[g], left[g])]
        /\ pos' = left
        /\ live' = SubSeq(live, 1, Len(live) - 1)

-----------------------------------------------------------------------------
Fits(n) == pos[active] + n <= FrameSize[active]

\* Mutant of GrowInPlace: the new size is not written.
GrowInPlaceOldSize(n, d) ==
    /\ TopReadable
    /\ Fits(n)
    /\ pos' = [pos EXCEPT ![active] = @ + n]
    /\ blob' = [blob EXCEPT ![active] =
                   Written(@, pos[active] - WordSize, n, d, TopSize)]
    /\ live' = [live EXCEPT ![Len(live)] = Object(active, @.at, TopSize + n)]
    /\ UNCHANGED active

\* growObject in place: the size word moves to the new end.
GrowInPlace(n, d) ==
    /\ TopReadable
    /\ Fits(n)
    /\ pos' = [pos EXCEPT ![active] = @ + n]
    /\ blob' = [blob EXCEPT ![active] =
                   Written(@, pos[active] - WordSize, n, d, TopSize + n)]
    /\ live' = [live EXCEPT ![Len(live)] = Object(active, @.at, TopSize + n)]
    /\ UNCHANGED active

\* Mutant of Copied: the source is the beginning of the old frame.
CopiedFromFrameStart(new, old, start, size) ==
    [c \in DOMAIN new |-> IF c < size THEN old[c] ELSE new[c]]

\* memcpy of size bytes at start of old to the beginning of new.
Copied(new, old, start, size) ==
    [c \in DOMAIN new |-> IF c < size THEN old[start + c] ELSE new[c]]

\* Mutant of GrowByMoving: the old entry stays in its frame.
GrowByMovingKeepsOld(n, d) ==
    /\ TopReadable
    /\ ~ Fits(n)
    /\ LET size == TopSize
           start == pos[active] - size - WordSize
       IN \E f \in active + 1 .. MaxFrames - 1 :
            /\ FrameSize[f] >= size + n + WordSize
            /\ \A g \in active + 1 .. f - 1 : FrameSize[g] < size + n + WordSize
            /\ active' = f
            /\ pos' = [Zeroed(f) EXCEPT ![f] = size + n + WordSize]
            /\ blob' = [Allocated(f) EXCEPT
                           ![f] = Written(Copied(@, blob[active], start, size),
                                          size, n, d, size + n)]
            /\ live' = [live EXCEPT ![Len(live)] = Object(f, 0, size + n)]

\* growObject into a new frame: the bytes are copied and the old entry goes.
GrowByMoving(n, d) ==
    /\ TopReadable
    /\ ~ Fits(n)
    /\ LET size == TopSize
           start == pos[active] - size - WordSize
       IN \E f \in active + 1 .. MaxFrames - 1 :
            /\ FrameSize[f] >= size + n + WordSize
            /\ \A g \in active + 1 .. f - 1 : FrameSize[g] < size + n + WordSize
            /\ active' = f
            /\ pos' = [Zeroed(f) EXCEPT ![f] = size + n + WordSize, ![active] = start]
            /\ blob' = [Allocated(f) EXCEPT
                           ![active] = Forgotten(@, start),
                           ![f] = Written(Copied(@, blob[active], start, size),
                                          size, n, d, size + n)]
            /\ live' = [live EXCEPT ![Len(live)] = Object(f, 0, size + n)]

GrowRefused(n) ==
    /\ TopReadable
    /\ ~ Fits(n)
    /\ \A f \in active + 1 .. MaxFrames - 1 : FrameSize[f] < TopSize + n + WordSize
    /\ active' = MaxFrames - 1
    /\ pos' = Zeroed(MaxFrames - 1)
    /\ blob' = Allocated(MaxFrames - 1)
    /\ UNCHANGED live

-----------------------------------------------------------------------------
Next == \/ \E n \in Sizes, d \in Data : \/ NewObject(n, d)
                                                 \/ GrowInPlace(n, d)
                                                 \/ GrowByMoving(n, d)
        \/ \E n \in Sizes : NewObjectRefused(n) \/ GrowRefused(n)
        \/ DeleteObject

Spec == Init /\ [][Next]_vars

-----------------------------------------------------------------------------
LiveObject == [frame : Frame, at : Nat, size : Nat]
Cell == Data \cup Nat \cup {Unset}
Blob(f) == [0 .. FrameSize[f] - 1 -> Cell]

(* The manager's fields and the callers' records have their types. *)
TypeOK ==
    /\ active \in Frame
    /\ pos \in [Frame -> Nat]
    /\ DOMAIN blob = Frame
    /\ \A f \in Frame : blob[f] = NoBlob \/ blob[f] \in Blob(f)
    /\ live \in Seq(LiveObject)

\* Where the size word behind an object ends.
EndOf(o) == o.at + o.size + WordSize

\* o lies in front of p, as the objects below p on the stack do.
Before(o, p) == \/ o.frame < p.frame
                \/ o.frame = p.frame /\ EndOf(o) <= p.at

(* No two objects in use, nor their size words, share a byte, and each lies *)
(* within a frame that is allocated: what one caller writes never reaches   *)
(* another object or a size word (newObject, growObject).                   *)
LiveObjectsDisjoint ==
    \A i \in 1 .. Len(live) :
        /\ blob[live[i].frame] # NoBlob
        /\ EndOf(live[i]) <= FrameSize[live[i].frame]
        /\ \A j \in 1 .. i - 1 : Before(live[j], live[i])

(* Whenever the word read by deleteObject, growObject and top is in the     *)
(* blob, it is the size of the object pushed last, which ends there and is  *)
(* what top returns.                                                        *)
TopIsLastPushed ==
    TopReadable => LET o == live[Len(live)]
                   IN  /\ o.frame = active
                       /\ EndOf(o) = pos[active]
                       /\ TopSize = o.size
                       /\ TopStart = o.at

(* The frames with memory are those up to the active one, which are those   *)
(* that the destructor frees: growing, refusing and popping leak nothing.   *)
AllocatedUpToActive == \A f \in Frame : blob[f] # NoBlob <=> f <= active

-----------------------------------------------------------------------------
\* The objects of a frame lie behind one another from its beginning up to
\* mCurrentPosition, each with its size behind it.
FramesFilled ==
    \A f \in Frame : /\ pos[f] <= FrameSize[f]
                     /\ f > active => pos[f] = 0
                     /\ pos[f] # 0 => \E i \in 1 .. Len(live) :
                                         live[i].frame = f /\ EndOf(live[i]) = pos[f]
NoGaps ==
    \A i \in 1 .. Len(live) :
        live[i].at # 0 => \E j \in 1 .. Len(live) : /\ live[j].frame = live[i].frame
                                                    /\ EndOf(live[j]) = live[i].at
LiveInFrames ==
    \A i \in 1 .. Len(live) :
        /\ live[i].frame <= active
        /\ EndOf(live[i]) <= pos[live[i].frame]
        /\ blob[live[i].frame][live[i].at + live[i].size] = live[i].size
Ordered == \A i \in 1 .. Len(live) : \A j \in 1 .. i - 1 : Before(live[j], live[i])

(* The layout of the memory that makes the stack work: in every frame the   *)
(* live objects fill the bytes up to mCurrentPosition without a gap, in the *)
(* order in which they were pushed, each with its size behind it, and       *)
(* frames above the active one are empty and without memory.                *)
Layout == /\ TypeOK
          /\ AllocatedUpToActive
          /\ FramesFilled
          /\ NoGaps
          /\ LiveInFrames
          /\ Ordered

-----------------------------------------------------------------------------
(* The stack, read back from the blobs alone by walking the size words of  *)
(* every frame down from mCurrentPosition.  The callers' records (live)    *)
(* play no part in it.                                                     *)

Bytes(f, a, n) == [i \in 1 .. n |-> blob[f][a + i - 1]]

\* Whether a size word ends at p in frame f, and where the object in front of it starts.
EndsObject(f, p) == p >= WordSize /\ blob[f][p - WordSize] \in 0 .. p - WordSize
StartBelow(f, p) == p - WordSize - blob[f][p - WordSize]

\* The objects in frame f below each position.
ObjectsBelow(f) ==
    LET objects[p \in 0 .. FrameSize[f]] ==
            IF ~ EndsObject(f, p) THEN << >>
            ELSE objects[StartBelow(f, p)]
                 \o << Bytes(f, StartBelow(f, p), blob[f][p - WordSize]) >>
    IN  objects

ObjectsIn(f) == IF blob[f] = NoBlob THEN << >> ELSE ObjectsBelow(f)[pos[f]]

StackInMemory ==
    LET inFramesBelow[f \in 0 .. MaxFrames] ==
            IF f = 0 THEN << >> ELSE inFramesBelow[f - 1] \o ObjectsIn(f - 1)
    IN  inFramesBelow[MaxFrames]

Abstract == INSTANCE ObjectStack WITH stack <- StackInMemory

(* The frames hold a stack of byte strings: every step pushes one, removes  *)
(* the top one or lengthens it, and changes nothing below.                  *)
ImplementsObjectStack == Abstract!Spec
=============================================================================

---------------------- MODULE StackMemoryManagerProofs ----------------------
(***************************************************************************)
(* Layout is an inductive invariant of StackMemoryManager for every number *)
(* and size of frames and every size of request; from it follow the type   *)
(* invariant, that live objects never overlap, and that the word read in   *)
(* front of mCurrentPosition is the size of the object pushed last.        *)
(* The objects read back from memory are then the ones that callers hold,  *)
(* and so every step of the manager is a step of ObjectStack.              *)
(***************************************************************************)
EXTENDS StackMemoryManager, SequenceTheorems, WellFoundedInduction, TLAPS

LEMMA ConstantFacts ==
    /\ MaxFrames \in Nat /\ MaxFrames > 0
    /\ 0 \in Frame
    /\ \A f \in Frame : f \in Nat /\ FrameSize[f] \in Nat /\ FrameSize[f] > 0
    /\ WordSize \in Nat /\ WordSize > 0
    /\ \A n \in Sizes : n \in Nat
  BY FramesAssumption DEF Frame

LEMMA FrameIsNat == \A f \in Frame : f \in Nat
  BY ConstantFacts

\* An object that begins where the top one ends does not end in front of it.
LEMMA NotInFront ==
    \A at, size, word, top, n \in Nat :
        word > 0 /\ at = top + n + word => ~ (at + size + word <= top)
  OBVIOUS

\* A frame with memory is not the null pointer.
LEMMA BlobIsNotNull ==
    ASSUME NEW f \in Frame, NEW b \in Blob(f)
    PROVE  b # NoBlob
<1>1. 0 \in DOMAIN b
  BY ConstantFacts DEF Blob
<1>2. 0 \notin DOMAIN NoBlob
  BY DEF NoBlob
<1> QED BY <1>1, <1>2

LEMMA InitLayout == Init => Layout
<1> SUFFICES ASSUME Init PROVE Layout
  OBVIOUS
<1> USE ConstantFacts DEF Init
<1>1. \A f \in Frame : NewBlob(f) \in Blob(f)
  BY DEF NewBlob, Blob, Cell
<1>2. TypeOK
  BY <1>1 DEF TypeOK
<1>3. AllocatedUpToActive
  BY <1>1, BlobIsNotNull DEF AllocatedUpToActive, Frame
<1>4. FramesFilled
  BY DEF FramesFilled
<1>5. NoGaps /\ LiveInFrames /\ Ordered
  BY DEF NoGaps, LiveInFrames, Ordered
<1> QED BY <1>2, <1>3, <1>4, <1>5 DEF Layout

-----------------------------------------------------------------------------
\* The size word of a live object lies within its blob, below mCurrentPosition.
LEMMA WordInBlob ==
    ASSUME Layout, NEW i \in 1 .. Len(live)
    PROVE  /\ live[i] \in LiveObject
           /\ live[i].frame \in Frame /\ live[i].at \in Nat /\ live[i].size \in Nat
           /\ live[i].frame <= active
           /\ blob[live[i].frame] \in Blob(live[i].frame)
           /\ live[i].at + live[i].size < pos[live[i].frame]
           /\ live[i].at + live[i].size \in 0 .. FrameSize[live[i].frame] - 1
<1>1. live[i] \in LiveObject
  BY DEF Layout, TypeOK
<1>2. live[i].frame \in Frame /\ live[i].at \in Nat /\ live[i].size \in Nat
  BY <1>1 DEF LiveObject
<1>3. live[i].frame <= active /\ EndOf(live[i]) <= pos[live[i].frame]
  BY DEF Layout, LiveInFrames
<1>4. blob[live[i].frame] # NoBlob
  BY <1>2, <1>3 DEF Layout, AllocatedUpToActive
<1>5. blob[live[i].frame] \in Blob(live[i].frame)
  BY <1>2, <1>4 DEF Layout, TypeOK
<1>6. pos[live[i].frame] \in Nat /\ pos[live[i].frame] <= FrameSize[live[i].frame]
  BY <1>2 DEF Layout, TypeOK, FramesFilled
<1>7. FrameSize[live[i].frame] \in Nat
  BY <1>2, ConstantFacts
<1>8. live[i].at + live[i].size < pos[live[i].frame]
  BY <1>2, <1>3, <1>6, ConstantFacts DEF EndOf
<1>9. live[i].at + live[i].size \in 0 .. FrameSize[live[i].frame] - 1
  BY <1>2, <1>6, <1>7, <1>8
<1> QED BY <1>1, <1>2, <1>3, <1>5, <1>8, <1>9

\* The allocations on the way to frame f: types and what they leave alone.
LEMMA AllocationKeeps ==
    ASSUME Layout, NEW f \in active .. MaxFrames - 1
    PROVE  /\ f \in Frame /\ active \in Frame
           /\ Zeroed(f) \in [Frame -> Nat]
           /\ \A g \in Frame : /\ g <= active => Zeroed(f)[g] = pos[g]
                               /\ g > active => Zeroed(f)[g] = 0
                               /\ g <= active => Allocated(f)[g] = blob[g]
                               /\ g <= f => Allocated(f)[g] \in Blob(g)
                               /\ g > f => Allocated(f)[g] = NoBlob
           /\ DOMAIN Allocated(f) = Frame
<1>1. f \in Frame /\ active \in Frame
  BY DEF Layout, TypeOK, Frame
<1>2. \A g \in Frame : NewBlob(g) \in Blob(g)
  BY DEF NewBlob, Blob, Cell
<1>3. \A g \in Frame : g <= active => blob[g] \in Blob(g)
  BY DEF Layout, TypeOK, AllocatedUpToActive
<1>4. \A g \in Frame : g > active => blob[g] = NoBlob
  BY <1>1 DEF Layout, AllocatedUpToActive, Frame
<1>5. \A g \in Frame : g > active => pos[g] = 0
  BY DEF Layout, FramesFilled
<1>6. pos \in [Frame -> Nat]
  BY DEF Layout, TypeOK
<1> QED BY <1>1, <1>2, <1>3, <1>4, <1>5, <1>6 DEF Zeroed, Allocated, Frame

\* A blob in which an object was stored is a blob.
LEMMA WrittenIsBlob ==
    ASSUME NEW f \in Frame, NEW b \in Blob(f),
           NEW a \in Nat, NEW n \in Nat, NEW d \in Data, NEW s \in Nat,
           a + n < FrameSize[f]
    PROVE  /\ Written(b, a, n, d, s) \in Blob(f)
           /\ Written(b, a, n, d, s)[a + n] = s
           /\ \A c \in 0 .. FrameSize[f] - 1 : c < a => Written(b, a, n, d, s)[c] = b[c]
<1>1. FrameSize[f] \in Nat
  BY ConstantFacts
<1>2. b \in [0 .. FrameSize[f] - 1 -> Cell] /\ DOMAIN b = 0 .. FrameSize[f] - 1
  BY DEF Blob
<1>3. ASSUME NEW c \in 0 .. FrameSize[f] - 1
      PROVE  /\ Written(b, a, n, d, s)[c] \in Cell
             /\ c < a => Written(b, a, n, d, s)[c] = b[c]
             /\ c = a + n => Written(b, a, n, d, s)[c] = s
  <2>1. b[c] \in Cell
    BY <1>2
  <2>2. d \in Cell /\ s \in Cell /\ Unset \in Cell
    BY DEF Cell
  <2> QED BY <2>1, <2>2, <1>2 DEF Written
<1>4. DOMAIN Written(b, a, n, d, s) = 0 .. FrameSize[f] - 1
  BY <1>2 DEF Written
<1>5. Written(b, a, n, d, s) = [c \in 0 .. FrameSize[f] - 1 |-> Written(b, a, n, d, s)[c]]
  BY <1>2 DEF Written
<1>6. a + n \in 0 .. FrameSize[f] - 1
  BY <1>1
<1>7. Written(b, a, n, d, s) \in Blob(f)
  BY <1>3, <1>5 DEF Blob
<1> QED BY <1>3, <1>6, <1>7

LEMMA ForgottenIsBlob ==
    ASSUME NEW f \in Frame, NEW b \in Blob(f), NEW p \in Nat
    PROVE  /\ Forgotten(b, p) \in Blob(f)
           /\ \A c \in 0 .. FrameSize[f] - 1 : c < p => Forgotten(b, p)[c] = b[c]
<1>1. b \in [0 .. FrameSize[f] - 1 -> Cell] /\ DOMAIN b = 0 .. FrameSize[f] - 1
  BY DEF Blob
<1>2. Unset \in Cell
  BY DEF Cell
<1> QED BY <1>1, <1>2 DEF Forgotten, Blob

-----------------------------------------------------------------------------
LEMMA NewObjectKeepsLayout ==
    ASSUME Layout, NEW n \in Sizes, NEW d \in Data, NewObject(n, d)
    PROVE  Layout'
<1>1. PICK f \in active .. MaxFrames - 1 :
        /\ FirstWithRoom(f, n)
        /\ active' = f
        /\ pos' = [Zeroed(f) EXCEPT ![f] = Base(f) + n + WordSize]
        /\ blob' = [Allocated(f) EXCEPT ![f] = Written(Allocated(f)[f], Base(f), n, d, n)]
        /\ live' = Append(live, Object(f, Base(f), n))
  BY AllocationKeeps DEF NewObject
<1> DEFINE top == Object(f, Base(f), n)
<1>2. /\ f \in Frame /\ active \in Frame /\ active <= f
      /\ f \in Nat /\ active \in Nat
      /\ n \in Nat /\ Base(f) \in Nat /\ WordSize \in Nat /\ WordSize > 0
      /\ FrameSize[f] \in Nat
      /\ Base(f) + n + WordSize <= FrameSize[f]
  <2>1. f \in Frame /\ active \in Frame
    BY AllocationKeeps
  <2>2. pos[f] \in Nat
    BY <2>1 DEF Layout, TypeOK
  <2> QED BY <1>1, <2>1, <2>2, ConstantFacts DEF Base, FirstWithRoom, HasRoom
<1>3. /\ pos' \in [Frame -> Nat]
      /\ pos'[f] = Base(f) + n + WordSize
      /\ \A g \in Frame : /\ g <= active /\ g # f => pos'[g] = pos[g]
                          /\ g > active /\ g # f => pos'[g] = 0
  BY <1>1, <1>2, AllocationKeeps
<1>4. /\ blob'[f] \in Blob(f)
      /\ blob'[f][Base(f) + n] = n
      /\ \A c \in 0 .. FrameSize[f] - 1 : c < Base(f) => blob'[f][c] = Allocated(f)[f][c]
  <2> DEFINE b == Allocated(f)[f]
  <2>1. b \in Blob(f)
    BY <1>2, AllocationKeeps
  <2>2. Base(f) + n < FrameSize[f]
    BY <1>2
  <2>3. blob'[f] = Written(b, Base(f), n, d, n)
    BY <1>1, <1>2, AllocationKeeps
  <2> HIDE DEF b
  <2>4. /\ Written(b, Base(f), n, d, n) \in Blob(f)
        /\ Written(b, Base(f), n, d, n)[Base(f) + n] = n
        /\ \A c \in 0 .. FrameSize[f] - 1 : c < Base(f) => Written(b, Base(f), n, d, n)[c] = b[c]
    <3> DEFINE base == Base(f)
    <3>1. base \in Nat /\ n \in Nat /\ f \in Frame /\ base + n < FrameSize[f]
      BY <1>2, <2>2
    <3> HIDE DEF base
    <3>2. /\ Written(b, base, n, d, n) \in Blob(f)
          /\ Written(b, base, n, d, n)[base + n] = n
          /\ \A c \in 0 .. FrameSize[f] - 1 : c < base => Written(b, base, n, d, n)[c] = b[c]
      BY <2>1, <3>1, WrittenIsBlob
    <3> QED BY <3>2 DEF base
  <2> QED BY <2>3, <2>4 DEF b
<1>5. \A g \in Frame : /\ g <= f => blob'[g] \in Blob(g)
                       /\ g > f => blob'[g] = NoBlob
                       /\ g <= active /\ g # f => blob'[g] = blob[g]
  BY <1>1, <1>2, <1>4, AllocationKeeps
<1>15. DOMAIN blob' = Frame
  BY <1>1, AllocationKeeps
<1>6. /\ top \in LiveObject /\ top.frame = f /\ top.at = Base(f) /\ top.size = n
      /\ EndOf(top) = pos'[f]
  BY <1>2, <1>3 DEF Object, LiveObject, EndOf
<1>7. /\ live \in Seq(LiveObject) /\ live' \in Seq(LiveObject)
      /\ Len(live) \in Nat /\ Len(live') = Len(live) + 1
      /\ live'[Len(live')] = top
      /\ \A i \in 1 .. Len(live) : live'[i] = live[i]
  BY <1>1, <1>6 DEF Layout, TypeOK
<1>8. \A i \in 1 .. Len(live) : live[i].frame = f => EndOf(live[i]) <= Base(f)
  BY <1>2, WordInBlob DEF Layout, LiveInFrames, Base
<1>9. TypeOK'
  <2>1. \A g \in Frame : blob'[g] = NoBlob \/ blob'[g] \in Blob(g)
    BY <1>2, <1>5 DEF Frame
  <2> QED BY <1>1, <1>2, <1>3, <1>7, <1>15, <2>1 DEF TypeOK
<1>10. AllocatedUpToActive'
  BY <1>1, <1>2, <1>5, BlobIsNotNull DEF AllocatedUpToActive, Frame
<1>11. FramesFilled'
  <2> SUFFICES ASSUME NEW g \in Frame
               PROVE  /\ pos'[g] <= FrameSize[g]
                      /\ g > active' => pos'[g] = 0
                      /\ pos'[g] # 0 => \E i \in 1 .. Len(live') :
                                    live'[i].frame = g /\ EndOf(live'[i]) = pos'[g]
    BY DEF FramesFilled, EndOf
  <2>1. CASE g = f
    <3>1. pos'[g] <= FrameSize[g] /\ ~ (g > active')
      BY <2>1, <1>1, <1>2, <1>3
    <3>2. Len(live') \in 1 .. Len(live') /\ live'[Len(live')] = top
      BY <1>7
    <3> QED BY <2>1, <3>1, <3>2, <1>6
  <2>2. CASE g # f /\ g <= active
    <3>1. pos'[g] = pos[g] /\ pos[g] <= FrameSize[g]
      BY <2>2, <1>3 DEF Layout, FramesFilled
    <3>2. ASSUME pos[g] # 0
          PROVE  \E i \in 1 .. Len(live') : live'[i].frame = g /\ EndOf(live'[i]) = pos'[g]
      <4>1. PICK i \in 1 .. Len(live) : live[i].frame = g /\ EndOf(live[i]) = pos[g]
        BY <3>2 DEF Layout, FramesFilled
      <4>2. i \in 1 .. Len(live') /\ live'[i] = live[i]
        BY <1>7
      <4> QED BY <4>1, <4>2, <3>1
    <3> QED BY <2>2, <3>1, <3>2, <1>1, <1>2 DEF Frame
  <2>3. CASE g # f /\ g > active
    BY <2>3, <1>3, ConstantFacts
  <2> QED BY <2>1, <2>2, <2>3, <1>2 DEF Frame
<1>12. NoGaps'
  <2> SUFFICES ASSUME NEW i \in 1 .. Len(live'), live'[i].at # 0
               PROVE  \E j \in 1 .. Len(live') : /\ live'[j].frame = live'[i].frame
                                                 /\ EndOf(live'[j]) = live'[i].at
    BY DEF NoGaps, EndOf
  <2>1. CASE i \in 1 .. Len(live)
    <3>1. live'[i] = live[i]
      BY <2>1, <1>7
    <3>2. PICK j \in 1 .. Len(live) : live[j].frame = live[i].frame /\ EndOf(live[j]) = live[i].at
      BY <2>1, <3>1 DEF Layout, NoGaps
    <3>3. j \in 1 .. Len(live') /\ live'[j] = live[j]
      BY <1>7
    <3> QED BY <3>1, <3>2, <3>3
  <2>2. CASE i = Len(live')
    <3>1. Base(f) # 0 /\ f = active /\ Base(f) = pos[f]
      BY <2>2, <1>6, <1>7 DEF Base
    <3>2. PICK j \in 1 .. Len(live) : live[j].frame = f /\ EndOf(live[j]) = pos[f]
      BY <3>1, <1>2 DEF Layout, FramesFilled
    <3>3. j \in 1 .. Len(live') /\ live'[j] = live[j]
      BY <1>7
    <3> QED BY <2>2, <3>1, <3>2, <3>3, <1>6, <1>7
  <2> QED BY <2>1, <2>2, <1>7
<1>13. LiveInFrames'
  <2> SUFFICES ASSUME NEW i \in 1 .. Len(live')
               PROVE  /\ live'[i].frame <= active'
                      /\ EndOf(live'[i]) <= pos'[live'[i].frame]
                      /\ blob'[live'[i].frame][live'[i].at + live'[i].size] = live'[i].size
    BY DEF LiveInFrames, EndOf
  <2>1. CASE i \in 1 .. Len(live)
    <3> DEFINE o == live[i]
    <3>1. live'[i] = o
      BY <2>1, <1>7
    <3>2. /\ o.frame \in Frame /\ o.at \in Nat /\ o.size \in Nat /\ o.frame <= active
          /\ o.at + o.size < pos[o.frame] /\ o.at + o.size \in 0 .. FrameSize[o.frame] - 1
          /\ EndOf(o) <= pos[o.frame] /\ blob[o.frame][o.at + o.size] = o.size
      BY <2>1, WordInBlob DEF Layout, LiveInFrames
    <3>3. CASE o.frame # f
      <4>1. o.frame <= active'
        BY <3>2, <1>1, <1>2 DEF Frame
      <4>2. pos'[o.frame] = pos[o.frame] /\ blob'[o.frame] = blob[o.frame]
        BY <3>2, <3>3, <1>3, <1>5
      <4> QED BY <3>1, <3>2, <4>1, <4>2
    <3>4. CASE o.frame = f
      <4>1. f = active /\ Base(f) = pos[f]
        BY <3>2, <3>4, <1>2 DEF Base
      <4>2. o.at + o.size < Base(f)
        BY <3>2, <3>4, <4>1
      <4>3. blob'[f][o.at + o.size] = Allocated(f)[f][o.at + o.size]
        BY <1>4, <3>2, <3>4, <4>2
      <4>4. Allocated(f)[f] = blob[f]
        BY <4>1, <1>2, AllocationKeeps
      <4>5. EndOf(o) <= pos'[f]
        BY <3>2, <3>4, <4>1, <1>2, <1>3 DEF EndOf
      <4> QED BY <3>1, <3>2, <3>4, <4>1, <4>3, <4>4, <4>5, <1>1
    <3> QED BY <3>3, <3>4
  <2>2. CASE i = Len(live')
    <3>1. blob'[f][Base(f) + n] = n
      BY <1>4
    <3> QED BY <2>2, <3>1, <1>1, <1>2, <1>3, <1>6, <1>7
  <2> QED BY <2>1, <2>2, <1>7
<1>14. Ordered'
  <2> SUFFICES ASSUME NEW i \in 1 .. Len(live'), NEW j \in 1 .. i - 1
               PROVE  Before(live'[j], live'[i])
    BY DEF Ordered, Before, EndOf
  <2>1. j \in 1 .. Len(live) /\ live'[j] = live[j]
    BY <1>7
  <2>2. CASE i \in 1 .. Len(live)
    BY <2>1, <2>2, <1>7 DEF Layout, Ordered
  <2>3. CASE i = Len(live')
    <3>1. live[j].frame \in Frame /\ live[j].frame <= active
      BY <2>1, WordInBlob
    <3>2. live[j].frame < f \/ live[j].frame = f
      BY <3>1, <1>2 DEF Frame
    <3> QED BY <2>1, <2>3, <3>2, <1>6, <1>7, <1>8 DEF Before
  <2> QED BY <2>2, <2>3, <1>7
<1> QED BY <1>9, <1>10, <1>11, <1>12, <1>13, <1>14 DEF Layout

-----------------------------------------------------------------------------
\* A refusal only makes the remaining frames, all of them empty.
LEMMA RefusalKeepsLayout ==
    ASSUME Layout,
           active' = MaxFrames - 1,
           pos' = Zeroed(MaxFrames - 1),
           blob' = Allocated(MaxFrames - 1),
           UNCHANGED live
    PROVE  Layout'
<1> DEFINE last == MaxFrames - 1
<1>1. /\ last \in active .. MaxFrames - 1 /\ active \in Frame /\ last \in Frame
      /\ \A g \in Frame : g \in Nat /\ g <= last
  BY ConstantFacts DEF Layout, TypeOK, Frame
<1>2. /\ pos' \in [Frame -> Nat]
      /\ \A g \in Frame : /\ g <= active => pos'[g] = pos[g] /\ blob'[g] = blob[g]
                          /\ g > active => pos'[g] = 0
                          /\ blob'[g] \in Blob(g)
  BY <1>1, AllocationKeeps
<1>3. TypeOK'
  <2>1. DOMAIN blob' = Frame
    BY <1>1, AllocationKeeps
  <2> QED BY <1>1, <1>2, <2>1 DEF Layout, TypeOK
<1>4. AllocatedUpToActive'
  BY <1>1, <1>2, BlobIsNotNull DEF AllocatedUpToActive
<1>5. FramesFilled'
  <2> SUFFICES ASSUME NEW g \in Frame
               PROVE  /\ pos'[g] <= FrameSize[g]
                      /\ pos'[g] # 0 => \E i \in 1 .. Len(live) :
                                    live[i].frame = g /\ EndOf(live[i]) = pos'[g]
    BY <1>1 DEF FramesFilled, EndOf
  <2>1. CASE g <= active
    BY <2>1, <1>2 DEF Layout, FramesFilled
  <2>2. CASE g > active
    BY <2>2, <1>2, ConstantFacts
  <2> QED BY <2>1, <2>2, <1>1
<1>6. NoGaps' /\ Ordered'
  BY DEF Layout, NoGaps, Ordered, EndOf, Before
<1>7. LiveInFrames'
  <2> SUFFICES ASSUME NEW i \in 1 .. Len(live)
               PROVE  /\ live[i].frame <= active'
                      /\ EndOf(live[i]) <= pos'[live[i].frame]
                      /\ blob'[live[i].frame][live[i].at + live[i].size] = live[i].size
    BY DEF LiveInFrames, EndOf
  <2>1. live[i].frame \in Frame /\ live[i].frame <= active
    BY WordInBlob
  <2>2. /\ EndOf(live[i]) <= pos[live[i].frame]
        /\ blob[live[i].frame][live[i].at + live[i].size] = live[i].size
    BY DEF Layout, LiveInFrames
  <2> QED BY <1>1, <1>2, <2>1, <2>2
<1> QED BY <1>3, <1>4, <1>5, <1>6, <1>7 DEF Layout

-----------------------------------------------------------------------------
\* The word in front of mCurrentPosition belongs to the object pushed last.
LEMMA LayoutTop == Layout => TopIsLastPushed
<1> SUFFICES ASSUME Layout, TopReadable
             PROVE  /\ live[Len(live)].frame = active
                    /\ EndOf(live[Len(live)]) = pos[active]
                    /\ TopSize = live[Len(live)].size
                    /\ TopStart = live[Len(live)].at
  BY DEF TopIsLastPushed
<1> DEFINE k == Len(live)
<1>1. k \in Nat /\ k \in 1 .. k /\ active \in Frame /\ pos[active] \in Nat /\ pos[active] # 0
  BY DEF Layout, TypeOK, TopReadable
<1>2. PICK i \in 1 .. k : live[i].frame = active /\ EndOf(live[i]) = pos[active]
  BY <1>1 DEF Layout, FramesFilled
<1>3. /\ live[k].frame \in Frame /\ live[k].frame <= active
      /\ live[k].at \in Nat /\ live[k].size \in Nat
      /\ EndOf(live[k]) <= pos[live[k].frame]
      /\ blob[live[k].frame][live[k].at + live[k].size] = live[k].size
  BY <1>1, WordInBlob DEF Layout, LiveInFrames
<1>4. i = k
  <2> SUFFICES ASSUME i # k PROVE FALSE
    OBVIOUS
  <2>1. Before(live[i], live[k])
    BY <1>1 DEF Layout, Ordered
  <2>2. live[k].frame = active /\ pos[active] <= live[k].at
    BY <2>1, <1>1, <1>2, <1>3 DEF Before, Frame
  <2> QED BY <2>2, <1>1, <1>3, ConstantFacts DEF EndOf
<1>5. live[k].frame = active /\ EndOf(live[k]) = pos[active]
  BY <1>2, <1>4
<1>6. pos[active] - WordSize = live[k].at + live[k].size
  BY <1>1, <1>3, <1>5, ConstantFacts DEF EndOf
<1>7. TopSize = live[k].size
  BY <1>3, <1>5, <1>6 DEF TopSize
<1>8. TopStart = live[k].at
  <2>1. TopStart = pos[active] - live[k].size - WordSize
    BY <1>1, <1>7 DEF TopStart
  <2>2. WordSize \in Nat
    BY ConstantFacts
  <2> QED BY <1>1, <1>3, <1>6, <2>1, <2>2
<1> QED BY <1>5, <1>7, <1>8

\* What the object on top owes to the others: they end in front of it.
LEMMA TopIsAlone ==
    ASSUME Layout, TopReadable, NEW k, k = Len(live)
    PROVE  /\ k \in Nat /\ k \in 1 .. k /\ active \in Frame
           /\ live[k] = Object(active, live[k].at, TopSize)
           /\ live[k].at \in Nat /\ TopSize \in Nat /\ live[k].frame = active
           /\ pos[active] = live[k].at + TopSize + WordSize
           /\ pos[active] \in Nat /\ pos[active] <= FrameSize[active]
           /\ \A i \in 1 .. k - 1 : live[i].frame = active => EndOf(live[i]) <= live[k].at
<1>1. k \in Nat /\ k \in 1 .. k /\ active \in Frame /\ pos[active] \in Nat
  BY DEF Layout, TypeOK, TopReadable
<1>2. /\ live[k].frame = active /\ EndOf(live[k]) = pos[active] /\ TopSize = live[k].size
  BY LayoutTop DEF TopIsLastPushed
<1>3. live[k] \in LiveObject /\ live[k].at \in Nat /\ live[k].size \in Nat
  BY <1>1, WordInBlob
<1>4. live[k] = Object(active, live[k].at, TopSize)
  BY <1>2, <1>3 DEF LiveObject, Object
<1>5. pos[active] = live[k].at + TopSize + WordSize
  BY <1>2 DEF EndOf
<1>6. pos[active] <= FrameSize[active]
  BY <1>1 DEF Layout, FramesFilled
<1>7. ASSUME NEW i \in 1 .. k - 1, live[i].frame = active
      PROVE  EndOf(live[i]) <= live[k].at
  <2>1. Before(live[i], live[k])
    BY <1>1 DEF Layout, Ordered
  <2> QED BY <2>1, <1>1, <1>2, <1>7 DEF Before, Frame
<1> QED BY <1>1, <1>2, <1>3, <1>4, <1>5, <1>6, <1>7

-----------------------------------------------------------------------------
LEMMA DeleteObjectKeepsLayout ==
    ASSUME Layout, DeleteObject
    PROVE  Layout'
<1> DEFINE k == Len(live)
           left == [pos EXCEPT ![active] = pos[active] - (TopSize + WordSize)]
<1>1. /\ TopReadable
      /\ pos' = left
      /\ live' = SubSeq(live, 1, k - 1)
  BY DEF DeleteObject
<1>2. PICK f \in 0 .. active :
        /\ Survivor(f, left)
        /\ active' = f
        /\ blob' = [g \in Frame |-> IF g > f THEN NoBlob ELSE Forgotten(blob[g], left[g])]
  BY DEF DeleteObject
<1>3. /\ k \in Nat /\ k \in 1 .. k /\ active \in Frame
      /\ live[k].at \in Nat /\ TopSize \in Nat /\ live[k].frame = active
      /\ pos[active] = live[k].at + TopSize + WordSize
      /\ \A i \in 1 .. k - 1 : live[i].frame = active => EndOf(live[i]) <= live[k].at
  BY <1>1, TopIsAlone
<1>18. EndOf(live[k]) = pos[active]
  BY <1>1, LayoutTop DEF TopIsLastPushed
<1>4. f \in Frame /\ f <= active /\ \A g \in Frame : g \in Nat
  BY <1>2, <1>3, ConstantFacts DEF Frame
<1>5. /\ pos' \in [Frame -> Nat]
      /\ pos'[active] = live[k].at
      /\ \A g \in Frame : g # active => pos'[g] = pos[g]
  <2>1. pos \in [Frame -> Nat] /\ WordSize \in Nat
    BY ConstantFacts DEF Layout, TypeOK
  <2>2. pos[active] - (TopSize + WordSize) = live[k].at
    BY <2>1, <1>3
  <2> QED BY <1>1, <1>3, <2>1, <2>2
<1>6. /\ live' \in Seq(LiveObject) /\ Len(live') = k - 1
      /\ \A i \in 1 .. k - 1 : live'[i] = live[i]
  <2>1. live \in Seq(LiveObject)
    BY DEF Layout, TypeOK
  <2>2. \A i \in 1 .. k - 1 : live[i] \in LiveObject
    BY <1>3, <2>1, ElementOfSeq
  <2>3. /\ SubSeq(live, 1, k - 1) \in Seq(LiveObject)
        /\ Len(SubSeq(live, 1, k - 1)) = IF 1 <= k - 1 THEN k - 1 - 1 + 1 ELSE 0
        /\ \A i \in 1 .. k - 1 - 1 + 1 : SubSeq(live, 1, k - 1)[i] = live[1 + i - 1]
    BY <1>3, <2>2, SubSeqProperties
  <2>4. Len(SubSeq(live, 1, k - 1)) = k - 1
    <3>1. k \in Nat /\ k >= 1
      BY <1>3
    <3> HIDE DEF k
    <3>2. (IF 1 <= k - 1 THEN k - 1 - 1 + 1 ELSE 0) = k - 1
      BY <3>1
    <3> QED BY <2>3, <3>2
  <2>5. ASSUME NEW i \in 1 .. k - 1
        PROVE  SubSeq(live, 1, k - 1)[i] = live[i]
    <3>1. 1 + i - 1 = i /\ i \in 1 .. k - 1 - 1 + 1
      BY <1>3
    <3> QED BY <2>3, <3>1
  <2> QED BY <1>1, <2>3, <2>4, <2>5
<1>7. \A g \in Frame : g > f => pos'[g] = 0
  <2> SUFFICES ASSUME NEW g \in Frame, g > f PROVE pos'[g] = 0
    OBVIOUS
  <2>1. CASE g <= active
    BY <2>1, <1>1, <1>2, <1>3, <1>4 DEF Survivor, Frame
  <2>2. CASE g > active
    <3>1. pos[g] = 0
      BY <2>2 DEF Layout, FramesFilled
    <3>2. g # active
      BY <2>2, <1>3, ConstantFacts DEF Frame
    <3> QED BY <3>1, <3>2, <1>5
  <2> QED BY <2>1, <2>2, <1>3, ConstantFacts DEF Frame
<1>8. \A i \in 1 .. k - 1 : /\ live[i].frame \in Frame
                            /\ live[i].at \in Nat /\ live[i].size \in Nat
                            /\ live[i].at + live[i].size \in 0 .. FrameSize[live[i].frame] - 1
                            /\ EndOf(live[i]) <= pos'[live[i].frame]
  <2> SUFFICES ASSUME NEW i \in 1 .. k - 1
               PROVE  /\ live[i].frame \in Frame
                      /\ live[i].at \in Nat /\ live[i].size \in Nat
                      /\ live[i].at + live[i].size \in 0 .. FrameSize[live[i].frame] - 1
                      /\ EndOf(live[i]) <= pos'[live[i].frame]
    OBVIOUS
  <2>1. /\ live[i].frame \in Frame /\ live[i].at \in Nat /\ live[i].size \in Nat
        /\ live[i].at + live[i].size \in 0 .. FrameSize[live[i].frame] - 1
        /\ EndOf(live[i]) <= pos[live[i].frame]
    BY <1>3, WordInBlob DEF Layout, LiveInFrames
  <2> QED BY <2>1, <1>3, <1>5
<1>9. \A i \in 1 .. k - 1 : live[i].frame <= f
  <2> SUFFICES ASSUME NEW i \in 1 .. k - 1, ~ (live[i].frame <= f) PROVE FALSE
    OBVIOUS
  <2>1. live[i].frame \in Frame /\ live[i].frame > f
    <3>1. live[i].frame \in Frame
      BY <1>8
    <3>2. \A g \in Frame : g <= f \/ g > f
      BY <1>3, ConstantFacts DEF Frame
    <3> QED BY <3>1, <3>2
  <2>2. pos'[live[i].frame] = 0
    BY <1>7, <2>1
  <2> QED BY <2>2, <1>8, ConstantFacts DEF EndOf
<1>10. \A g \in Frame : /\ g > f => blob'[g] = NoBlob
                        /\ g <= f => /\ blob'[g] \in Blob(g)
                                     /\ \A c \in 0 .. FrameSize[g] - 1 :
                                          c < pos'[g] => blob'[g][c] = blob[g][c]
  <2> SUFFICES ASSUME NEW g \in Frame
               PROVE  /\ g > f => blob'[g] = NoBlob
                      /\ g <= f => /\ blob'[g] \in Blob(g)
                                   /\ \A c \in 0 .. FrameSize[g] - 1 :
                                        c < pos'[g] => blob'[g][c] = blob[g][c]
    OBVIOUS
  <2>1. CASE g > f
    <3>1. blob'[g] = NoBlob
      BY <2>1, <1>2
    <3>2. ~ (g <= f)
      BY <2>1, <1>2, <1>3, ConstantFacts DEF Frame
    <3> QED BY <3>1, <3>2
  <2>2. CASE g <= f
    <3>1. blob[g] \in Blob(g)
      <4>1. g <= active
        BY <2>2, <1>2, <1>3, ConstantFacts DEF Frame
      <4> QED BY <4>1 DEF Layout, TypeOK, AllocatedUpToActive
    <3>2. blob'[g] = Forgotten(blob[g], pos'[g])
      BY <2>2, <1>1, <1>2, <1>4
    <3>3. PICK p \in Nat : p = pos'[g]
      BY <1>5
    <3>4. /\ Forgotten(blob[g], p) \in Blob(g)
          /\ \A c \in 0 .. FrameSize[g] - 1 : c < p => Forgotten(blob[g], p)[c] = blob[g][c]
      BY <3>1, ForgottenIsBlob
    <3>5. blob'[g] = Forgotten(blob[g], p)
      BY <3>2, <3>3
    <3>6. blob'[g] \in Blob(g) /\ \A c \in 0 .. FrameSize[g] - 1 :
                                     c < pos'[g] => blob'[g][c] = blob[g][c]
      BY <3>3, <3>4, <3>5
    <3>7. ~ (g > f)
      BY <2>2, <1>2, <1>3, ConstantFacts DEF Frame
    <3> QED BY <3>6, <3>7
  <2> QED BY <2>1, <2>2, <1>2, <1>3, ConstantFacts DEF Frame
<1>11. TypeOK'
  <2>1. \A g \in Frame : blob'[g] = NoBlob \/ blob'[g] \in Blob(g)
    BY <1>4, <1>10
  <2>2. DOMAIN blob' = Frame
    BY <1>2
  <2> QED BY <2>1, <2>2, <1>2, <1>4, <1>5, <1>6 DEF TypeOK
<1>12. AllocatedUpToActive'
  BY <1>2, <1>4, <1>10, BlobIsNotNull DEF AllocatedUpToActive
<1>13. \A i \in 1 .. k : i # k => i \in 1 .. Len(live') /\ live'[i] = live[i]
  BY <1>3, <1>6
<1>14. FramesFilled'
  <2> SUFFICES ASSUME NEW g \in Frame
               PROVE  /\ pos'[g] <= FrameSize[g]
                      /\ pos'[g] # 0 => \E i \in 1 .. Len(live') :
                                    live'[i].frame = g /\ EndOf(live'[i]) = pos'[g]
    BY <1>2, <1>7 DEF FramesFilled, EndOf
  <2>1. CASE g = active
    <3>1. pos'[g] <= FrameSize[g]
      <4>1. pos[active] <= FrameSize[active] /\ FrameSize[active] \in Nat
        BY <1>3, ConstantFacts DEF Layout, FramesFilled
      <4>2. pos'[active] = live[k].at
        BY <1>5
      <4>3. WordSize \in Nat
        BY ConstantFacts
      <4> QED BY <2>1, <1>3, <4>1, <4>2, <4>3
    <3>2. ASSUME pos'[g] # 0
          PROVE  \E i \in 1 .. Len(live') : live'[i].frame = g /\ EndOf(live'[i]) = pos'[g]
      <4>1. PICK j \in 1 .. k : live[j].frame = active /\ EndOf(live[j]) = live[k].at
        BY <2>1, <3>2, <1>3, <1>5 DEF Layout, NoGaps
      <4>2. j # k
        BY <4>1, <1>3, <1>18, ConstantFacts
      <4> QED BY <2>1, <4>1, <4>2, <1>5, <1>13
    <3> QED BY <3>1, <3>2
  <2>2. CASE g # active
    <3>1. pos'[g] = pos[g] /\ pos[g] <= FrameSize[g]
      BY <2>2, <1>5 DEF Layout, FramesFilled
    <3>2. ASSUME pos'[g] # 0
          PROVE  \E i \in 1 .. Len(live') : live'[i].frame = g /\ EndOf(live'[i]) = pos'[g]
      <4>1. PICK j \in 1 .. k : live[j].frame = g /\ EndOf(live[j]) = pos[g]
        BY <3>1, <3>2 DEF Layout, FramesFilled
      <4>2. j # k
        BY <2>2, <4>1, <1>3
      <4> QED BY <3>1, <4>1, <4>2, <1>13
    <3> QED BY <3>1, <3>2
  <2> QED BY <2>1, <2>2
<1>15. NoGaps'
  <2> SUFFICES ASSUME NEW i \in 1 .. Len(live'), live'[i].at # 0
               PROVE  \E j \in 1 .. Len(live') : live'[j].frame = live'[i].frame
                                                /\ EndOf(live'[j]) = live'[i].at
    BY DEF NoGaps, EndOf
  <2>0. i \in 1 .. k - 1 /\ i \in 1 .. k /\ live'[i] = live[i]
    BY <1>3, <1>6
  <2>1. PICK j \in 1 .. k : live[j].frame = live[i].frame /\ EndOf(live[j]) = live[i].at
    BY <2>0 DEF Layout, NoGaps
  <2>2. j # k
    <3> SUFFICES ASSUME j = k PROVE FALSE
      OBVIOUS
    <3>1. EndOf(live[i]) <= live[k].at /\ live[i].at \in Nat /\ live[i].size \in Nat
      BY <2>0, <2>1, <1>3, <1>8
    <3>2. live[i].at = pos[active] /\ live[k].at \in Nat /\ TopSize \in Nat
      BY <2>1, <1>3, <1>18
    <3>3. WordSize \in Nat /\ WordSize > 0
      BY ConstantFacts
    <3>4. live[i].at + live[i].size + WordSize <= live[k].at
      BY <3>1 DEF EndOf
    <3>5. pos[active] = live[k].at + TopSize + WordSize
      BY <1>3
    <3> QED BY <3>1, <3>2, <3>3, <3>4, <3>5, NotInFront
  <2> QED BY <2>0, <2>1, <2>2, <1>13
<1>16. LiveInFrames'
  <2> SUFFICES ASSUME NEW i \in 1 .. k - 1
               PROVE  /\ live[i].frame <= f
                      /\ EndOf(live[i]) <= pos'[live[i].frame]
                      /\ blob'[live[i].frame][live[i].at + live[i].size] = live[i].size
    BY <1>2, <1>3, <1>6 DEF LiveInFrames, EndOf
  <2>1. blob[live[i].frame][live[i].at + live[i].size] = live[i].size
    BY <1>3 DEF Layout, LiveInFrames
  <2>2. live[i].at + live[i].size < pos'[live[i].frame]
    BY <1>5, <1>8, ConstantFacts DEF EndOf
  <2> QED BY <2>1, <2>2, <1>8, <1>9, <1>10
<1>17. Ordered'
  <2> SUFFICES ASSUME NEW i \in 1 .. Len(live'), NEW j \in 1 .. i - 1
               PROVE  Before(live'[j], live'[i])
    BY DEF Ordered, Before, EndOf
  <2>1. i \in 1 .. k - 1 /\ j \in 1 .. k - 1 /\ i \in 1 .. k
    BY <1>3, <1>6
  <2>2. Before(live[j], live[i])
    BY <2>1 DEF Layout, Ordered
  <2>3. live'[i] = live[i] /\ live'[j] = live[j]
    BY <2>1, <1>6
  <2> QED BY <2>2, <2>3
<1> QED BY <1>11, <1>12, <1>14, <1>15, <1>16, <1>17 DEF Layout

-----------------------------------------------------------------------------
\* The object on top, the k-th, becomes o, which ends at mCurrentPosition of
\* frame f, active from now on; the bytes in front of it stay.
Regrown(k, f, o) ==
    /\ k = Len(live)
    /\ f \in Frame /\ active <= f /\ active' = f
    /\ o \in LiveObject /\ o.frame = f
    /\ o.at = IF f = active THEN live[k].at ELSE 0
    /\ live' = [live EXCEPT ![k] = o]
    /\ pos' \in [Frame -> Nat]
    /\ pos'[f] = EndOf(o) /\ pos'[f] <= FrameSize[f]
    /\ f # active => pos'[active] = live[k].at
    /\ DOMAIN blob' = Frame
    /\ \A g \in Frame : /\ g < active => pos'[g] = pos[g]
                        /\ g > active /\ g # f => pos'[g] = 0
                        /\ g <= f => blob'[g] \in Blob(g)
                        /\ g > f => blob'[g] = NoBlob
                        /\ g < active => blob'[g] = blob[g]
    /\ \A c \in 0 .. FrameSize[active] - 1 :
          c < live[k].at => blob'[active][c] = blob[active][c]
    /\ blob'[f][o.at + o.size] = o.size

\* Both ways of growing do this, and it keeps the layout.
LEMMA RegrownTopKeepsLayout ==
    ASSUME Layout, TopReadable, NEW k, NEW f, NEW o, Regrown(k, f, o)
    PROVE  Layout'
<1> USE DEF Regrown
<1>1. /\ k \in Nat /\ k \in 1 .. k /\ active \in Frame
      /\ live[k].at \in Nat /\ TopSize \in Nat /\ live[k].frame = active
      /\ pos[active] = live[k].at + TopSize + WordSize
      /\ pos[active] <= FrameSize[active]
      /\ \A i \in 1 .. k - 1 : live[i].frame = active => EndOf(live[i]) <= live[k].at
  BY TopIsAlone
<1>2. EndOf(live[k]) = pos[active]
  BY LayoutTop DEF TopIsLastPushed
<1>3. /\ live' \in Seq(LiveObject) /\ Len(live') = k /\ live'[k] = o
      /\ \A i \in 1 .. k - 1 : live'[i] = live[i]
  <2>1. live \in Seq(LiveObject)
    BY DEF Layout, TypeOK
  <2> QED BY <1>1, <2>1, ExceptSeq
<1>4. /\ o.at \in Nat /\ o.size \in Nat /\ WordSize \in Nat /\ WordSize > 0
      /\ pos'[f] = o.at + o.size + WordSize
  BY ConstantFacts DEF LiveObject, EndOf
<1>5. ASSUME NEW i \in 1 .. k - 1
      PROVE  /\ live[i].frame \in Frame /\ live[i].frame <= active
             /\ live[i].at \in Nat /\ live[i].size \in Nat
             /\ live[i].at + live[i].size \in 0 .. FrameSize[live[i].frame] - 1
             /\ EndOf(live[i]) <= pos[live[i].frame]
             /\ blob[live[i].frame][live[i].at + live[i].size] = live[i].size
             /\ Before(live[i], live[k])
  BY <1>1, WordInBlob DEF Layout, LiveInFrames, Ordered
<1>6. \A g \in Frame : g < active \/ g = active \/ (g > active /\ g # f) \/ (g = f /\ g # active)
  BY <1>1, ConstantFacts DEF Frame
<1>7. TypeOK'
  <2>1. \A g \in Frame : blob'[g] = NoBlob \/ blob'[g] \in Blob(g)
    BY ConstantFacts DEF Frame
  <2> QED BY <1>3, <2>1 DEF TypeOK
<1>8. AllocatedUpToActive'
  BY BlobIsNotNull, ConstantFacts DEF AllocatedUpToActive, Frame
<1>9. ASSUME NEW g \in Frame, g = active, g # f
      PROVE  /\ pos'[g] <= FrameSize[g]
             /\ pos'[g] # 0 => \E i \in 1 .. k - 1 : live[i].frame = g /\ EndOf(live[i]) = pos'[g]
  <2>1. pos'[g] = live[k].at
    BY <1>9
  <2>2. pos'[g] <= FrameSize[g]
    BY <2>1, <1>1, <1>4, <1>9, ConstantFacts
  <2>3. ASSUME pos'[g] # 0
        PROVE  \E i \in 1 .. k - 1 : live[i].frame = g /\ EndOf(live[i]) = pos'[g]
    <3>1. PICK j \in 1 .. k : live[j].frame = active /\ EndOf(live[j]) = live[k].at
      BY <2>1, <2>3, <1>1 DEF Layout, NoGaps
    <3>2. j # k
      BY <3>1, <1>1, <1>2, <1>4
    <3>3. j \in 1 .. k - 1
      BY <3>2, <1>1
    <3> QED BY <3>1, <3>3, <2>1, <1>9
  <2> QED BY <2>2, <2>3
<1>10. ASSUME NEW g \in Frame, g < active
       PROVE  /\ pos'[g] <= FrameSize[g]
              /\ pos'[g] # 0 => \E i \in 1 .. k - 1 : live[i].frame = g /\ EndOf(live[i]) = pos'[g]
  <2>1. pos'[g] = pos[g] /\ pos[g] <= FrameSize[g]
    BY <1>10 DEF Layout, FramesFilled
  <2>2. ASSUME pos'[g] # 0
        PROVE  \E i \in 1 .. k - 1 : live[i].frame = g /\ EndOf(live[i]) = pos'[g]
    <3>1. PICK j \in 1 .. k : live[j].frame = g /\ EndOf(live[j]) = pos[g]
      BY <2>1, <2>2 DEF Layout, FramesFilled
    <3>2. g # active
      BY <1>10, <1>1, ConstantFacts DEF Frame
    <3>3. j # k
      BY <3>1, <3>2, <1>1
    <3>4. j \in 1 .. k - 1
      BY <3>3, <1>1
    <3> QED BY <3>1, <3>4, <2>1
  <2> QED BY <2>1, <2>2
<1>11. FramesFilled'
  <2> SUFFICES ASSUME NEW g \in Frame
               PROVE  /\ pos'[g] <= FrameSize[g]
                      /\ g > f => pos'[g] = 0
                      /\ pos'[g] # 0 => \E i \in 1 .. k : live'[i].frame = g /\ EndOf(live'[i]) = pos'[g]
    BY <1>3 DEF FramesFilled, EndOf
  <2>1. CASE g = f
    BY <2>1, <1>1, <1>3, ConstantFacts DEF Frame
  <2>2. CASE g # f /\ g > active
    BY <2>2, ConstantFacts
  <2>3. CASE g # f /\ (g = active \/ g < active)
    <3>1. ~ (g > f)
      BY <2>3, <1>1, ConstantFacts DEF Frame
    <3>2. \A i \in 1 .. k - 1 : i \in 1 .. k /\ live'[i] = live[i]
      BY <1>1, <1>3
    <3>3. /\ pos'[g] <= FrameSize[g]
          /\ pos'[g] # 0 => \E i \in 1 .. k - 1 : live[i].frame = g /\ EndOf(live[i]) = pos'[g]
      BY <2>3, <1>9, <1>10
    <3> QED BY <3>1, <3>2, <3>3
  <2> QED BY <2>1, <2>2, <2>3, <1>6
<1>12. NoGaps'
  <2> SUFFICES ASSUME NEW i \in 1 .. k, live'[i].at # 0
               PROVE  \E j \in 1 .. k : live'[j].frame = live'[i].frame
                                        /\ EndOf(live'[j]) = live'[i].at
    BY <1>3 DEF NoGaps, EndOf
  <2>1. live[i].frame = live'[i].frame /\ live[i].at = live'[i].at
    <3>1. CASE i = k
      BY <3>1, <1>1, <1>3
    <3>2. CASE i \in 1 .. k - 1
      BY <3>2, <1>3
    <3> QED BY <3>1, <3>2, <1>1
  <2>2. PICK j \in 1 .. k : live[j].frame = live[i].frame /\ EndOf(live[j]) = live[i].at
    BY <2>1 DEF Layout, NoGaps
  <2>3. j # k
    <3>1. CASE i = k
      BY <3>1, <2>2, <1>1, <1>2, <1>4
    <3>2. CASE i \in 1 .. k - 1
      <4>1. live[i].frame = active => EndOf(live[i]) <= live[k].at
        BY <3>2, <1>1
      <4>2. live[i].at \in Nat /\ live[i].size \in Nat
        BY <3>2, <1>5
      <4>3. j = k => live[i].frame = active /\ live[i].at = pos[active]
        BY <2>2, <1>1, <1>2
      <4>4. live[i].at + live[i].size + WordSize = EndOf(live[i])
        BY DEF EndOf
      <4> SUFFICES ASSUME j = k PROVE FALSE
        OBVIOUS
      <4>5. live[i].at + live[i].size + WordSize <= live[k].at
        BY <4>1, <4>3, <4>4
      <4>6. live[i].at = live[k].at + TopSize + WordSize
        BY <4>3, <1>1
      <4>7. live[k].at \in Nat /\ TopSize \in Nat
        BY <1>1
      <4>8. WordSize \in Nat /\ WordSize > 0
        BY <1>4
      <4> DEFINE at == live[i].at  size == live[i].size  top == live[k].at  n == TopSize
      <4>9. /\ at \in Nat /\ size \in Nat /\ top \in Nat /\ n \in Nat
            /\ at = top + n + WordSize /\ at + size + WordSize <= top
        BY <4>2, <4>5, <4>6, <4>7
      <4> HIDE DEF at, size, top, n, Regrown
      <4> QED BY <4>8, <4>9, NotInFront
    <3> QED BY <3>1, <3>2, <1>1
  <2>4. live'[j] = live[j]
    BY <2>3, <1>1, <1>3
  <2> QED BY <2>1, <2>2, <2>4
<1>13. LiveInFrames'
  <2> SUFFICES ASSUME NEW i \in 1 .. k
               PROVE  /\ live'[i].frame <= f
                      /\ EndOf(live'[i]) <= pos'[live'[i].frame]
                      /\ blob'[live'[i].frame][live'[i].at + live'[i].size] = live'[i].size
    BY <1>3 DEF LiveInFrames, EndOf
  <2>1. CASE i = k
    BY <2>1, <1>3, <1>4, ConstantFacts DEF Frame, EndOf
  <2>2. CASE i \in 1 .. k - 1
    <3> DEFINE p == live[i]
    <3>1. /\ p.frame \in Frame /\ p.frame <= active /\ p.at \in Nat /\ p.size \in Nat
          /\ p.at + p.size \in 0 .. FrameSize[p.frame] - 1
          /\ EndOf(p) <= pos[p.frame]
          /\ blob[p.frame][p.at + p.size] = p.size
      BY <2>2, <1>5
    <3>2. live'[i] = p
      BY <2>2, <1>3
    <3>3. /\ p.frame \in Nat /\ active \in Nat /\ p.frame <= f
      <4>1. p.frame \in Nat /\ active \in Nat /\ f \in Nat
        BY <3>1, <1>1, FrameIsNat
      <4> HIDE DEF p
      <4> QED BY <4>1, <3>1
    <3>4. CASE p.frame = active
      <4>1. EndOf(p) <= live[k].at
        BY <3>4, <2>2, <1>1
      <4>2. p.at + p.size < live[k].at
        BY <4>1, <3>1, <1>1, <1>4 DEF EndOf
      <4>3. live[k].at <= pos'[active]
        BY <1>1, <1>4
      <4>4. EndOf(p) <= pos'[active]
        BY <3>1, <4>1, <4>3, <1>1, <1>4 DEF EndOf
      <4>5. blob'[active][p.at + p.size] = p.size
        BY <3>1, <3>4, <4>2
      <4> QED BY <3>2, <3>3, <3>4, <4>4, <4>5
    <3>5. CASE p.frame < active
      BY <3>1, <3>2, <3>3, <3>5
    <3>6. p.frame = active \/ p.frame < active
      BY <3>1, <3>3
    <3> QED BY <3>4, <3>5, <3>6
  <2> QED BY <2>1, <2>2, <1>1
<1>14. Ordered'
  <2> SUFFICES ASSUME NEW i \in 1 .. k, NEW j \in 1 .. i - 1
               PROVE  Before(live'[j], live'[i])
    BY <1>3 DEF Ordered, Before, EndOf
  <2>1. j \in 1 .. k - 1 /\ live'[j] = live[j]
    BY <1>1, <1>3
  <2>2. CASE i \in 1 .. k - 1
    BY <2>1, <2>2, <1>3 DEF Layout, Ordered
  <2>3. CASE i = k
    <3>1. CASE f = active
      <4>1. live[j].frame < active \/ live[j].frame = active
        <5>1. live[j].frame \in Frame /\ live[j].frame <= active
          BY <2>1, <1>5
        <5>2. live[j].frame \in Nat /\ active \in Nat
          BY <5>1, <1>1, FrameIsNat
        <5> QED BY ONLY <5>1, <5>2
      <4>2. live'[i].frame = active /\ live'[i].at = live[k].at
        BY <2>3, <3>1, <1>3
      <4>3. live[j].frame = active => EndOf(live[j]) <= live[k].at
        BY <2>1, <1>1
      <4> QED BY <2>1, <4>1, <4>2, <4>3 DEF Before
    <3>2. CASE f # active
      <4>1. live[j].frame < f
        <5>1. live[j].frame \in Frame /\ live[j].frame <= active /\ active <= f
          BY <2>1, <1>5
        <5>2. live[j].frame \in Nat /\ active \in Nat /\ f \in Nat
          BY <5>1, <1>1, FrameIsNat
        <5> QED BY <5>1, <5>2, <3>2
      <4> QED BY <2>1, <2>3, <4>1, <1>3 DEF Before
    <3> QED BY <3>1, <3>2
  <2> QED BY <2>2, <2>3, <1>1
<1> QED BY <1>7, <1>8, <1>11, <1>12, <1>13, <1>14 DEF Layout

-----------------------------------------------------------------------------
LEMMA GrowInPlaceKeepsLayout ==
    ASSUME Layout, NEW n \in Sizes, NEW d \in Data, GrowInPlace(n, d)
    PROVE  Layout'
<1>0. PICK k : k = Len(live)
  OBVIOUS
<1> DEFINE end == live[k].at + TopSize
<1>1. /\ TopReadable /\ Fits(n)
      /\ pos' = [pos EXCEPT ![active] = pos[active] + n]
      /\ blob' = [blob EXCEPT ![active] =
                     Written(blob[active], pos[active] - WordSize, n, d, TopSize + n)]
      /\ live' = [live EXCEPT ![k] = Object(active, live[k].at, TopSize + n)]
      /\ active' = active
  BY <1>0 DEF GrowInPlace
<1>2. /\ k \in Nat /\ k \in 1 .. k /\ active \in Frame
      /\ live[k].at \in Nat /\ TopSize \in Nat /\ live[k].frame = active
      /\ pos[active] = live[k].at + TopSize + WordSize
      /\ pos[active] \in Nat
      /\ \A i \in 1 .. k - 1 : live[i].frame = active => EndOf(live[i]) <= live[k].at
  BY <1>0, <1>1, TopIsAlone
<1>3. n \in Nat /\ WordSize \in Nat /\ WordSize > 0 /\ FrameSize[active] \in Nat
  BY <1>2, ConstantFacts
<1>4. /\ pos[active] + n <= FrameSize[active] /\ pos[active] - WordSize = end /\ end \in Nat
      /\ end + n < FrameSize[active] /\ TopSize + n \in Nat
  <2>1. pos[active] + n <= FrameSize[active]
    BY <1>1 DEF Fits
  <2> HIDE DEF end
  <2>2. end = live[k].at + TopSize
    BY DEF end
  <2> QED BY <2>1, <2>2, <1>2, <1>3
<1>5. /\ blob'[active] \in Blob(active)
      /\ blob'[active][end + n] = TopSize + n
      /\ \A c \in 0 .. FrameSize[active] - 1 : c < end => blob'[active][c] = blob[active][c]
      /\ \A g \in Frame : g # active => blob'[g] = blob[g]
  <2> DEFINE b == blob[active]
             size == TopSize + n
  <2>1. b \in Blob(active)
    BY <1>2 DEF Layout, TypeOK, AllocatedUpToActive, Frame
  <2>2. blob' = [blob EXCEPT ![active] = Written(b, end, n, d, size)]
    BY <1>1, <1>4
  <2>3. size \in Nat /\ end \in Nat /\ end + n < FrameSize[active]
    BY <1>4
  <2> HIDE DEF b, size, end
  <2>4. /\ Written(b, end, n, d, size) \in Blob(active)
        /\ Written(b, end, n, d, size)[end + n] = size
        /\ \A c \in 0 .. FrameSize[active] - 1 : c < end => Written(b, end, n, d, size)[c] = b[c]
    BY <2>1, <2>3, <1>2, <1>3, WrittenIsBlob
  <2>5. active \in DOMAIN blob /\ DOMAIN blob = Frame
    BY <1>2 DEF Layout, TypeOK
  <2>6. /\ blob'[active] = Written(b, end, n, d, size)
        /\ \A g \in Frame : g # active => blob'[g] = blob[g]
    BY <2>2, <2>5
  <2> QED BY <2>4, <2>6 DEF b, size
<1>6. /\ pos' \in [Frame -> Nat]
      /\ pos'[active] = pos[active] + n
      /\ \A g \in Frame : g # active => pos'[g] = pos[g]
  <2>1. pos[active] + n \in Nat
    BY <1>2, <1>3
  <2>2. pos \in [Frame -> Nat]
    BY DEF Layout, TypeOK
  <2> QED BY <2>1, <2>2, <1>1, <1>2
<1> DEFINE o == Object(active, live[k].at, TopSize + n)
<1>7. /\ o \in LiveObject /\ o.frame = active /\ o.at = live[k].at /\ o.size = TopSize + n
      /\ EndOf(o) = pos'[active]
  BY <1>2, <1>3, <1>4, <1>6 DEF LiveObject, Object, EndOf
<1>8. live' = [live EXCEPT ![k] = o]
  BY <1>1
<1>9. \A g \in Frame : /\ g < active => g # active
                       /\ g > active => pos'[g] = 0
                       /\ g <= active => blob'[g] \in Blob(g)
                       /\ g > active => blob'[g] = NoBlob
  <2>1. \A g \in Frame : /\ g < active => g # active
                         /\ g > active => g # active
    BY <1>2, ConstantFacts
  <2>2. \A g \in Frame : /\ g > active => pos[g] = 0 /\ blob[g] = NoBlob
                         /\ g <= active => blob[g] \in Blob(g)
    BY <1>2, ConstantFacts DEF Layout, TypeOK, FramesFilled, AllocatedUpToActive, Frame
  <2> QED BY <2>1, <2>2, <1>5, <1>6
<1>10. \A g \in Frame : /\ g < active => pos'[g] = pos[g]
                        /\ g > active /\ g # active => pos'[g] = 0
                        /\ g <= active => blob'[g] \in Blob(g)
                        /\ g > active => blob'[g] = NoBlob
                        /\ g < active => blob'[g] = blob[g]
  BY <1>5, <1>6, <1>9
<1>11. \A c \in 0 .. FrameSize[active] - 1 : c < live[k].at => blob'[active][c] = blob[active][c]
  BY <1>2, <1>4, <1>5
<1>12. blob'[active][o.at + o.size] = o.size
  <2>1. o.at + o.size = end + n
    BY <1>2, <1>3, <1>7
  <2> QED BY <2>1, <1>5, <1>7
<1>13. pos'[active] <= FrameSize[active] /\ active <= active
  BY <1>2, <1>4, <1>6, ConstantFacts
<1>14. DOMAIN blob' = Frame
  BY <1>1 DEF Layout, TypeOK
<1> HIDE DEF o
<1>15. Regrown(k, active, o)
  BY <1>0, <1>1, <1>2, <1>6, <1>7, <1>8, <1>10, <1>11, <1>12, <1>13, <1>14 DEF Regrown
<1> QED BY <1>1, <1>15, RegrownTopKeepsLayout

-----------------------------------------------------------------------------
LEMMA CopiedIsBlob ==
    ASSUME NEW f \in Frame, NEW g \in Frame, NEW b \in Blob(f), NEW old \in Blob(g),
           NEW start \in Nat, NEW size \in Nat, start + size <= FrameSize[g]
    PROVE  Copied(b, old, start, size) \in Blob(f)
<1>1. /\ b \in [0 .. FrameSize[f] - 1 -> Cell]
      /\ old \in [0 .. FrameSize[g] - 1 -> Cell]
      /\ FrameSize[f] \in Nat /\ FrameSize[g] \in Nat
  BY ConstantFacts DEF Blob
<1>2. ASSUME NEW c \in 0 .. FrameSize[f] - 1, c < size
      PROVE  old[start + c] \in Cell
  <2>1. start + c \in 0 .. FrameSize[g] - 1
    BY <1>1, <1>2
  <2> QED BY <1>1, <2>1
<1>3. Copied(b, old, start, size) \in [0 .. FrameSize[f] - 1 -> Cell]
  BY <1>1, <1>2 DEF Copied
<1> QED BY <1>3 DEF Blob

LEMMA GrowByMovingKeepsLayout ==
    ASSUME Layout, NEW n \in Sizes, NEW d \in Data, GrowByMoving(n, d)
    PROVE  Layout'
<1>0. PICK k : k = Len(live)
  OBVIOUS
<1> DEFINE size == TopSize
           start == pos[active] - size - WordSize
<1>1. TopReadable
  BY DEF GrowByMoving
<1>2. PICK f \in active + 1 .. MaxFrames - 1 :
        /\ FrameSize[f] >= size + n + WordSize
        /\ active' = f
        /\ pos' = [Zeroed(f) EXCEPT ![f] = size + n + WordSize, ![active] = start]
        /\ blob' = [Allocated(f) EXCEPT
                       ![active] = Forgotten(@, start),
                       ![f] = Written(Copied(@, blob[active], start, size), size, n, d, size + n)]
        /\ live' = [live EXCEPT ![k] = Object(f, 0, size + n)]
  BY <1>0 DEF GrowByMoving
<1>3. /\ k \in Nat /\ k \in 1 .. k /\ active \in Frame
      /\ live[k].at \in Nat /\ size \in Nat
      /\ pos[active] = live[k].at + size + WordSize
      /\ pos[active] <= FrameSize[active]
  BY <1>0, <1>1, TopIsAlone
<1>4. /\ n \in Nat /\ WordSize \in Nat /\ WordSize > 0 /\ MaxFrames \in Nat
      /\ \A g \in Frame : g \in Nat /\ FrameSize[g] \in Nat
  BY ConstantFacts
<1>5. f \in active .. MaxFrames - 1 /\ f \in Frame /\ f # active /\ active < f /\ active <= f
  BY <1>2, <1>3, <1>4 DEF Frame
<1> HIDE DEF size
<1>6. start = live[k].at /\ start \in Nat /\ start + size <= FrameSize[active]
  BY <1>3, <1>4
<1> HIDE DEF start
<1>7. /\ pos' \in [Frame -> Nat]
      /\ pos'[f] = size + n + WordSize
      /\ pos'[active] = start
      /\ \A g \in Frame : g # f /\ g # active => pos'[g] = Zeroed(f)[g]
  <2>1. Zeroed(f) \in [Frame -> Nat] /\ size + n + WordSize \in Nat
    BY <1>3, <1>4, <1>5, AllocationKeeps
  <2> QED BY <2>1, <1>2, <1>3, <1>5, <1>6
<1> DEFINE new == Allocated(f)[f]
           copy == Copied(new, blob[active], start, size)
           grown == size + n
<1>8. /\ blob'[active] = Forgotten(blob[active], start)
      /\ blob'[f] = Written(copy, size, n, d, grown)
      /\ \A g \in Frame : g # f /\ g # active => blob'[g] = Allocated(f)[g]
      /\ DOMAIN blob' = Frame
  <2>1. DOMAIN Allocated(f) = Frame /\ Allocated(f)[active] = blob[active]
    BY <1>3, <1>5, AllocationKeeps
  <2> QED BY <2>1, <1>2, <1>3, <1>5
<1>9. new \in Blob(f) /\ blob[active] \in Blob(active)
  BY <1>3, <1>4, <1>5, AllocationKeeps DEF Layout, TypeOK, AllocatedUpToActive
<1>10. copy \in Blob(f)
  BY <1>3, <1>5, <1>6, <1>9, CopiedIsBlob
<1>11. grown \in Nat /\ size + n < FrameSize[f] /\ FrameSize[f] \in Nat
  BY <1>2, <1>3, <1>4, <1>5
<1> HIDE DEF copy, new, grown
<1>12. blob'[f] \in Blob(f) /\ blob'[f][size + n] = grown
  <2>1. Written(copy, size, n, d, grown) \in Blob(f) /\ Written(copy, size, n, d, grown)[size + n] = grown
    BY <1>3, <1>4, <1>5, <1>10, <1>11, WrittenIsBlob
  <2> QED BY <2>1, <1>8
<1>13. /\ blob'[active] \in Blob(active)
       /\ \A c \in 0 .. FrameSize[active] - 1 : c < start => blob'[active][c] = blob[active][c]
  <2> DEFINE b == blob[active]
  <2>1. b \in Blob(active)
    BY <1>9
  <2>2. blob'[active] = Forgotten(b, start)
    BY <1>8
  <2> HIDE DEF b
  <2>3. /\ Forgotten(b, start) \in Blob(active)
        /\ \A c \in 0 .. FrameSize[active] - 1 : c < start => Forgotten(b, start)[c] = b[c]
    BY <2>1, <1>3, <1>6, ForgottenIsBlob
  <2> QED BY <2>2, <2>3 DEF b
<1>14. \A g \in Frame : /\ g < active => pos'[g] = pos[g]
                        /\ g > active /\ g # f => pos'[g] = 0
                        /\ g <= f => blob'[g] \in Blob(g)
                        /\ g > f => blob'[g] = NoBlob
                        /\ g < active => blob'[g] = blob[g]
  <2> SUFFICES ASSUME NEW g \in Frame
               PROVE  /\ g < active => pos'[g] = pos[g]
                      /\ g > active /\ g # f => pos'[g] = 0
                      /\ g <= f => blob'[g] \in Blob(g)
                      /\ g > f => blob'[g] = NoBlob
                      /\ g < active => blob'[g] = blob[g]
    OBVIOUS
  <2>1. CASE g = f
    BY <2>1, <1>4, <1>5, <1>3, <1>12
  <2>2. CASE g = active
    BY <2>2, <1>4, <1>5, <1>3, <1>13
  <2>3. CASE g # f /\ g # active
    <3>1. pos'[g] = Zeroed(f)[g] /\ blob'[g] = Allocated(f)[g]
      BY <2>3, <1>7, <1>8
    <3>2. g < active => g <= active
      BY <1>3, <1>4
    <3> QED BY <2>3, <3>1, <3>2, <1>5, AllocationKeeps
  <2> QED BY <2>1, <2>2, <2>3
<1> DEFINE o == Object(f, 0, grown)
<1>15. o \in LiveObject /\ o.frame = f /\ o.at = 0 /\ o.size = grown
  BY <1>5, <1>11 DEF Object, LiveObject
<1>16. pos'[f] = EndOf(o)
  BY <1>3, <1>4, <1>7, <1>15 DEF EndOf, grown
<1>17. pos'[f] <= FrameSize[f]
  BY <1>2, <1>3, <1>4, <1>5, <1>7
<1>18. live' = [live EXCEPT ![k] = o]
  BY <1>2 DEF grown
<1>19. blob'[f][o.at + o.size] = o.size
  <2>1. o.at + o.size = size + n
    BY <1>3, <1>4, <1>15 DEF grown
  <2> QED BY <2>1, <1>12, <1>15
<1> HIDE DEF o
<1>20. Regrown(k, f, o)
  BY <1>0, <1>2, <1>5, <1>6, <1>7, <1>8, <1>13, <1>14, <1>15, <1>16, <1>17, <1>18, <1>19 DEF Regrown
<1> QED BY <1>1, <1>20, RegrownTopKeepsLayout

-----------------------------------------------------------------------------
(* Layout holds in every reachable state, for every number and size of      *)
(* frames and every request: frames are filled without gaps, in push order, *)
(* each object with its size behind it (newObject, growObject,              *)
(* deleteObject).                                                           *)
THEOREM LayoutInvariant == Spec => []Layout
<1>1. Layout /\ [Next]_vars => Layout'
  <2> SUFFICES ASSUME Layout, [Next]_vars PROVE Layout'
    OBVIOUS
  <2>1. CASE \E n \in Sizes, d \in Data : NewObject(n, d)
    BY <2>1, NewObjectKeepsLayout
  <2>2. CASE \E n \in Sizes, d \in Data : GrowInPlace(n, d)
    BY <2>2, GrowInPlaceKeepsLayout
  <2>3. CASE \E n \in Sizes, d \in Data : GrowByMoving(n, d)
    BY <2>3, GrowByMovingKeepsLayout
  <2>4. CASE \E n \in Sizes : NewObjectRefused(n)
    BY <2>4, RefusalKeepsLayout DEF NewObjectRefused
  <2>5. CASE \E n \in Sizes : GrowRefused(n)
    BY <2>5, RefusalKeepsLayout DEF GrowRefused
  <2>6. CASE DeleteObject
    BY <2>6, DeleteObjectKeepsLayout
  <2>7. CASE UNCHANGED vars
    BY <2>7 DEF vars, Layout, TypeOK, AllocatedUpToActive, FramesFilled, NoGaps,
                LiveInFrames, Ordered, Before, EndOf
  <2> QED BY <2>1, <2>2, <2>3, <2>4, <2>5, <2>6, <2>7 DEF Next
<1> QED BY <1>1, InitLayout, PTL DEF Spec

(* The manager's fields keep their types, whatever is requested.            *)
THEOREM TypeCorrect == Spec => []TypeOK
<1>1. Layout => TypeOK
  BY DEF Layout
<1> QED BY <1>1, LayoutInvariant, PTL

(* No caller ever gets memory that overlaps another live object, a size     *)
(* word, or the end of a frame, however objects are grown and moved.        *)
THEOREM ObjectsNeverOverlap == Spec => []LiveObjectsDisjoint
<1>1. Layout => LiveObjectsDisjoint
  <2> SUFFICES ASSUME Layout, NEW i \in 1 .. Len(live)
               PROVE  /\ blob[live[i].frame] # NoBlob
                      /\ EndOf(live[i]) <= FrameSize[live[i].frame]
                      /\ \A j \in 1 .. i - 1 : Before(live[j], live[i])
    BY DEF LiveObjectsDisjoint
  <2>1. live[i].frame \in Frame /\ live[i].frame <= active
        /\ live[i].at \in Nat /\ live[i].size \in Nat
    BY WordInBlob
  <2>2. EndOf(live[i]) <= pos[live[i].frame]
    BY DEF Layout, LiveInFrames
  <2>3. pos[live[i].frame] \in Nat /\ pos[live[i].frame] <= FrameSize[live[i].frame]
    BY <2>1 DEF Layout, TypeOK, FramesFilled
  <2>4. EndOf(live[i]) <= FrameSize[live[i].frame]
    BY <2>1, <2>2, <2>3, ConstantFacts DEF EndOf
  <2> QED BY <2>1, <2>4 DEF Layout, AllocatedUpToActive, Ordered
<1> QED BY <1>1, LayoutInvariant, PTL

(* Whenever deleteObject, growObject or top read a size in front of         *)
(* mCurrentPosition, they read the size of the object pushed last.          *)
THEOREM TopIsAlwaysLastPushed == Spec => []TopIsLastPushed
BY LayoutTop, LayoutInvariant, PTL

-----------------------------------------------------------------------------

\* Every set of numbers has a smallest one.
LEMMA Smallest ==
    ASSUME NEW N \in SUBSET Nat, N # {}
    PROVE  \E m \in N : \A n \in N : m <= n
<1>1. PICK m \in N : \A n \in N : ~ (<<n, m>> \in OpToRel(<, Nat))
  BY WFMin, NatLessThanWellFounded
<1>2. ASSUME NEW n \in N PROVE m <= n
  <2>1. n \in Nat /\ m \in Nat  OBVIOUS
  <2>2. ~ (n < m)  BY <1>1, <2>1 DEF OpToRel
  <2> QED  BY <2>1, <2>2
<1> QED  BY <1>2

-----------------------------------------------------------------------------
(* The stack is in memory.                                                  *)

\* f walks down from a position, by prev, to one where it stops, and then appends what it met.
Walks(m, stop, prev, found, f) ==
    f = [p \in 0 .. m |-> IF p \in stop THEN << >> ELSE f[prev[p]] \o found[p]]
GoesDown(m, stop, prev) == \A p \in 0 .. m : p \notin stop => prev[p] \in 0 .. p - 1

LEMMA WalkExists ==
    ASSUME NEW m \in Nat, NEW stop, NEW prev, NEW found, GoesDown(m, stop, prev)
    PROVE  \E f : Walks(m, stop, prev, found, f)
<1> DEFINE Bad == {k \in Nat : k <= m /\ ~ \E f : Walks(k, stop, prev, found, f)}
<1>1. SUFFICES ASSUME Bad # {} PROVE FALSE
  <2>1. m \notin Bad => \E f : Walks(m, stop, prev, found, f)  OBVIOUS
  <2> QED  BY <2>1
<1>2. PICK k \in Bad : \A l \in Bad : k <= l
  <2>1. Bad \in SUBSET Nat  OBVIOUS
  <2> HIDE DEF Bad
  <2> QED  BY <1>1, <2>1, Smallest
<1>3. k \in Nat /\ k <= m /\ ~ \E f : Walks(k, stop, prev, found, f)  BY <1>2
<1>4. ASSUME NEW g, NEW D, D = {p \in 0 .. k : p < k},
             \A p \in D : g[p] = IF p \in stop THEN << >> ELSE g[prev[p]] \o found[p]
      PROVE  FALSE
  <2> DEFINE h == [p \in 0 .. k |-> IF p \in stop THEN << >> ELSE g[prev[p]] \o found[p]]
  <2>1. \A p \in D : h[p] = g[p]  BY <1>4
  <2>2. ASSUME NEW p \in 0 .. k
        PROVE  h[p] = IF p \in stop THEN << >> ELSE h[prev[p]] \o found[p]
    <3>1. h[p] = IF p \in stop THEN << >> ELSE g[prev[p]] \o found[p]  OBVIOUS
    <3> HIDE DEF h
    <3>2. ASSUME p \notin stop PROVE h[prev[p]] = g[prev[p]]
      <4>1. p \in 0 .. m  BY <1>3
      <4>2. prev[p] \in 0 .. p - 1  BY <4>1, <3>2 DEF GoesDown
      <4>3. prev[p] \in D  BY <4>2, <1>3, <1>4
      <4> QED  BY <4>3, <2>1
    <3> QED  BY <3>1, <3>2
  <2>3. h = [p \in 0 .. k |-> h[p]]  OBVIOUS
  <2> HIDE DEF h, Bad
  <2>4. h = [p \in 0 .. k |-> IF p \in stop THEN << >> ELSE h[prev[p]] \o found[p]]
    BY <2>2, <2>3, Zenon
  <2> QED  BY <1>3, <2>4 DEF Walks
<1>5. CASE k = 0
  <2>1. {p \in 0 .. k : p < k} = {}  BY <1>5
  <2> HIDE DEF Bad
  <2> QED  BY <1>4, <2>1
<1>6. CASE k # 0
  <2>1. k - 1 \in Nat /\ k - 1 <= m /\ ~ (k <= k - 1)  BY <1>3, <1>6
  <2>2. PICK g : Walks(k - 1, stop, prev, found, g)  BY <1>2, <2>1
  <2>3. \A p \in 0 .. k - 1 : g[p] = IF p \in stop THEN << >> ELSE g[prev[p]] \o found[p]
    BY <2>2 DEF Walks
  <2>4. {p \in 0 .. k : p < k} = 0 .. k - 1  BY <1>3, <1>6
  <2> HIDE DEF Bad
  <2> QED  BY <1>4, <2>3, <2>4
<1> QED  BY <1>5, <1>6

\* What the walk through a frame finds at a position.
LEMMA WalkInFrame ==
    ASSUME NEW f \in Frame
    PROVE  \A p \in 0 .. FrameSize[f] :
              ObjectsBelow(f)[p] =
                  IF ~ EndsObject(f, p) THEN << >>
                  ELSE ObjectsBelow(f)[StartBelow(f, p)]
                       \o << Bytes(f, StartBelow(f, p), blob[f][p - WordSize]) >>
<1> DEFINE m == FrameSize[f]
           stop == {p \in 0 .. m : ~ EndsObject(f, p)}
           prev == [p \in 0 .. m |-> StartBelow(f, p)]
           found == [p \in 0 .. m |-> << Bytes(f, StartBelow(f, p), blob[f][p - WordSize]) >>]
           Is(g) == g = [p \in 0 .. m |->
                           IF ~ EndsObject(f, p) THEN << >>
                           ELSE g[StartBelow(f, p)]
                                \o << Bytes(f, StartBelow(f, p), blob[f][p - WordSize]) >>]
<1>1. m \in Nat  BY ConstantFacts
<1>2. GoesDown(m, stop, prev)
  <2> SUFFICES ASSUME NEW p \in 0 .. m, p \notin stop PROVE prev[p] \in 0 .. p - 1
    BY DEF GoesDown
  <2> DEFINE n == blob[f][p - WordSize]
  <2>1. p >= WordSize /\ n \in 0 .. p - WordSize  BY DEF EndsObject
  <2>2. prev[p] = p - WordSize - n  BY DEF StartBelow
  <2> HIDE DEF n, prev
  <2> QED  BY <1>1, <2>1, <2>2, ConstantFacts
<1>3. PICK g : Walks(m, stop, prev, found, g)
  <2> HIDE DEF m, stop, prev, found
  <2> QED  BY <1>1, <1>2, WalkExists
<1>4. Is(g)
  <2>1. \A p \in 0 .. m : /\ p \in stop <=> ~ EndsObject(f, p)
                          /\ prev[p] = StartBelow(f, p)
                          /\ found[p] = << Bytes(f, StartBelow(f, p), blob[f][p - WordSize]) >>
    OBVIOUS
  <2>2. g = [p \in 0 .. m |-> IF p \in stop THEN << >> ELSE g[prev[p]] \o found[p]]
    BY <1>3 DEF Walks
  <2> HIDE DEF m, stop, prev, found
  <2>3. \A p \in 0 .. m : (IF p \in stop THEN << >> ELSE g[prev[p]] \o found[p])
                          = (IF ~ EndsObject(f, p) THEN << >>
                             ELSE g[StartBelow(f, p)]
                                  \o << Bytes(f, StartBelow(f, p), blob[f][p - WordSize]) >>)
    BY <2>1
  <2> QED  BY <2>2, <2>3
<1>5. ObjectsBelow(f) = CHOOSE h : Is(h)  BY DEF ObjectsBelow
<1> HIDE DEF Is
<1>6. Is(ObjectsBelow(f))  BY <1>4, <1>5
<1> QED  BY <1>6 DEF Is

\* The objects in the frames below each frame.
InFramesBelow ==
    CHOOSE b : b = [f \in 0 .. MaxFrames |-> IF f = 0 THEN << >> ELSE b[f - 1] \o ObjectsIn(f - 1)]

LEMMA WalkThroughFrames ==
    /\ StackInMemory = InFramesBelow[MaxFrames]
    /\ InFramesBelow[0] = << >>
    /\ \A f \in Frame : InFramesBelow[f + 1] = InFramesBelow[f] \o ObjectsIn(f)
<1> DEFINE m == MaxFrames
           stop == {0}
           prev == [f \in 0 .. m |-> f - 1]
           found == [f \in 0 .. m |-> ObjectsIn(f - 1)]
           Is(b) == b = [f \in 0 .. MaxFrames |-> IF f = 0 THEN << >> ELSE b[f - 1] \o ObjectsIn(f - 1)]
<1>1. m \in Nat /\ m > 0  BY ConstantFacts
<1>2. GoesDown(m, stop, prev)  BY <1>1 DEF GoesDown
<1>3. PICK g : Walks(m, stop, prev, found, g)
  <2> HIDE DEF m, stop, prev, found
  <2> QED  BY <1>1, <1>2, WalkExists
<1>4. Is(g)  BY <1>3 DEF Walks
<1>5. InFramesBelow = CHOOSE b : Is(b)  BY DEF InFramesBelow
<1>6. StackInMemory = InFramesBelow[MaxFrames]  BY DEF StackInMemory, InFramesBelow
<1> HIDE DEF Is
<1>7. Is(InFramesBelow)  BY <1>4, <1>5
<1>8. \A f \in 0 .. m : InFramesBelow[f] = IF f = 0 THEN << >> ELSE InFramesBelow[f - 1] \o ObjectsIn(f - 1)
  BY <1>7 DEF Is
<1>9. ASSUME NEW f \in Frame PROVE InFramesBelow[f + 1] = InFramesBelow[f] \o ObjectsIn(f)
  <2>1. f + 1 \in 0 .. m /\ f + 1 # 0 /\ (f + 1) - 1 = f  BY <1>1 DEF Frame
  <2> QED  BY <1>8, <2>1
<1>10. 0 \in 0 .. m  BY <1>1
<1> QED  BY <1>6, <1>8, <1>9, <1>10

\* What is in the objects that callers hold.
Contents(i) == Bytes(live[i].frame, live[i].at, live[i].size)
Contained == {Contents(i) : i \in 1 .. Len(live)}
First(i) == [j \in 1 .. i |-> Contents(j)]
LiveStack == First(Len(live))

LEMMA FirstFacts ==
    ASSUME Layout
    PROVE  /\ Len(live) \in Nat
           /\ First(0) = << >>
           /\ \A i \in 0 .. Len(live) : First(i) \in Seq(Contained) /\ Len(First(i)) = i
           /\ \A i \in 1 .. Len(live) : First(i) = First(i - 1) \o << Contents(i) >>
<1>1. Len(live) \in Nat  BY DEF Layout, TypeOK
<1>2. \A i \in 1 .. Len(live) : Contents(i) \in Contained  BY DEF Contained
<1> HIDE DEF Contained
<1>3. ASSUME NEW i \in 0 .. Len(live) PROVE First(i) \in Seq(Contained) /\ Len(First(i)) = i
  <2>1. First(i) \in [1 .. i -> Contained]  BY <1>1, <1>2 DEF First
  <2>2. i \in Nat  BY <1>1
  <2> HIDE DEF First
  <2> QED  BY <2>1, <2>2
<1>4. ASSUME NEW i \in 1 .. Len(live) PROVE First(i) = First(i - 1) \o << Contents(i) >>
  <2> DEFINE C(j) == Contents(j)
             a == First(i - 1)
             c == Contents(i)
             s == a \o << c >>
             t == First(i)
  <2>1. i - 1 \in 0 .. Len(live) /\ i \in 0 .. Len(live) /\ i \in Nat  BY <1>1
  <2>2. a \in Seq(Contained) /\ Len(a) = i - 1 /\ t \in Seq(Contained) /\ Len(t) = i  BY <1>3, <2>1
  <2>3. \A j \in 1 .. i - 1 : a[j] = Contents(j)  BY DEF First
  <2>4. \A j \in 1 .. i : t[j] = Contents(j)  BY DEF First
  <2>5. c \in Contained  BY <1>2
  <2>6. t[i] = c  BY <2>1, <2>4
  <2> HIDE DEF a, c, t
  <2>7. s \in Seq(Contained) /\ Len(s) = i /\ s[i] = c /\ \A j \in 1 .. i - 1 : s[j] = a[j]
    BY <2>1, <2>2, <2>5
  <2> HIDE DEF s
  <2>8. \A j \in 1 .. i : s[j] = t[j]
    <3> SUFFICES ASSUME NEW j \in 1 .. i PROVE s[j] = t[j]  OBVIOUS
    <3>1. j = i \/ j \in 1 .. i - 1  BY <2>1
    <3> QED  BY <3>1, <2>3, <2>4, <2>6, <2>7
  <2>9. s = t  BY <2>1, <2>2, <2>7, <2>8, SeqEqual
  <2> QED  BY <2>9 DEF a, c, t, s
<1>5. First(0) = << >>  BY DEF First
<1> QED  BY <1>1, <1>3, <1>4, <1>5

\* Frames of objects do not go down the stack.
LEMMA FramesGoUp ==
    ASSUME Layout, NEW i \in 1 .. Len(live), NEW j \in 1 .. Len(live), j <= i
    PROVE  live[j].frame <= live[i].frame
<1>1. live[i].frame \in Nat /\ live[j].frame \in Nat  BY WordInBlob, FrameIsNat
<1>2. CASE j = i  BY <1>1, <1>2
<1>3. CASE j # i
  <2>1. j \in 1 .. i - 1  BY <1>3
  <2>2. Before(live[j], live[i])  BY <2>1 DEF Layout, Ordered
  <2> QED  BY <1>1, <2>2 DEF Before
<1> QED  BY <1>2, <1>3

\* What is in front of an object in its frame is the end of the one below it on the stack.
LEMMA Predecessor ==
    ASSUME Layout, NEW i \in 1 .. Len(live)
    PROVE  \/ live[i].at = 0 /\ (i > 1 => live[i - 1].frame < live[i].frame)
           \/ /\ live[i].at > 0 /\ i > 1 /\ live[i - 1].frame = live[i].frame
              /\ EndOf(live[i - 1]) = live[i].at
<1> DEFINE End(j) == EndOf(live[j])
<1>0. Len(live) \in Nat  BY DEF Layout, TypeOK
<1>1. \A j \in 1 .. Len(live) : /\ live[j].frame \in Nat /\ live[j].at \in Nat /\ live[j].size \in Nat
                                /\ End(j) \in Nat /\ End(j) > live[j].at /\ End(j) > 0
  BY WordInBlob, FrameIsNat, ConstantFacts DEF EndOf
<1>2. \A h \in 1 .. Len(live) : \A j \in 1 .. h - 1 :
         live[j].frame = live[h].frame => End(j) <= live[h].at
  <2> SUFFICES ASSUME NEW h \in 1 .. Len(live), NEW j \in 1 .. h - 1, live[j].frame = live[h].frame
               PROVE  End(j) <= live[h].at
    OBVIOUS
  <2>1. Before(live[j], live[h])  BY DEF Layout, Ordered
  <2>2. j \in 1 .. Len(live)  BY <1>0
  <2> QED  BY <1>1, <2>1, <2>2 DEF Before
<1> HIDE DEF End
<1>3. CASE live[i].at = 0
  <2> SUFFICES ASSUME i > 1 PROVE live[i - 1].frame < live[i].frame  BY <1>3
  <2>1. i - 1 \in 1 .. Len(live) /\ i - 1 \in 1 .. i - 1 /\ i - 1 <= i  BY <1>0
  <2>2. live[i - 1].frame <= live[i].frame  BY <2>1, FramesGoUp
  <2>3. live[i - 1].frame # live[i].frame
    <3>1. End(i - 1) > 0 /\ End(i - 1) \in Nat  BY <1>1, <2>1
    <3> QED  BY <1>2, <1>3, <2>1, <3>1
  <2> QED  BY <1>1, <2>1, <2>2, <2>3
<1>4. CASE live[i].at # 0
  <2>1. PICK j \in 1 .. Len(live) : live[j].frame = live[i].frame /\ End(j) = live[i].at
    BY <1>4 DEF Layout, NoGaps, End
  <2>2. ~ (j > i)
    <3> SUFFICES ASSUME j > i PROVE FALSE  OBVIOUS
    <3>1. i \in 1 .. j - 1  BY <1>0
    <3>2. End(i) <= live[j].at  BY <1>2, <2>1, <3>1
    <3> QED  BY <1>1, <2>1, <3>2
  <2>3. j # i  BY <1>1, <2>1
  <2>4. j \in 1 .. i - 1  BY <2>2, <2>3
  <2>5. j = i - 1
    <3> SUFFICES ASSUME j # i - 1 PROVE FALSE  OBVIOUS
    <3> DEFINE h == i - 1
    <3>1. h \in 1 .. Len(live) /\ h \in 1 .. i - 1 /\ j \in 1 .. h - 1 /\ j <= h /\ h <= i
      BY <1>0, <2>4
    <3> HIDE DEF h
    <3>2. live[j].frame <= live[h].frame /\ live[h].frame <= live[i].frame  BY <3>1, FramesGoUp
    <3>3. live[h].frame = live[i].frame /\ live[j].frame = live[h].frame
      BY <1>1, <2>1, <3>1, <3>2
    <3>4. End(j) <= live[h].at /\ End(h) <= live[i].at  BY <1>2, <3>1, <3>3
    <3> QED  BY <1>1, <2>1, <3>1, <3>4
  <2>6. live[i].at > 0  BY <1>1, <1>4
  <2> QED  BY <2>1, <2>4, <2>5, <2>6 DEF End
<1> QED  BY <1>3, <1>4

\* A frame that is not empty has a last object, which ends at mCurrentPosition.
LEMMA LastInFrame ==
    ASSUME Layout, NEW f \in Frame
    PROVE  /\ pos[f] = 0 => \A i \in 1 .. Len(live) : live[i].frame # f
           /\ pos[f] # 0 => \E i \in 1 .. Len(live) :
                               /\ live[i].frame = f /\ EndOf(live[i]) = pos[f]
                               /\ \A j \in 1 .. Len(live) : live[j].frame = f => j <= i
<1> DEFINE End(j) == EndOf(live[j])
<1>0. Len(live) \in Nat /\ pos[f] \in Nat  BY DEF Layout, TypeOK
<1>1. \A j \in 1 .. Len(live) : /\ live[j].at \in Nat /\ End(j) \in Nat /\ End(j) > live[j].at
                                /\ End(j) > 0 /\ End(j) <= pos[live[j].frame]
  BY WordInBlob, ConstantFacts DEF EndOf, Layout, LiveInFrames
<1> HIDE DEF End
<1>2. ASSUME pos[f] = 0, NEW i \in 1 .. Len(live), live[i].frame = f PROVE FALSE
  BY <1>1, <1>2
<1>3. ASSUME pos[f] # 0
      PROVE  \E i \in 1 .. Len(live) : /\ live[i].frame = f /\ End(i) = pos[f]
                                       /\ \A j \in 1 .. Len(live) : live[j].frame = f => j <= i
  <2>1. PICK i \in 1 .. Len(live) : live[i].frame = f /\ End(i) = pos[f]
    BY <1>3 DEF Layout, FramesFilled, End
  <2>2. ASSUME NEW j \in 1 .. Len(live), live[j].frame = f PROVE j <= i
    <3> SUFFICES ASSUME j > i PROVE FALSE  BY <1>0
    <3>1. i \in 1 .. j - 1  BY <1>0
    <3>2. Before(live[i], live[j])  BY <3>1 DEF Layout, Ordered
    <3>3. live[i].frame \in Nat /\ live[j].frame \in Nat  BY FrameIsNat, <2>1, <2>2
    <3>4. End(i) <= live[j].at  BY <2>1, <2>2, <3>2, <3>3 DEF Before, End
    <3>5. End(j) <= pos[f]  BY <1>1, <2>2
    <3> QED  BY <1>0, <1>1, <2>1, <3>4, <3>5
  <2> QED  BY <2>1, <2>2
<1> QED  BY <1>2, <1>3 DEF End

\* How many objects are in the frames up to f.
CountUpTo(f, i) == /\ i \in 0 .. Len(live)
                   /\ i > 0 => live[i].frame <= f
                   /\ i < Len(live) => live[i + 1].frame > f

\* An object is read back from its end.
LEMMA ObjectIsRead ==
    ASSUME Layout, NEW i \in 1 .. Len(live), NEW f, f = live[i].frame
    PROVE  /\ f \in Frame /\ EndOf(live[i]) \in 0 .. FrameSize[f] /\ live[i].at \in 0 .. FrameSize[f]
           /\ ObjectsBelow(f)[EndOf(live[i])] = ObjectsBelow(f)[live[i].at] \o << Contents(i) >>
           /\ ObjectsBelow(f)[0] = << >>
<1> DEFINE a == live[i].at
           n == live[i].size
           p == EndOf(live[i])
<1>1. /\ f \in Frame /\ a \in Nat /\ n \in Nat /\ p = a + n + WordSize
      /\ a + n \in 0 .. FrameSize[f] - 1 /\ p <= pos[f] /\ pos[f] <= FrameSize[f] /\ pos[f] \in Nat
      /\ blob[f][a + n] = n
  BY WordInBlob DEF EndOf, Layout, LiveInFrames, FramesFilled, TypeOK
<1>2. WordSize \in Nat /\ WordSize > 0 /\ FrameSize[f] \in Nat  BY <1>1, ConstantFacts
<1>3. p \in 0 .. FrameSize[f] /\ a \in 0 .. FrameSize[f] /\ 0 \in 0 .. FrameSize[f]
  <2> HIDE DEF a, n, p
  <2> QED  BY <1>1, <1>2
<1>4. p - WordSize = a + n /\ p - WordSize - n = a /\ p >= WordSize /\ n \in 0 .. p - WordSize
  <2> HIDE DEF a, n, p
  <2> QED  BY <1>1, <1>2
<1>5. EndsObject(f, p) /\ StartBelow(f, p) = a  BY <1>1, <1>4 DEF EndsObject, StartBelow
<1>6. ~ EndsObject(f, 0)  BY <1>2 DEF EndsObject
<1>7. Contents(i) = Bytes(f, a, n)  BY DEF Contents
<1>8. ObjectsBelow(f)[p] = ObjectsBelow(f)[a] \o << Bytes(f, a, n) >>
  <2> HIDE DEF a, n, p
  <2>1. ObjectsBelow(f)[p] =
           IF ~ EndsObject(f, p) THEN << >>
           ELSE ObjectsBelow(f)[StartBelow(f, p)]
                \o << Bytes(f, StartBelow(f, p), blob[f][p - WordSize]) >>
    BY <1>1, <1>3, WalkInFrame
  <2>2. blob[f][p - WordSize] = n  BY <1>1, <1>4
  <2> QED  BY <2>1, <2>2, <1>5
<1>9. ObjectsBelow(f)[0] = << >>
  <2> HIDE DEF a, n, p
  <2> QED  BY <1>1, <1>3, <1>6, WalkInFrame
<1> QED  BY <1>1, <1>3, <1>7, <1>8, <1>9

\* If what is below a frame is read back, what is in it up to an object is, too.
LEMMA FrameIsRead ==
    ASSUME Layout, NEW f \in Frame,
           \A i \in 0 .. Len(live) : CountUpTo(f - 1, i) => InFramesBelow[f] = First(i)
    PROVE  \A i \in 1 .. Len(live) : live[i].frame = f =>
              /\ ObjectsBelow(f)[EndOf(live[i])] \in Seq(Contained)
              /\ InFramesBelow[f] \in Seq(Contained)
              /\ InFramesBelow[f] \o ObjectsBelow(f)[EndOf(live[i])] = First(i)
<1> DEFINE b == InFramesBelow[f]
           w(i) == ObjectsBelow(f)[EndOf(live[i])]
           Read(i) == w(i) \in Seq(Contained) /\ b \in Seq(Contained) /\ b \o w(i) = First(i)
           Bad == {i \in 1 .. Len(live) : live[i].frame = f /\ ~ Read(i)}
<1>1. SUFFICES ASSUME Bad # {} PROVE FALSE  OBVIOUS
<1>2. Len(live) \in Nat  BY FirstFacts
<1>3. PICK i \in Bad : \A m \in Bad : i <= m
  <2>1. \A j \in Bad : j \in 1 .. Len(live)  OBVIOUS
  <2> HIDE DEF Bad
  <2>2. Bad \in SUBSET Nat  BY <1>2, <2>1
  <2> QED  BY <1>1, <2>2, Smallest
<1>4. i \in 1 .. Len(live) /\ live[i].frame = f /\ ~ Read(i)  BY <1>3
<1>5. /\ w(i) = ObjectsBelow(f)[live[i].at] \o << Contents(i) >>
      /\ ObjectsBelow(f)[0] = << >>
  BY <1>4, ObjectIsRead
<1>6. /\ First(i) = First(i - 1) \o << Contents(i) >> /\ First(i - 1) \in Seq(Contained)
      /\ << Contents(i) >> \in Seq(Contained)
  <2>1. i - 1 \in 0 .. Len(live)  BY <1>2, <1>4
  <2>2. First(i) = First(i - 1) \o << Contents(i) >>  BY <1>4, FirstFacts
  <2>3. First(i - 1) \in Seq(Contained)  BY <2>1, FirstFacts
  <2> DEFINE c == Contents(i)
  <2>4. c \in Contained  BY <1>4 DEF Contained
  <2> HIDE DEF c
  <2>5. << c >> \in Seq(Contained)  BY <2>4
  <2> QED  BY <2>2, <2>3, <2>5 DEF c
<1> HIDE DEF w
<1>7. CASE live[i].at = 0 /\ (i > 1 => live[i - 1].frame < live[i].frame)
  <2>1. b = First(i - 1)
    <3>1. i - 1 \in 0 .. Len(live) /\ (i - 1) + 1 = i  BY <1>2, <1>4
    <3>2. i - 1 > 0 => live[i - 1].frame <= f - 1
      <4> SUFFICES ASSUME i - 1 > 0 PROVE live[i - 1].frame <= f - 1  OBVIOUS
      <4>1. i - 1 \in 1 .. Len(live) /\ i > 1  BY <3>1, <1>4
      <4>2. live[i - 1].frame \in Nat /\ f \in Nat  BY <4>1, WordInBlob, FrameIsNat
      <4> QED  BY <4>1, <4>2, <1>4, <1>7
    <3>3. i - 1 < Len(live) => live[(i - 1) + 1].frame > f - 1
      <4>1. f \in Nat  BY FrameIsNat
      <4> QED  BY <3>1, <4>1, <1>4
    <3>4. CountUpTo(f - 1, i - 1)  BY <3>1, <3>2, <3>3 DEF CountUpTo
    <3> QED  BY <3>1, <3>4
  <2>2. w(i) = << >> \o << Contents(i) >>  BY <1>5, <1>7
  <2> DEFINE c == << Contents(i) >>
  <2> HIDE DEF b, c, Contained
  <2>3. << >> \o c = c  BY <1>6 DEF c
  <2> QED  BY <2>1, <2>2, <2>3, <1>4, <1>6 DEF c
<1>8. CASE /\ live[i].at > 0 /\ i > 1 /\ live[i - 1].frame = live[i].frame
           /\ EndOf(live[i - 1]) = live[i].at
  <2>1. i - 1 \in 1 .. Len(live) /\ ~ (i <= i - 1)  BY <1>2, <1>4, <1>8
  <2>2. Read(i - 1)  BY <1>3, <1>4, <1>8, <2>1
  <2> DEFINE v == w(i - 1)
             c == << Contents(i) >>
  <2>3. w(i) = v \o c  BY <1>5, <1>8 DEF w
  <2> HIDE DEF b, v, c, Bad, Contained
  <2>4. v \in Seq(Contained) /\ b \in Seq(Contained) /\ c \in Seq(Contained) /\ b \o v = First(i - 1)
    BY <2>2, <1>6 DEF v, c
  <2>5. v \o c \in Seq(Contained) /\ b \o (v \o c) = (b \o v) \o c
    <3>1. v \in Seq(Contained) /\ b \in Seq(Contained) /\ c \in Seq(Contained)  BY <2>4
    <3>2. (b \o v) \o c = b \o (v \o c)  BY <3>1, ConcatAssociative
    <3> QED  BY <3>1, <3>2
  <2> QED  BY <2>3, <2>4, <2>5, <1>4, <1>6 DEF c
<1> QED  BY <1>4, <1>7, <1>8, Predecessor

\* The objects in the frames up to any are read back.
LEMMA FramesAreRead ==
    ASSUME Layout
    PROVE  \A f \in 0 .. MaxFrames : \A i \in 0 .. Len(live) :
              CountUpTo(f - 1, i) => InFramesBelow[f] = First(i)
<1> DEFINE Read(f) == \A i \in 0 .. Len(live) : CountUpTo(f - 1, i) => InFramesBelow[f] = First(i)
           Bad == {f \in 0 .. MaxFrames : ~ Read(f)}
<1>1. SUFFICES ASSUME Bad # {} PROVE FALSE  OBVIOUS
<1>2. MaxFrames \in Nat /\ Len(live) \in Nat  BY ConstantFacts, FirstFacts
<1>3. PICK g \in Bad : \A m \in Bad : g <= m
  <2>1. Bad \in SUBSET Nat  BY <1>2
  <2> HIDE DEF Bad
  <2> QED  BY <1>1, <2>1, Smallest
<1>4. g \in 0 .. MaxFrames  BY <1>3
<1>5. PICK i \in 0 .. Len(live) : CountUpTo(g - 1, i) /\ InFramesBelow[g] # First(i)  BY <1>3
<1>6. CASE g = 0
  <2>1. i = 0
    <3> SUFFICES ASSUME i # 0 PROVE FALSE  OBVIOUS
    <3>1. i \in 1 .. Len(live) /\ i > 0  BY <1>2
    <3>2. live[i].frame \in Nat  BY <3>1, WordInBlob, FrameIsNat
    <3>3. live[i].frame <= g - 1  BY <1>5, <3>1 DEF CountUpTo
    <3> QED  BY <1>6, <3>2, <3>3
  <2> QED  BY <1>5, <1>6, <2>1, FirstFacts, WalkThroughFrames
<1>7. CASE g # 0
  <2> DEFINE f == g - 1
  <2>1. f \in Frame /\ f + 1 = g /\ f \in 0 .. MaxFrames /\ ~ (g <= f) /\ f \in Nat
    BY <1>2, <1>4, <1>7 DEF Frame
  <2>2. Read(f)  BY <1>3, <2>1
  <2>3. InFramesBelow[g] = InFramesBelow[f] \o ObjectsIn(f)  BY <2>1, WalkThroughFrames
  <2>4. CountUpTo(f, i)  BY <1>5
  <2> HIDE DEF Bad, f
  <2>5. \A j \in 1 .. Len(live) : live[j].frame \in Nat  BY WordInBlob, FrameIsNat
  <2>6. CASE pos[f] = 0
    <3>1. \A j \in 1 .. Len(live) : live[j].frame # f  BY <2>1, <2>6, LastInFrame
    <3>2. CountUpTo(f - 1, i)
      <4>1. i > 0 => live[i].frame <= f - 1
        <5> SUFFICES ASSUME i > 0 PROVE live[i].frame <= f - 1  OBVIOUS
        <5>1. i \in 1 .. Len(live)  BY <1>2
        <5>2. live[i].frame <= f  BY <2>4 DEF CountUpTo
        <5> QED  BY <2>1, <2>5, <3>1, <5>1, <5>2
      <4>2. i < Len(live) => live[i + 1].frame > f - 1
        <5> SUFFICES ASSUME i < Len(live) PROVE live[i + 1].frame > f - 1  OBVIOUS
        <5>1. i + 1 \in 1 .. Len(live)  BY <1>2
        <5>2. live[i + 1].frame > f  BY <2>4 DEF CountUpTo
        <5> QED  BY <2>1, <2>5, <5>1, <5>2
      <4> QED  BY <4>1, <4>2 DEF CountUpTo
    <3>3. InFramesBelow[f] = First(i)  BY <2>2, <3>2
    <3>4. ObjectsIn(f) = << >>
      <4>1. ObjectsBelow(f)[0] = << >>
        <5>1. 0 \in 0 .. FrameSize[f] /\ ~ EndsObject(f, 0)  BY <2>1, ConstantFacts DEF EndsObject
        <5> QED  BY <2>1, <5>1, WalkInFrame
      <4> QED  BY <4>1, <2>6 DEF ObjectsIn
    <3>5. First(i) \in Seq(Contained)  BY FirstFacts
    <3>6. First(i) \o << >> = First(i)
      <4> DEFINE s == First(i)
      <4> HIDE DEF s, Contained
      <4>1. s \o << >> = s  BY <3>5 DEF s
      <4> QED  BY <4>1 DEF s
    <3> QED  BY <1>5, <2>3, <3>3, <3>4, <3>6
  <2>7. CASE pos[f] # 0
    <3>1. PICK l \in 1 .. Len(live) : /\ live[l].frame = f /\ EndOf(live[l]) = pos[f]
                                      /\ \A j \in 1 .. Len(live) : live[j].frame = f => j <= l
      BY <2>1, <2>7, LastInFrame
    <3>2. i = l
      <4>1. ~ (i < l)
        <5> SUFFICES ASSUME i < l PROVE FALSE  OBVIOUS
        <5>1. i < Len(live) /\ i + 1 \in 1 .. Len(live) /\ i + 1 <= l  BY <1>2
        <5>2. live[i + 1].frame > f  BY <2>4, <5>1 DEF CountUpTo
        <5>3. live[i + 1].frame <= live[l].frame  BY <5>1, FramesGoUp
        <5> QED  BY <2>1, <2>5, <3>1, <5>1, <5>2, <5>3
      <4>2. ~ (i > l)
        <5> SUFFICES ASSUME i > l PROVE FALSE  OBVIOUS
        <5>1. i \in 1 .. Len(live) /\ i > 0 /\ l <= i  BY <1>2
        <5>2. live[i].frame <= f  BY <2>4, <5>1 DEF CountUpTo
        <5>3. live[l].frame <= live[i].frame  BY <5>1, FramesGoUp
        <5>4. live[i].frame = f  BY <2>1, <2>5, <3>1, <5>1, <5>2, <5>3
        <5> QED  BY <3>1, <5>1, <5>4
      <4> QED  BY <1>2, <4>1, <4>2
    <3>3. blob[f] # NoBlob
      <4>1. live[l].frame <= active  BY WordInBlob
      <4> QED  BY <2>1, <3>1, <4>1 DEF Layout, AllocatedUpToActive
    <3>4. ObjectsIn(f) = ObjectsBelow(f)[EndOf(live[l])]  BY <3>1, <3>3 DEF ObjectsIn
    <3>5. InFramesBelow[f] \o ObjectsBelow(f)[EndOf(live[l])] = First(l)
      BY <2>1, <2>2, <3>1, FrameIsRead
    <3> QED  BY <1>5, <2>3, <3>2, <3>4, <3>5
  <2> QED  BY <2>6, <2>7
<1> QED  BY <1>6, <1>7

\* The stack that is read back from the blobs is that of the objects that callers hold.
LEMMA MemoryHoldsTheStack ==
    ASSUME Layout
    PROVE  StackInMemory = LiveStack
<1> DEFINE k == Len(live)
<1>1. MaxFrames \in 0 .. MaxFrames /\ k \in 0 .. k /\ k \in Nat  BY ConstantFacts, FirstFacts
<1>2. k > 0 => live[k].frame <= MaxFrames - 1
  <2> SUFFICES ASSUME k > 0 PROVE live[k].frame <= MaxFrames - 1  OBVIOUS
  <2>1. k \in 1 .. k  BY <1>1
  <2>2. live[k].frame \in Frame  BY <2>1, WordInBlob
  <2> QED  BY <2>2 DEF Frame
<1>3. CountUpTo(MaxFrames - 1, k)  BY <1>1, <1>2 DEF CountUpTo
<1>4. InFramesBelow[MaxFrames] = First(k)  BY <1>1, <1>3, FramesAreRead
<1> QED  BY <1>4, WalkThroughFrames DEF LiveStack

-----------------------------------------------------------------------------
(* What the operations do to the stack of the objects that callers hold.    *)

\* Sequences given by their elements.
IsSeq(s, n) == s = [j \in 1 .. n |-> s[j]]

LEMMA AppendedIs ==
    ASSUME NEW k \in Nat, NEW s, NEW t, NEW x, IsSeq(s, k), IsSeq(t, k + 1),
           t[k + 1] = x, \A j \in 1 .. k : t[j] = s[j]
    PROVE  t = Append(s, x)
<1> DEFINE X == {s[j] : j \in 1 .. k} \union {x}
           u == Append(s, x)
<1>1. s \in [1 .. k -> X]  BY DEF IsSeq
<1>2. x \in X  OBVIOUS
<1> HIDE DEF X
<1>3. s \in Seq(X) /\ Len(s) = k  BY <1>1
<1>4. u \in Seq(X) /\ Len(u) = k + 1 /\ u[k + 1] = x /\ \A j \in 1 .. k : u[j] = s[j]
  BY <1>2, <1>3
<1>5. \A j \in 1 .. k + 1 : t[j] \in X /\ t[j] = u[j]
  <2> HIDE DEF u
  <2> SUFFICES ASSUME NEW j \in 1 .. k + 1 PROVE t[j] \in X /\ t[j] = u[j]  OBVIOUS
  <2>1. CASE j = k + 1  BY <2>1, <1>2, <1>4
  <2>2. CASE j # k + 1
    <3>1. j \in 1 .. k  BY <2>2
    <3> QED  BY <3>1, <1>1, <1>4
  <2> QED  BY <2>1, <2>2
<1>6. t \in Seq(X) /\ Len(t) = k + 1
  <2>1. t \in [1 .. k + 1 -> X]  BY <1>5 DEF IsSeq
  <2> QED  BY <2>1
<1> HIDE DEF u
<1>7. Len(t) = Len(u) /\ \A j \in 1 .. Len(t) : t[j] = u[j]  BY <1>4, <1>5, <1>6
<1>8. t = u  BY <1>4, <1>6, <1>7, SeqEqual
<1> QED  BY <1>8 DEF u

LEMMA FrontIs ==
    ASSUME NEW k \in Nat \ {0}, NEW s, NEW t, IsSeq(s, k), IsSeq(t, k - 1),
           \A j \in 1 .. k - 1 : t[j] = s[j]
    PROVE  Len(s) = k /\ s # << >> /\ t = SubSeq(s, 1, Len(s) - 1)
<1> DEFINE X == {s[j] : j \in 1 .. k}
<1>1. s \in [1 .. k -> X]  BY DEF IsSeq
<1> HIDE DEF X
<1>2. s \in Seq(X) /\ Len(s) = k /\ s # << >>
  <2>1. s \in Seq(X) /\ Len(s) = k  BY <1>1
  <2>2. k # 0  OBVIOUS
  <2> QED  BY <2>1, <2>2
<1> DEFINE u == SubSeq(s, 1, k - 1)
<1>3. u \in Seq(X) /\ Len(u) = k - 1 /\ \A j \in 1 .. k - 1 : u[j] = s[j]
  <2>1. \A j \in 1 .. k - 1 : s[j] \in X  BY <1>1
  <2>2. /\ SubSeq(s, 1, k - 1) \in Seq(X)
        /\ Len(SubSeq(s, 1, k - 1)) = IF 1 <= k - 1 THEN k - 1 - 1 + 1 ELSE 0
        /\ \A i \in 1 .. k - 1 - 1 + 1 : SubSeq(s, 1, k - 1)[i] = s[1 + i - 1]
    BY <1>2, <2>1, SubSeqProperties
  <2> HIDE DEF u
  <2>3. (IF 1 <= k - 1 THEN k - 1 - 1 + 1 ELSE 0) = k - 1  OBVIOUS
  <2>4. \A j \in 1 .. k - 1 : j \in 1 .. k - 1 - 1 + 1 /\ 1 + j - 1 = j  OBVIOUS
  <2>5. u = SubSeq(s, 1, k - 1)  BY DEF u
  <2> QED  BY <2>2, <2>3, <2>4, <2>5
<1>4. t \in Seq(X) /\ Len(t) = k - 1
  <2>1. \A j \in 1 .. k - 1 : t[j] \in X  BY <1>1
  <2>2. t \in [1 .. k - 1 -> X]  BY <2>1 DEF IsSeq
  <2>3. k - 1 \in Nat  OBVIOUS
  <2> QED  BY <2>2, <2>3
<1> HIDE DEF u
<1>5. Len(t) = Len(u) /\ \A j \in 1 .. Len(t) : t[j] = u[j]  BY <1>3, <1>4
<1>6. t = u  BY <1>3, <1>4, <1>5, SeqEqual
<1> QED  BY <1>2, <1>6 DEF u

LEMMA ReplacedIs ==
    ASSUME NEW k \in Nat \ {0}, NEW s, NEW t, NEW x, IsSeq(s, k), IsSeq(t, k),
           t[k] = x, \A j \in 1 .. k - 1 : t[j] = s[j]
    PROVE  Len(s) = k /\ s # << >> /\ t = [s EXCEPT ![Len(s)] = x]
<1> DEFINE X == {s[j] : j \in 1 .. k}
           u == [s EXCEPT ![k] = x]
<1>1. s \in [1 .. k -> X] /\ DOMAIN s = 1 .. k  BY DEF IsSeq
<1>2. s \in Seq(X) /\ Len(s) = k /\ s # << >>
  <2> HIDE DEF X
  <2>1. s \in Seq(X) /\ Len(s) = k  BY <1>1
  <2>2. k # 0  OBVIOUS
  <2> QED  BY <2>1, <2>2
<1>3. u = [j \in 1 .. k |-> IF j = k THEN x ELSE s[j]]  BY <1>1
<1>4. \A j \in 1 .. k : t[j] = IF j = k THEN x ELSE s[j]
  <2> SUFFICES ASSUME NEW j \in 1 .. k PROVE t[j] = IF j = k THEN x ELSE s[j]  OBVIOUS
  <2>1. j = k \/ j \in 1 .. k - 1  OBVIOUS
  <2> QED  BY <2>1
<1>5. t = [j \in 1 .. k |-> t[j]]  BY DEF IsSeq
<1>6. t = [j \in 1 .. k |-> IF j = k THEN x ELSE s[j]]  BY <1>4, <1>5, Zenon
<1> QED  BY <1>2, <1>3, <1>6

\* The stack of the live objects, before and after a step.
LEMMA LiveStackIs ==
    /\ IsSeq(LiveStack, Len(live)) /\ \A i \in 1 .. Len(live) : LiveStack[i] = Contents(i)
    /\ IsSeq(LiveStack', Len(live')) /\ \A i \in 1 .. Len(live') : (LiveStack')[i] = Contents(i)'
<1>1. LiveStack = [i \in 1 .. Len(live) |-> Contents(i)]  BY DEF LiveStack, First
<1>2. LiveStack' = [i \in 1 .. Len(live') |-> Contents(i)']  BY DEF LiveStack, First
<1> QED  BY <1>1, <1>2 DEF IsSeq

\* n bytes d.
Fill(n, d) == [j \in 1 .. n |-> d]

\* An object whose bytes stay where they are stays the same.
LEMMA KeptContents ==
    ASSUME Layout, NEW i \in 1 .. Len(live), (live')[i] = live[i],
           NEW g, g = live[i].frame, NEW p \in Nat, EndOf(live[i]) <= p,
           \A c \in 0 .. FrameSize[g] - 1 : c < p => (blob')[g][c] = blob[g][c]
    PROVE  Contents(i)' = Contents(i)
<1> DEFINE a == live[i].at
           n == live[i].size
           old == blob[g]
           new == (blob')[g]
<1>1. /\ a \in Nat /\ n \in Nat /\ g \in Frame /\ a + n \in 0 .. FrameSize[g] - 1
      /\ EndOf(live[i]) = a + n + WordSize /\ WordSize \in Nat /\ WordSize > 0 /\ FrameSize[g] \in Nat
  BY WordInBlob, ConstantFacts DEF EndOf
<1>2. Contents(i) = [j \in 1 .. n |-> old[a + j - 1]]  BY DEF Contents, Bytes
<1>3. Contents(i)' = [j \in 1 .. n |-> new[a + j - 1]]  BY DEF Contents, Bytes
<1>4. \A c \in 0 .. FrameSize[g] - 1 : c < p => new[c] = old[c]  OBVIOUS
<1>5. EndOf(live[i]) <= p  OBVIOUS
<1> HIDE DEF a, n, old, new
<1>6. ASSUME NEW j \in 1 .. n PROVE new[a + j - 1] = old[a + j - 1]
  <2>1. a + j - 1 \in 0 .. FrameSize[g] - 1 /\ a + j - 1 < p  BY <1>1, <1>5
  <2> QED  BY <1>4, <2>1
<1> QED  BY <1>2, <1>3, <1>6

\* What Written leaves alone, and what it writes.
Holds(w, b, f, a, n, d) == /\ \A c \in 0 .. FrameSize[f] - 1 : c < a => w[c] = b[c]
                           /\ \A j \in 1 .. n : w[a + j - 1] = d

LEMMA WrittenHolds ==
    ASSUME NEW f \in Frame, NEW b \in Blob(f), NEW a \in Nat, NEW n \in Nat, NEW d, NEW s,
           a + n < FrameSize[f]
    PROVE  Holds(Written(b, a, n, d, s), b, f, a, n, d)
<1> DEFINE w == Written(b, a, n, d, s)
<1>1. DOMAIN b = 0 .. FrameSize[f] - 1 /\ FrameSize[f] \in Nat  BY ConstantFacts DEF Blob
<1>2. w = [c \in 0 .. FrameSize[f] - 1 |-> IF c < a THEN b[c]
                                           ELSE IF c < a + n THEN d
                                           ELSE IF c = a + n THEN s ELSE Unset]
  BY <1>1 DEF Written
<1> HIDE DEF w
<1>3. \A c \in 0 .. FrameSize[f] - 1 : c < a => w[c] = b[c]  BY <1>2
<1>4. ASSUME NEW j \in 1 .. n PROVE w[a + j - 1] = d
  <2> DEFINE c == a + j - 1
  <2>1. c \in 0 .. FrameSize[f] - 1 /\ ~ (c < a) /\ c < a + n  BY <1>1
  <2> HIDE DEF c
  <2>2. w[c] = d  BY <1>2, <2>1
  <2> QED  BY <2>2 DEF c
<1>5. Holds(w, b, f, a, n, d)  BY <1>3, <1>4 DEF Holds
<1> QED  BY <1>5 DEF w

\* newObject() pushes.
LEMMA NewObjectPushes ==
    ASSUME Layout, NEW n \in Sizes, NEW d \in Data, NewObject(n, d)
    PROVE  LiveStack' = Append(LiveStack, Fill(n, d))
<1>1. PICK f \in active .. MaxFrames - 1 :
        /\ FirstWithRoom(f, n)
        /\ blob' = [Allocated(f) EXCEPT ![f] = Written(Allocated(f)[f], Base(f), n, d, n)]
        /\ live' = Append(live, Object(f, Base(f), n))
  BY AllocationKeeps DEF NewObject
<1>0. PICK k, base : k = Len(live) /\ base = Base(f)  OBVIOUS
<1> DEFINE old == Allocated(f)[f]
           new == (blob')[f]
           o == Object(f, base, n)
<1>2. /\ f \in Frame /\ active \in Frame /\ active <= f /\ f \in Nat /\ active \in Nat
      /\ n \in Nat /\ base \in Nat /\ WordSize \in Nat /\ WordSize > 0 /\ FrameSize[f] \in Nat
      /\ base + n < FrameSize[f] /\ (f = active => base = pos[f])
  <2>1. f \in Frame /\ active \in Frame  BY AllocationKeeps
  <2>2. pos[f] \in Nat  BY <2>1 DEF Layout, TypeOK
  <2> QED  BY <1>0, <1>1, <2>1, <2>2, ConstantFacts DEF Base, FirstWithRoom, HasRoom
<1>3. /\ k \in Nat /\ Len(live') = k + 1 /\ (live')[k + 1] = o
      /\ \A i \in 1 .. k : (live')[i] = live[i]
  <2>1. live \in Seq(LiveObject) /\ k \in Nat  BY <1>0 DEF Layout, TypeOK
  <2>2. live' = Append(live, o)  BY <1>0, <1>1
  <2> HIDE DEF o
  <2> QED  BY <2>1, <2>2, <1>0
<1>4. new = Written(old, base, n, d, n) /\ \A g \in Frame : g # f => (blob')[g] = Allocated(f)[g]
  BY <1>0, <1>1, <1>2, AllocationKeeps
<1>5. old \in Blob(f) /\ \A g \in Frame : g <= active => Allocated(f)[g] = blob[g]
  BY <1>2, AllocationKeeps
<1> HIDE DEF old, new
<1>6. /\ \A c \in 0 .. FrameSize[f] - 1 : c < base => new[c] = old[c]
      /\ \A j \in 1 .. n : new[base + j - 1] = d
  <2>1. Holds(Written(old, base, n, d, n), old, f, base, n, d)  BY <1>2, <1>5, WrittenHolds
  <2> QED  BY <1>4, <2>1 DEF Holds
<1>7. ASSUME NEW i \in 1 .. k PROVE Contents(i)' = Contents(i)
  <2> DEFINE g == live[i].frame
             p == pos[g]
  <2>1. g \in Frame /\ g <= active /\ g \in Nat /\ p \in Nat /\ EndOf(live[i]) <= p
    BY <1>0, WordInBlob, FrameIsNat DEF Layout, TypeOK, LiveInFrames
  <2>2. \A c \in 0 .. FrameSize[g] - 1 : c < p => (blob')[g][c] = blob[g][c]
    <3> HIDE DEF g
    <3>1. CASE g = f
      <4>1. f = active /\ base = pos[f]  BY <1>2, <2>1, <3>1
      <4>2. old = blob[f]  BY <1>2, <1>5, <4>1 DEF old
      <4> QED  BY <1>6, <3>1, <4>1, <4>2 DEF new
    <3>2. CASE g # f  BY <1>4, <1>5, <2>1, <3>2
    <3> QED  BY <3>1, <3>2
  <2>3. (live')[i] = live[i]  BY <1>3
  <2> HIDE DEF p
  <2> QED  BY <1>0, <2>1, <2>2, <2>3, KeptContents
<1>8. Contents(k + 1)' = Fill(n, d)
  <2>1. o.frame = f /\ o.at = base /\ o.size = n  BY DEF Object
  <2>2. (live')[k + 1].frame = f /\ (live')[k + 1].at = base /\ (live')[k + 1].size = n
    BY <1>3, <2>1
  <2>3. Contents(k + 1)' = [j \in 1 .. (live')[k + 1].size |->
                              (blob')[(live')[k + 1].frame][(live')[k + 1].at + j - 1]]
    BY DEF Contents, Bytes
  <2>4. Contents(k + 1)' = [j \in 1 .. n |-> new[base + j - 1]]  BY <2>2, <2>3 DEF new
  <2> QED  BY <1>6, <2>4 DEF Fill
<1> DEFINE s == LiveStack
           t == LiveStack'
           x == Fill(n, d)
<1>9. IsSeq(s, k) /\ IsSeq(t, k + 1) /\ t[k + 1] = x /\ \A j \in 1 .. k : t[j] = s[j]
  <2>1. /\ IsSeq(s, k) /\ \A i \in 1 .. k : s[i] = Contents(i)
        /\ IsSeq(t, k + 1) /\ \A i \in 1 .. k + 1 : t[i] = Contents(i)'
    BY <1>0, <1>3, LiveStackIs
  <2>2. k + 1 \in 1 .. k + 1 /\ \A i \in 1 .. k : i \in 1 .. k + 1  BY <1>3
  <2> QED  BY <1>7, <1>8, <2>1, <2>2
<1> HIDE DEF s, t, x
<1>10. t = Append(s, x)  BY <1>3, <1>9, AppendedIs
<1> QED  BY <1>10 DEF s, t, x

\* deleteObject() removes the top object.
LEMMA DeleteObjectPops ==
    ASSUME Layout, Layout', DeleteObject
    PROVE  LiveStack # << >> /\ LiveStack' = SubSeq(LiveStack, 1, Len(LiveStack) - 1)
<1> DEFINE k == Len(live)
           left == [pos EXCEPT ![active] = pos[active] - (TopSize + WordSize)]
<1>1. TopReadable /\ pos' = left /\ live' = SubSeq(live, 1, k - 1)  BY DEF DeleteObject
<1>2. PICK f \in 0 .. active :
        /\ active' = f
        /\ blob' = [g \in Frame |-> IF g > f THEN NoBlob ELSE Forgotten(blob[g], left[g])]
  BY DEF DeleteObject
<1>3. k \in Nat \ {0} /\ active \in Frame /\ pos[active] \in Nat
  <2>1. k \in Nat /\ k \in 1 .. k /\ active \in Frame /\ pos[active] \in Nat  BY <1>1, TopIsAlone
  <2> QED  BY <2>1
<1>4. Len(live') = k - 1 /\ \A i \in 1 .. k - 1 : (live')[i] = live[i]
  <2>1. live \in Seq(LiveObject)  BY DEF Layout, TypeOK
  <2>2. \A i \in 1 .. k - 1 : live[i] \in LiveObject  BY <1>3, <2>1, ElementOfSeq
  <2>3. /\ Len(SubSeq(live, 1, k - 1)) = IF 1 <= k - 1 THEN k - 1 - 1 + 1 ELSE 0
        /\ \A i \in 1 .. k - 1 - 1 + 1 : SubSeq(live, 1, k - 1)[i] = live[1 + i - 1]
    BY <1>3, <2>2, SubSeqProperties
  <2> HIDE DEF k
  <2>4. (IF 1 <= k - 1 THEN k - 1 - 1 + 1 ELSE 0) = k - 1  BY <1>3
  <2>5. \A i \in 1 .. k - 1 : i \in 1 .. k - 1 - 1 + 1 /\ 1 + i - 1 = i  BY <1>3
  <2> QED  BY <1>1, <2>3, <2>4, <2>5
<1>5. ASSUME NEW i \in 1 .. k - 1 PROVE Contents(i)' = Contents(i)
  <2> DEFINE g == live[i].frame
             p == left[g]
             l == (live')[i]
  <2>1. l = live[i] /\ i \in 1 .. k /\ i \in 1 .. Len(live')  BY <1>3, <1>4
  <2>2. g \in Frame /\ blob[g] \in Blob(g) /\ g \in Nat  BY <2>1, WordInBlob, FrameIsNat
  <2>3. (live')[i].frame <= active' /\ EndOf((live')[i]) <= (pos')[(live')[i].frame]
    BY <2>1 DEF Layout, LiveInFrames
  <2>4. /\ (pos')[g] = p /\ p \in Nat /\ f \in Nat
    <3>1. pos' \in [Frame -> Nat]  BY DEF Layout, TypeOK
    <3> QED  BY <1>1, <1>2, <1>3, <2>2, <3>1 DEF Frame
  <2>5. g <= f /\ EndOf(live[i]) <= p  BY <1>2, <2>1, <2>3, <2>4
  <2>6. (blob')[g] = Forgotten(blob[g], p)  BY <1>2, <2>2, <2>4, <2>5
  <2> HIDE DEF p, l, g, left
  <2>7. \A c \in 0 .. FrameSize[g] - 1 : c < p => (blob')[g][c] = blob[g][c]
    <3> DEFINE b == blob[g]
    <3> HIDE DEF b
    <3>1. \A c \in 0 .. FrameSize[g] - 1 : c < p => Forgotten(b, p)[c] = b[c]
      BY <2>2, <2>4, ForgottenIsBlob DEF b
    <3> QED  BY <2>6, <3>1 DEF b
  <2> QED  BY <2>1, <2>4, <2>5, <2>7, KeptContents DEF g, l
<1> DEFINE s == LiveStack
           t == LiveStack'
<1>6. IsSeq(s, k) /\ IsSeq(t, k - 1) /\ \A j \in 1 .. k - 1 : t[j] = s[j]
  <2>1. /\ IsSeq(s, k) /\ \A i \in 1 .. k : s[i] = Contents(i)
        /\ IsSeq(t, k - 1) /\ \A i \in 1 .. k - 1 : t[i] = Contents(i)'
    BY <1>4, LiveStackIs
  <2>2. \A i \in 1 .. k - 1 : i \in 1 .. k  BY <1>3
  <2> QED  BY <1>5, <2>1, <2>2
<1> HIDE DEF s, t, k
<1>7. s # << >> /\ t = SubSeq(s, 1, Len(s) - 1)  BY <1>3, <1>6, FrontIs
<1> QED  BY <1>7 DEF s, t

\* The allocations of a call that is refused change no object.
LEMMA RefusalKeepsStack ==
    ASSUME Layout, blob' = Allocated(MaxFrames - 1), UNCHANGED live
    PROVE  LiveStack' = LiveStack
<1>1. MaxFrames - 1 \in active .. MaxFrames - 1
  BY ConstantFacts DEF Layout, TypeOK, Frame
<1>2. \A g \in Frame : g <= active => Allocated(MaxFrames - 1)[g] = blob[g]  BY <1>1, AllocationKeeps
<1>3. ASSUME NEW i \in 1 .. Len(live) PROVE Contents(i)' = Contents(i)
  <2>1. live[i].frame \in Frame /\ live[i].frame <= active  BY WordInBlob
  <2>2. (blob')[live[i].frame] = blob[live[i].frame]  BY <1>2, <2>1
  <2> QED  BY <2>2 DEF Contents, Bytes
<1>4. Len(live') = Len(live)  OBVIOUS
<1> QED  BY <1>3, <1>4, LiveStackIs DEF IsSeq

\* A byte string with more bytes behind it.
Longer(v, n, d) == v \o Fill(n, d)

LEMMA LongerIs ==
    ASSUME NEW m \in Nat, NEW n \in Nat, NEW d, NEW v, NEW u, IsSeq(v, m), IsSeq(u, m + n),
           \A j \in 1 .. m : u[j] = v[j], \A j \in 1 .. n : u[m + j] = d
    PROVE  u = Longer(v, n, d)
<1> DEFINE X == {v[j] : j \in 1 .. m} \union {d}
           w == Fill(n, d)
           c == v \o w
<1>1. v \in [1 .. m -> X] /\ d \in X  BY DEF IsSeq
<1>2. w \in [1 .. n -> X] /\ \A j \in 1 .. n : w[j] = d  BY <1>1 DEF Fill
<1> HIDE DEF X, w
<1>3. v \in Seq(X) /\ Len(v) = m /\ w \in Seq(X) /\ Len(w) = n  BY <1>1, <1>2
<1>4. c \in Seq(X) /\ Len(c) = m + n
      /\ \A j \in 1 .. m + n : c[j] = IF j <= m THEN v[j] ELSE w[j - m]
  BY <1>3
<1> HIDE DEF c
<1>5. \A j \in 1 .. m + n : u[j] \in X /\ u[j] = c[j]
  <2> SUFFICES ASSUME NEW j \in 1 .. m + n PROVE u[j] \in X /\ u[j] = c[j]  OBVIOUS
  <2>1. CASE j <= m
    <3>1. j \in 1 .. m  BY <2>1
    <3> QED  BY <3>1, <2>1, <1>1, <1>4
  <2>2. CASE ~ (j <= m)
    <3>1. j - m \in 1 .. n /\ m + (j - m) = j  BY <2>2
    <3>2. u[m + (j - m)] = d /\ w[j - m] = d  BY <3>1, <1>2
    <3> QED  BY <3>1, <3>2, <2>2, <1>1, <1>4
  <2> QED  BY <2>1, <2>2
<1>6. u \in Seq(X) /\ Len(u) = m + n
  <2>1. u \in [1 .. m + n -> X]  BY <1>5 DEF IsSeq
  <2> QED  BY <2>1
<1>7. Len(u) = Len(c) /\ \A j \in 1 .. Len(u) : u[j] = c[j]  BY <1>4, <1>5, <1>6
<1>8. u = c  BY <1>4, <1>6, <1>7, SeqEqual
<1> QED  BY <1>8 DEF c, w, Longer

\* The object on top, the k-th, which begins at `from' of the active frame, becomes one in frame f
\* at `to', with n bytes d behind its own; other objects stay.
Lengthened(k, f, from, to, n, d) ==
    /\ k = Len(live) /\ from = live[k].at
    /\ live' = [live EXCEPT ![k] = Object(f, to, TopSize + n)]
    /\ \A i \in 1 .. k - 1 : Contents(i)' = Contents(i)
    /\ \A j \in 1 .. TopSize : (blob')[f][to + j - 1] = blob[active][from + j - 1]
    /\ \A j \in 1 .. n : (blob')[f][to + TopSize + j - 1] = d

Grows(bytes) ==
    /\ LiveStack # << >>
    /\ LiveStack' = [LiveStack EXCEPT ![Len(LiveStack)] = LiveStack[Len(LiveStack)] \o bytes]

LEMMA LengthenedGrows ==
    ASSUME Layout, TopReadable, NEW k, NEW f, NEW from, NEW to \in Nat, NEW n \in Nat, NEW d,
           Lengthened(k, f, from, to, n, d)
    PROVE  Grows(Fill(n, d))
<1>0. PICK m : m = TopSize  OBVIOUS
<1>1. /\ k \in Nat \ {0} /\ k = Len(live) /\ k \in 1 .. k /\ m \in Nat
      /\ live[k].frame = active /\ live[k].at = from /\ live[k].size = m
  <2>1. k = Len(live) /\ from = live[k].at  BY DEF Lengthened
  <2>2. /\ k \in Nat /\ k \in 1 .. k /\ TopSize \in Nat
        /\ live[k] = Object(active, live[k].at, TopSize)
    BY <2>1, TopIsAlone
  <2>3. live[k].frame = active /\ live[k].size = TopSize  BY <2>2 DEF Object
  <2> QED  BY <1>0, <2>1, <2>2, <2>3
<1>2. /\ Len(live') = k /\ (live')[k].frame = f /\ (live')[k].at = to /\ (live')[k].size = m + n
  <2> DEFINE o == Object(f, to, m + n)
  <2>1. live' = [live EXCEPT ![k] = o]  BY <1>0 DEF Lengthened
  <2>2. live \in Seq(LiveObject)  BY DEF Layout, TypeOK
  <2>3. o.frame = f /\ o.at = to /\ o.size = m + n  BY DEF Object
  <2> HIDE DEF o
  <2>4. Len(live') = k /\ (live')[k] = o  BY <1>1, <2>1, <2>2
  <2> QED  BY <2>3, <2>4
<1> DEFINE v == Contents(k)
<1>3. PICK u : u = Contents(k)'  OBVIOUS
<1>4. v = [j \in 1 .. m |-> blob[active][from + j - 1]]  BY <1>1 DEF Contents, Bytes
<1>5. u = [j \in 1 .. m + n |-> (blob')[f][to + j - 1]]
  <2>1. u = [j \in 1 .. (live')[k].size |-> (blob')[(live')[k].frame][(live')[k].at + j - 1]]
    BY <1>3 DEF Contents, Bytes
  <2> QED  BY <1>2, <2>1
<1>6. u = Longer(v, n, d)
  <2>1. \A j \in 1 .. m : u[j] = v[j]
    <3>1. \A j \in 1 .. m : (blob')[f][to + j - 1] = blob[active][from + j - 1]
      BY <1>0 DEF Lengthened
    <3>2. \A j \in 1 .. m : j \in 1 .. m + n  BY <1>1
    <3> QED  BY <1>4, <1>5, <3>1, <3>2
  <2>2. \A j \in 1 .. n : u[m + j] = d
    <3> SUFFICES ASSUME NEW j \in 1 .. n PROVE u[m + j] = d  OBVIOUS
    <3>1. m + j \in 1 .. m + n /\ to + (m + j) - 1 = to + m + j - 1  BY <1>1
    <3>2. (blob')[f][to + m + j - 1] = d  BY <1>0 DEF Lengthened
    <3>3. u[m + j] = (blob')[f][to + (m + j) - 1]  BY <1>5, <3>1
    <3> QED  BY <3>1, <3>2, <3>3
  <2>3. IsSeq(v, m) /\ IsSeq(u, m + n)  BY <1>4, <1>5 DEF IsSeq
  <2> HIDE DEF v
  <2> QED  BY <1>1, <2>1, <2>2, <2>3, LongerIs
<1> DEFINE s == LiveStack
           t == LiveStack'
<1>7. /\ IsSeq(s, k) /\ IsSeq(t, k) /\ t[k] = u /\ s[k] = v /\ \A j \in 1 .. k - 1 : t[j] = s[j]
  <2>1. /\ IsSeq(s, k) /\ \A i \in 1 .. k : s[i] = Contents(i)
        /\ IsSeq(t, k) /\ \A i \in 1 .. k : t[i] = Contents(i)'
    BY <1>1, <1>2, LiveStackIs
  <2>2. \A i \in 1 .. k - 1 : Contents(i)' = Contents(i)  BY DEF Lengthened
  <2>3. \A i \in 1 .. k - 1 : i \in 1 .. k  BY <1>1
  <2> QED  BY <1>1, <1>3, <2>1, <2>2, <2>3
<1> HIDE DEF s, t, v
<1>8. Len(s) = k /\ s # << >> /\ t = [s EXCEPT ![Len(s)] = u]
  <2>1. /\ k \in Nat \ {0} /\ IsSeq(s, k) /\ IsSeq(t, k) /\ t[k] = u
        /\ \A j \in 1 .. k - 1 : t[j] = s[j]
    BY <1>1, <1>7
  <2> QED  BY <2>1, ReplacedIs
<1>9. t = [s EXCEPT ![Len(s)] = s[Len(s)] \o Fill(n, d)]  BY <1>6, <1>7, <1>8 DEF Longer
<1> QED  BY <1>8, <1>9 DEF s, t, Grows

LEMMA GrowInPlaceGrows ==
    ASSUME Layout, NEW n \in Sizes, NEW d \in Data, GrowInPlace(n, d)
    PROVE  Grows(Fill(n, d))
<1>0. PICK k, size, at, end : /\ k = Len(live) /\ size = TopSize /\ at = live[k].at
                              /\ end = at + size
  OBVIOUS
<1>1. /\ TopReadable /\ Fits(n)
      /\ blob' = [blob EXCEPT ![active] =
                     Written(blob[active], pos[active] - WordSize, n, d, size + n)]
      /\ live' = [live EXCEPT ![k] = Object(active, at, size + n)]
  BY <1>0 DEF GrowInPlace
<1>2. /\ k \in Nat /\ k \in 1 .. k /\ active \in Frame
      /\ at \in Nat /\ size \in Nat /\ live[k].frame = active
      /\ pos[active] = end + WordSize /\ pos[active] \in Nat
      /\ \A i \in 1 .. k - 1 : live[i].frame = active => EndOf(live[i]) <= at
  BY <1>0, <1>1, TopIsAlone
<1>3. n \in Nat /\ WordSize \in Nat /\ WordSize > 0 /\ FrameSize[active] \in Nat
  BY <1>2, ConstantFacts
<1>4. pos[active] - WordSize = end /\ end \in Nat /\ end + n < FrameSize[active] /\ at <= end
  <2>1. pos[active] + n <= FrameSize[active]  BY <1>1 DEF Fits
  <2>2. end = at + size  BY <1>0
  <2> QED  BY <2>1, <2>2, <1>2, <1>3
<1> DEFINE b == blob[active]
           new == (blob')[active]
<1>5. /\ \A c \in 0 .. FrameSize[active] - 1 : c < end => new[c] = b[c]
      /\ \A j \in 1 .. n : new[end + j - 1] = d
      /\ \A g \in Frame : g # active => (blob')[g] = blob[g]
  <2>1. b \in Blob(active)  BY <1>2 DEF Layout, TypeOK, AllocatedUpToActive, Frame
  <2>2. new = Written(b, end, n, d, size + n) /\ \A g \in Frame : g # active => (blob')[g] = blob[g]
    BY <1>1, <1>2, <1>4 DEF Layout, TypeOK
  <2> HIDE DEF b, new
  <2>3. Holds(Written(b, end, n, d, size + n), b, active, end, n, d)
    BY <2>1, <1>2, <1>3, <1>4, WrittenHolds
  <2> QED  BY <2>2, <2>3 DEF Holds
<1> HIDE DEF b, new
<1>6. ASSUME NEW i \in 1 .. k - 1 PROVE Contents(i)' = Contents(i)
  <2> DEFINE g == live[i].frame
             p == IF g = active THEN end ELSE pos[g]
  <2>1. i \in 1 .. k  BY <1>2
  <2>2. g \in Frame /\ pos[g] \in Nat /\ EndOf(live[i]) <= pos[g]
    <3>1. i \in 1 .. Len(live)  BY <1>0, <2>1
    <3>2. g \in Frame  BY <3>1, WordInBlob
    <3>3. EndOf(live[i]) <= pos[g]  BY <3>1 DEF Layout, LiveInFrames
    <3> QED  BY <3>2, <3>3 DEF Layout, TypeOK
  <2>3. p \in Nat /\ EndOf(live[i]) <= p
    <3>0. i \in 1 .. Len(live)  BY <1>0, <2>1
    <3>1. EndOf(live[i]) \in Nat  BY <3>0, WordInBlob, ConstantFacts DEF EndOf
    <3>2. g = active => EndOf(live[i]) <= at  BY <1>2
    <3> HIDE DEF g
    <3> QED  BY <1>2, <1>4, <2>2, <3>1, <3>2
  <2>4. (live')[i] = live[i]
    <3>1. live \in Seq(LiveObject) /\ i # k /\ i \in 1 .. Len(live)
      BY <1>0, <1>2, <2>1 DEF Layout, TypeOK
    <3> DEFINE o == Object(active, at, size + n)
    <3> HIDE DEF o
    <3>2. live' = [live EXCEPT ![k] = o]  BY <1>1 DEF o
    <3> QED  BY <3>1, <3>2
  <2>5. \A c \in 0 .. FrameSize[g] - 1 : c < p => (blob')[g][c] = blob[g][c]
    <3> HIDE DEF g
    <3>1. CASE g = active  BY <3>1, <1>5 DEF b, new
    <3>2. CASE g # active  BY <3>2, <1>5, <2>2
    <3> QED  BY <3>1, <3>2
  <2> HIDE DEF p
  <2> QED  BY <1>0, <2>1, <2>3, <2>4, <2>5, KeptContents
<1>7. \A j \in 1 .. size : new[at + j - 1] = b[at + j - 1]
  <2> SUFFICES ASSUME NEW j \in 1 .. size PROVE new[at + j - 1] = b[at + j - 1]  OBVIOUS
  <2>1. end = at + size  BY <1>0
  <2>2. at + j - 1 \in 0 .. FrameSize[active] - 1 /\ at + j - 1 < end
    BY <2>1, <1>2, <1>3, <1>4
  <2> QED  BY <2>2, <1>5
<1>8. Lengthened(k, active, at, at, n, d)
  BY <1>0, <1>1, <1>5, <1>6, <1>7 DEF Lengthened, b, new
<1> QED  BY <1>1, <1>2, <1>3, <1>8, LengthenedGrows

\* What Copied copies.
LEMMA CopiedBytes ==
    ASSUME NEW f \in Frame, NEW b \in Blob(f), NEW old, NEW start \in Nat, NEW size \in Nat,
           size < FrameSize[f]
    PROVE  \A j \in 1 .. size : Copied(b, old, start, size)[j - 1] = old[start + j - 1]
<1>1. DOMAIN b = 0 .. FrameSize[f] - 1 /\ FrameSize[f] \in Nat  BY ConstantFacts DEF Blob
<1> SUFFICES ASSUME NEW j \in 1 .. size PROVE Copied(b, old, start, size)[j - 1] = old[start + j - 1]
  OBVIOUS
<1> DEFINE c == j - 1
<1>2. c \in 0 .. FrameSize[f] - 1 /\ c < size /\ start + j - 1 = start + c  BY <1>1
<1> HIDE DEF c
<1>3. Copied(b, old, start, size)[c] = old[start + c]  BY <1>1, <1>2 DEF Copied
<1> QED  BY <1>2, <1>3 DEF c

LEMMA GrowByMovingGrows ==
    ASSUME Layout, NEW n \in Sizes, NEW d \in Data, GrowByMoving(n, d)
    PROVE  Grows(Fill(n, d))
<1>0. PICK k, size, start : /\ k = Len(live) /\ size = TopSize
                            /\ start = pos[active] - size - WordSize
  OBVIOUS
<1>1. TopReadable  BY DEF GrowByMoving
<1>2. PICK f \in active + 1 .. MaxFrames - 1 :
        /\ FrameSize[f] >= size + n + WordSize
        /\ blob' = [Allocated(f) EXCEPT
                       ![active] = Forgotten(@, start),
                       ![f] = Written(Copied(@, blob[active], start, size), size, n, d, size + n)]
        /\ live' = [live EXCEPT ![k] = Object(f, 0, size + n)]
  BY <1>0 DEF GrowByMoving
<1>3. /\ k \in Nat /\ k \in 1 .. k /\ active \in Frame
      /\ live[k].at \in Nat /\ size \in Nat /\ pos[active] = live[k].at + size + WordSize
      /\ \A i \in 1 .. k - 1 : live[i].frame = active => EndOf(live[i]) <= live[k].at
  BY <1>0, <1>1, TopIsAlone
<1>4. /\ n \in Nat /\ WordSize \in Nat /\ WordSize > 0 /\ MaxFrames \in Nat
      /\ \A g \in Frame : g \in Nat /\ FrameSize[g] \in Nat
  BY ConstantFacts
<1>5. f \in active .. MaxFrames - 1 /\ f \in Frame /\ f # active /\ active < f /\ active <= f
  BY <1>2, <1>3, <1>4 DEF Frame
<1>6. start = live[k].at /\ start \in Nat  BY <1>0, <1>3, <1>4
<1> DEFINE empty == Allocated(f)[f]
           old == blob[active]
           copy == Copied(empty, old, start, size)
           new == (blob')[f]
           rest == (blob')[active]
<1>7. /\ rest = Forgotten(old, start)
      /\ new = Written(copy, size, n, d, size + n)
      /\ \A g \in Frame : g # f /\ g # active => (blob')[g] = Allocated(f)[g]
  <2>1. active \in Frame /\ active <= active /\ f \in active .. MaxFrames - 1  BY <1>3, <1>4, <1>5
  <2>2. DOMAIN Allocated(f) = Frame /\ Allocated(f)[active] = blob[active]
    BY <2>1, AllocationKeeps
  <2> QED  BY <2>2, <1>2, <1>3, <1>5
<1>8. empty \in Blob(f) /\ old \in Blob(active) /\ \A g \in Frame : g <= active => Allocated(f)[g] = blob[g]
  BY <1>3, <1>4, <1>5, AllocationKeeps DEF Layout, TypeOK, AllocatedUpToActive
<1>9. start + size <= FrameSize[active] /\ size + n < FrameSize[f]
  <2>1. pos[active] <= FrameSize[active]  BY <1>3 DEF Layout, FramesFilled
  <2> QED  BY <2>1, <1>2, <1>3, <1>4, <1>5, <1>6
<1>10. copy \in Blob(f)
  <2> HIDE DEF empty, old
  <2> QED  BY <1>3, <1>5, <1>6, <1>8, <1>9, CopiedIsBlob
<1> HIDE DEF rest, new
<1>11. /\ \A c \in 0 .. FrameSize[f] - 1 : c < size => new[c] = copy[c]
       /\ \A j \in 1 .. n : new[size + j - 1] = d
  <2> HIDE DEF copy
  <2>1. f \in Frame /\ copy \in Blob(f) /\ size \in Nat /\ n \in Nat /\ size + n < FrameSize[f]
    BY <1>3, <1>4, <1>5, <1>9, <1>10
  <2>2. new = Written(copy, size, n, d, size + n)  BY <1>7
  <2>3. Holds(Written(copy, size, n, d, size + n), copy, f, size, n, d)  BY <2>1, WrittenHolds
  <2>4. Holds(new, copy, f, size, n, d)  BY <2>2, <2>3
  <2> QED  BY <2>4 DEF Holds
<1>12. \A j \in 1 .. size : copy[j - 1] = old[start + j - 1]
  <2> HIDE DEF empty, old
  <2>1. size < FrameSize[f]  BY <1>3, <1>4, <1>5, <1>9
  <2> QED  BY <1>3, <1>5, <1>6, <1>8, <2>1, CopiedBytes
<1>13. \A c \in 0 .. FrameSize[active] - 1 : c < start => rest[c] = old[c]
  <2> HIDE DEF old
  <2> QED  BY <1>3, <1>6, <1>7, <1>8, ForgottenIsBlob
<1> HIDE DEF copy, empty, old
<1>14. \A j \in 1 .. size : new[0 + j - 1] = old[start + j - 1]
  <2> SUFFICES ASSUME NEW j \in 1 .. size PROVE new[0 + j - 1] = old[start + j - 1]  OBVIOUS
  <2> DEFINE c == j - 1
  <2>1. c \in 0 .. FrameSize[f] - 1 /\ c < size /\ 0 + j - 1 = c  BY <1>3, <1>4, <1>5, <1>9
  <2>2. copy[c] = old[start + j - 1]  BY <1>12
  <2> HIDE DEF c
  <2> QED  BY <1>11, <2>1, <2>2
<1>15. \A j \in 1 .. n : new[0 + size + j - 1] = d
  <2>1. 0 + size = size  BY <1>3
  <2> QED  BY <1>11, <2>1
<1>16. ASSUME NEW i \in 1 .. k - 1 PROVE Contents(i)' = Contents(i)
  <2> DEFINE g == live[i].frame
             p == IF g = active THEN start ELSE pos[g]
  <2>1. i \in 1 .. k  BY <1>3
  <2>2. g \in Frame /\ pos[g] \in Nat /\ EndOf(live[i]) <= pos[g] /\ g <= active
    <3>1. i \in 1 .. Len(live)  BY <1>0, <2>1
    <3>2. g \in Frame /\ g <= active  BY <3>1, WordInBlob
    <3>3. EndOf(live[i]) <= pos[g]  BY <3>1 DEF Layout, LiveInFrames
    <3> QED  BY <3>2, <3>3 DEF Layout, TypeOK
  <2>3. p \in Nat /\ EndOf(live[i]) <= p  BY <1>3, <1>6, <2>2
  <2>4. (live')[i] = live[i]
    <3>1. live \in Seq(LiveObject) /\ i # k /\ i \in 1 .. Len(live)
      BY <1>0, <1>3, <2>1 DEF Layout, TypeOK
    <3> DEFINE o == Object(f, 0, size + n)
    <3> HIDE DEF o
    <3>2. live' = [live EXCEPT ![k] = o]  BY <1>2 DEF o
    <3> QED  BY <3>1, <3>2
  <2>5. \A c \in 0 .. FrameSize[g] - 1 : c < p => (blob')[g][c] = blob[g][c]
    <3> HIDE DEF g
    <3>1. CASE g = active  BY <3>1, <1>13 DEF old, rest
    <3>2. CASE g # active
      <4>1. g \in Nat /\ active \in Nat /\ f \in Nat /\ g <= active  BY <1>3, <1>5, <2>2, FrameIsNat
      <4>2. g # f  BY <1>5, <4>1
      <4> QED  BY <3>2, <4>2, <1>7, <1>8, <2>2
    <3> QED  BY <3>1, <3>2
  <2> HIDE DEF p
  <2> QED  BY <1>0, <2>1, <2>3, <2>4, <2>5, KeptContents
<1>17. Lengthened(k, f, start, 0, n, d)
  BY <1>0, <1>2, <1>6, <1>14, <1>15, <1>16 DEF Lengthened, new, old
<1>18. 0 \in Nat  OBVIOUS
<1> QED  BY <1>1, <1>4, <1>17, <1>18, LengthenedGrows

\* The invariant for the refinement.
IsInMemory == StackInMemory = LiveStack

LEMMA StepOfTheStack ==
    ASSUME Layout, Layout', [Next]_vars,
           IsInMemory, IsInMemory'
    PROVE  [Abstract!Next]_StackInMemory
<1>0. StackInMemory = LiveStack /\ StackInMemory' = LiveStack'  BY DEF IsInMemory
<1>1. ASSUME NEW n \in Sizes, NEW d \in Data PROVE Fill(n, d) \in Abstract!Request
  <2>1. Fill(n, d) \in [1 .. n -> Data]  BY DEF Fill
  <2> QED  BY <2>1 DEF Abstract!Request
<1>2. CASE \E n \in Sizes, d \in Data : NewObject(n, d)
  <2>1. PICK n \in Sizes, d \in Data : NewObject(n, d)  BY <1>2
  <2>2. StackInMemory' = Append(StackInMemory, Fill(n, d))  BY <1>0, <2>1, NewObjectPushes
  <2> QED  BY <1>1, <2>2 DEF Abstract!Next, Abstract!Push
<1>3. CASE \E n \in Sizes, d \in Data : GrowInPlace(n, d) \/ GrowByMoving(n, d)
  <2>1. PICK n \in Sizes, d \in Data : GrowInPlace(n, d) \/ GrowByMoving(n, d)  BY <1>3
  <2>2. Grows(Fill(n, d))  BY <2>1, GrowInPlaceGrows, GrowByMovingGrows
  <2>3. /\ StackInMemory # << >>
        /\ StackInMemory' = [StackInMemory EXCEPT
                                ![Len(StackInMemory)] = StackInMemory[Len(StackInMemory)] \o Fill(n, d)]
    BY <1>0, <2>2 DEF Grows
  <2>4. Fill(n, d) \in Abstract!Request  BY <1>1
  <2> QED  BY <2>3, <2>4 DEF Abstract!Next, Abstract!Grow
<1>4. CASE DeleteObject
  <2>1. /\ StackInMemory # << >>
        /\ StackInMemory' = SubSeq(StackInMemory, 1, Len(StackInMemory) - 1)
    BY <1>0, <1>4, DeleteObjectPops
  <2> QED  BY <2>1 DEF Abstract!Next, Abstract!Pop
<1>5. CASE \E n \in Sizes : NewObjectRefused(n) \/ GrowRefused(n)
  <2>1. blob' = Allocated(MaxFrames - 1) /\ UNCHANGED live
    BY <1>5 DEF NewObjectRefused, GrowRefused
  <2> QED  BY <1>0, <2>1, RefusalKeepsStack
<1>6. CASE UNCHANGED vars
  <2>1. UNCHANGED live /\ UNCHANGED blob  BY <1>6 DEF vars
  <2>2. LiveStack' = LiveStack  BY <2>1 DEF LiveStack, First, Contents, Bytes
  <2> QED  BY <1>0, <2>2
<1> QED  BY <1>2, <1>3, <1>4, <1>5, <1>6 DEF Next

(* Whatever the frames are, and whatever is requested, what is in memory is *)
(* a stack of byte strings: newObject pushes, deleteObject removes the top  *)
(* one, growObject adds bytes to it, moved or not, and a refused request    *)
(* changes nothing.                                                         *)
THEOREM MemoryIsAStack == Spec => ImplementsObjectStack
<1>1. Layout => IsInMemory  BY MemoryHoldsTheStack DEF IsInMemory
<1>2. Init => Abstract!Init
  <2> SUFFICES ASSUME Init PROVE StackInMemory = << >>  BY DEF Abstract!Init
  <2>1. Layout  BY InitLayout
  <2>2. Len(live) = 0  BY DEF Init
  <2>3. LiveStack = << >>  BY <2>1, <2>2, FirstFacts DEF LiveStack
  <2> QED  BY <1>1, <2>1, <2>3 DEF IsInMemory
<1>3. /\ Layout /\ Layout' /\ [Next]_vars
      /\ IsInMemory /\ IsInMemory'
      => [Abstract!Next]_StackInMemory
  BY StepOfTheStack
<1> QED  BY <1>1, <1>2, <1>3, LayoutInvariant, PTL DEF Spec, ImplementsObjectStack, Abstract!Spec
=============================================================================

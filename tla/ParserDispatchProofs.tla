------------------------ MODULE ParserDispatchProofs ------------------------
(***************************************************************************)
(* ParserDispatch and, on top of it, ExtraData, for any schema, any tags   *)
(* and any depth.  First types, then that the three counters and           *)
(* mElementDataStack together are the stack of open elements, from which   *)
(* follows who gets what; that the frames of namespaces divide the open    *)
(* elements among them; and who is told of extra data.                     *)
(***************************************************************************)
EXTENDS ExtraData, SequenceTheorems, TLAPS

-----------------------------------------------------------------------------
(* Sequences and bindings. *)

\* What Last and Front are of a sequence that is not empty.
LEMMA Ends ==
    ASSUME NEW S, NEW s \in Seq(S), s # << >>
    PROVE  /\ Len(s) \in Nat /\ Len(s) > 0
           /\ Last(s) \in S
           /\ Front(s) \in Seq(S)
           /\ Len(Front(s)) = Len(s) - 1
           /\ \A i \in 1..Len(s) - 1 : Front(s)[i] = s[i]
<1>1. Len(s) \in Nat /\ Len(s) > 0  OBVIOUS
<1>2. Last(s) \in S  BY <1>1 DEF Last
<1>3. Front(s) \in Seq(S)  BY <1>1 DEF Front
<1>4. /\ Len(Front(s)) = Len(s) - 1
      /\ \A i \in 1..Len(s) - 1 : Front(s)[i] = s[i]
  <2>1. 1 \in 1..Len(s) + 1 /\ Len(s) - 1 \in 0..Len(s)  BY <1>1
  <2> QED  BY <1>1, <2>1, SubSeqProperties DEF Front
<1> QED  BY <1>1, <1>2, <1>3, <1>4

\* Append, as far as it is needed here.
LEMMA Appended ==
    ASSUME NEW S, NEW s \in Seq(S), NEW e \in S
    PROVE  /\ Append(s, e) \in Seq(S) /\ Append(s, e) # << >>
           /\ Len(Append(s, e)) = Len(s) + 1
           /\ Last(Append(s, e)) = e
           /\ \A i \in 1..Len(s) : Append(s, e)[i] = s[i]
BY DEF Last

LEMMA FrontOfAppend ==
    ASSUME NEW S, NEW s \in Seq(S), NEW e \in S
    PROVE  Front(Append(s, e)) = s
<1> DEFINE a == Append(s, e)
<1>1. /\ a \in Seq(S) /\ Len(a) = Len(s) + 1 /\ a # << >>
      /\ \A i \in 1..Len(s) : a[i] = s[i]
  BY Appended
<1> HIDE DEF a
<1>2. /\ Front(a) \in Seq(S) /\ Len(Front(a)) = Len(a) - 1
      /\ \A i \in 1..Len(a) - 1 : Front(a)[i] = a[i]
  BY <1>1, Ends
<1>3. Len(Front(a)) = Len(s) /\ \A i \in 1..Len(s) : Front(a)[i] = s[i]
  BY <1>1, <1>2, LenProperties
<1>4. Front(a) = s  BY <1>2, <1>3, SeqEqual
<1> QED  BY <1>4 DEF a

\* Declarations over bindings are bindings.
LEMMA OverType ==
    ASSUME NEW b \in Bindings, NEW c \in Bindings
    PROVE  Over(b, c) \in Bindings
<1>1. PICK P \in SUBSET Prefix : b \in [P -> Namespace]  BY DEF Bindings
<1>2. PICK Q \in SUBSET Prefix : c \in [Q -> Namespace]  BY DEF Bindings
<1>3. P \union Q \in SUBSET Prefix  BY <1>1, <1>2
<1>4. Over(b, c) \in [P \union Q -> Namespace]  BY <1>1, <1>2 DEF Over
<1> QED  BY <1>3, <1>4 DEF Bindings

LEMMA NoBindingsType == NoBindings \in Bindings
<1>1. NoBindings \in [{} -> Namespace]  BY DEF NoBindings
<1> QED  BY <1>1 DEF Bindings

-----------------------------------------------------------------------------
(* Types. *)

Frames == Seq(FrameType)

LEMMA FrameOf ==
    ASSUME NEW b \in Bindings, NEW n \in Nat
    PROVE  /\ Frame(b, n).namespaces = b /\ Frame(b, n).counter = n
           /\ n > 0 => Frame(b, n) \in FrameType
BY DEF Frame, FrameType

\* What is known is known as bindings.
LEMMA KnownType ==
    ASSUME NEW s \in Frames
    PROVE  KnownIn(s) \in Bindings
<1>1. CASE s = << >>  BY <1>1, NoBindingsType DEF KnownIn
<1>2. CASE s # << >>
  <2>1. Last(s) \in FrameType  BY <1>2, Ends DEF Frames
  <2> QED  BY <2>1, <1>2 DEF KnownIn, FrameType
<1> QED  BY <1>1, <1>2

LEMMA CountUpType ==
    ASSUME NEW s \in Frames
    PROVE  CountUp(s) \in Frames /\ (s # << >> => KnownIn(CountUp(s)) = KnownIn(s))
<1>1. CASE s = << >>  BY <1>1 DEF CountUp
<1>2. CASE s # << >>
  <2> DEFINE f == Frame(Last(s).namespaces, Last(s).counter + 1)
  <2>1. Last(s) \in FrameType /\ Front(s) \in Frames  BY <1>2, Ends DEF Frames
  <2>2. Last(s).namespaces \in Bindings /\ Last(s).counter + 1 \in Nat \ {0}
    BY <2>1 DEF FrameType
  <2>3. f \in FrameType /\ f.namespaces = Last(s).namespaces  BY <2>2, FrameOf
  <2>4. CountUp(s) = Append(Front(s), f)  BY <1>2 DEF CountUp
  <2> HIDE DEF f
  <2>5. /\ Append(Front(s), f) \in Frames /\ Append(Front(s), f) # << >>
        /\ Last(Append(Front(s), f)) = f
    BY <2>1, <2>3, Appended DEF Frames
  <2> QED  BY <2>3, <2>4, <2>5, <1>2 DEF KnownIn
<1> QED  BY <1>1, <1>2

\* A new frame has to be counted up before it is one of the stack.
LEMMA CountUpNew ==
    ASSUME NEW s \in Frames, NEW b \in Bindings
    PROVE  /\ CountUp(Append(s, Frame(b, 0))) = Append(s, Frame(b, 1))
           /\ CountUp(Append(s, Frame(b, 0))) \in Frames
<1> DEFINE AnyFrame == [namespaces : Bindings, counter : Nat]
           e == Frame(b, 0)
           a == Append(s, e)
<1>1. e \in AnyFrame /\ e.namespaces = b /\ e.counter + 1 = 1  BY DEF Frame
<1>2. s \in Seq(AnyFrame)
  <2>1. s \in Seq(FrameType)  BY DEF Frames
  <2>2. FrameType \subseteq AnyFrame  BY DEF FrameType
  <2> QED  BY <2>1, <2>2, SeqMonotonic
<1> HIDE DEF AnyFrame, e
<1>3. a # << >> /\ Last(a) = e /\ Front(a) = s
  <2>1. a \in Seq(AnyFrame) /\ a # << >> /\ Len(a) = Len(s) + 1 /\ Last(a) = e
    BY <1>1, <1>2, Appended
  <2>2. Front(a) = s  BY <1>1, <1>2, FrontOfAppend
  <2> QED  BY <2>1, <2>2
<1>4. CountUp(a) = Append(s, Frame(b, 1))  BY <1>1, <1>3 DEF CountUp
<1>5. Frame(b, 1) \in FrameType  BY FrameOf
<1> QED  BY <1>4, <1>5 DEF Frames, e

LEMMA CountDownType ==
    ASSUME NEW s \in Frames
    PROVE  CountDown(s) \in Frames
<1>1. CASE s = << >>  BY <1>1 DEF CountDown
<1>2. CASE s # << >>
  <2>1. Last(s) \in FrameType /\ Front(s) \in Frames  BY <1>2, Ends DEF Frames
  <2>2. CASE Last(s).counter = 1  BY <1>2, <2>1, <2>2 DEF CountDown
  <2>3. CASE Last(s).counter # 1
    <3> DEFINE b == Last(s).namespaces
               n == Last(s).counter - 1
               f == Frame(b, n)
    <3>1. b \in Bindings /\ n \in Nat /\ n > 0
      BY <2>1, <2>3 DEF FrameType
    <3> HIDE DEF b, n
    <3>2. f \in FrameType  BY <3>1, FrameOf
    <3> USE DEF b, n
    <3>3. CountDown(s) = Append(Front(s), f)  BY <1>2, <2>3 DEF CountDown
    <3> HIDE DEF f
    <3> QED  BY <2>1, <3>2, <3>3 DEF Frames
  <2> QED  BY <2>2, <2>3
<1> QED  BY <1>1, <1>2

LEMMA TagType ==
    ASSUME NEW tag \in Tag
    PROVE  tag.name \in Name /\ tag.prefix \in Prefix /\ tag.xmlns \in Bindings
BY SchemaAssumption

LEMMA EnteredType ==
    ASSUME TypeOK, NEW tag \in Tag
    PROVE  Entered(tag) \in Frames
<1>1. namespacesStack \in Frames  BY DEF TypeOK, Frames
<1>2. Pushed(tag) \in Bindings  BY <1>1, KnownType, TagType, OverType DEF Pushed, Known
<1>3. CountUp(namespacesStack) \in Frames  BY <1>1, CountUpType
<1>4. CountUp(Append(namespacesStack, Frame(Pushed(tag), 0))) \in Frames
  BY <1>1, <1>2, CountUpNew
<1>5. CountUp(Parsed(tag)) \in Frames  BY <1>3, <1>4 DEF Parsed
<1> QED  BY <1>3, <1>5 DEF Entered

LEMMA ReceiverType ==
    ASSUME TypeOK
    PROVE  /\ Receiver \in Receivers
           /\ Receiver = Implementation <=> ~ Skipping
<1>1. activeHandler \in Namespace \union {Nobody} /\ settings.unknown \in {UnknownHandler, Nobody}
  BY DEF TypeOK, Settings
<1>2. /\ ignoreElements \in Nat /\ unknownElements \in Nat /\ namespaceElements \in Nat
  BY DEF TypeOK
<1>3. Implementation \notin Namespace /\ Implementation # Nobody /\ Implementation # UnknownHandler
  BY SchemaAssumption DEF Implementation, Nobody, UnknownHandler
<1> QED  BY <1>1, <1>2, <1>3 DEF Receiver, Skipping, Receivers

\* What `open' is after the begin of an element.
LEMMA OpensType ==
    ASSUME TypeOK, NEW tag \in Tag, NEW r \in Receivers, NEW s \in Frames, Opens(tag, r, s)
    PROVE  /\ namespacesStack' \in Frames
           /\ open' \in Seq(OpenType)
           /\ Len(open') = Len(open) + 1
           /\ \A i \in 1..Len(open) : open'[i] = open[i]
           /\ open'[Len(open')].to = r /\ open'[Len(open')].name = tag.name
<1> DEFINE e == [name |-> tag.name, to |-> r, known |-> KnownIn(s)]
<1>1. open \in Seq(OpenType)  BY DEF TypeOK
<1>2. KnownIn(s) \in Bindings  BY KnownType
<1>3. e \in OpenType /\ e.to = r /\ e.name = tag.name  BY <1>2, TagType DEF OpenType
<1>4. open' = Append(open, e) /\ namespacesStack' = s  BY DEF Opens
<1> HIDE DEF e
<1>5. /\ Append(open, e) \in Seq(OpenType) /\ Append(open, e) # << >>
      /\ Len(Append(open, e)) = Len(open) + 1 /\ Last(Append(open, e)) = e
      /\ \A i \in 1..Len(open) : Append(open, e)[i] = open[i]
  BY <1>1, <1>3, Appended
<1>6. open'[Len(open')] = e  BY <1>4, <1>5 DEF Last
<1> QED  BY <1>3, <1>4, <1>5, <1>6

-----------------------------------------------------------------------------
(* The stack and the counters are the open elements. *)

Structure ==
    /\ Len(open) = Len(elementDataStack) + ignoreElements + unknownElements + namespaceElements
    /\ ignoreElements > 0 => unknownElements = 0 /\ namespaceElements = 0
    /\ unknownElements > 0 => namespaceElements = 0

\* Who was told of the begin of the i-th open element.
ToldRightly ==
    \A i \in 1..Len(open) :
       /\ i <= Len(elementDataStack) => open[i].to = Implementation
       /\ i > Len(elementDataStack) => open[i].to = Receiver

OnPath ==
    \A i \in 1..Len(elementDataStack) :
       /\ <<Parent(i), open[i].name, elementDataStack[i]>> \in Schema
       /\ elementDataStack[i] \in settings.functionMap

IInv == TypeOK /\ (live => Structure /\ ToldRightly /\ OnPath)

\* Arithmetic of the counters.
LEMMA OneCounter ==
    ASSUME NEW x \in Nat, NEW y \in Nat, NEW z \in Nat, x + y + z = 1
    PROVE  (x > 0 => y = 0 /\ z = 0) /\ (y > 0 => z = 0)
OBVIOUS

LEMMA WhichCounter ==
    ASSUME NEW x \in Nat, NEW y \in Nat, NEW z \in Nat, x + y + z = 1
    PROVE  \/ x = 1 /\ y = 0 /\ z = 0
           \/ x = 0 /\ y = 1 /\ z = 0
           \/ x = 0 /\ y = 0 /\ z = 1
<1>1. x = 0 \/ x = 1  OBVIOUS
<1>2. CASE x = 1  BY <1>2
<1>3. CASE x = 0
  <2>1. y + z = 1  BY <1>3
  <2>2. y = 0 \/ y = 1  BY <2>1
  <2> QED  BY <1>3, <2>1, <2>2
<1> QED  BY <1>1, <1>2, <1>3

LEMMA Initially == Init => IInv
<1> SUFFICES ASSUME Init PROVE IInv  OBVIOUS
<1>1. TypeOK  BY DEF Init, TypeOK
<1>2. Structure /\ ToldRightly /\ OnPath  BY DEF Init, Structure, ToldRightly, OnPath
<1> QED  BY <1>1, <1>2 DEF IInv

\* Lengths are numbers.
LEMMA Lengths ==
    ASSUME TypeOK
    PROVE  /\ Len(open) \in Nat /\ Len(elementDataStack) \in Nat
           /\ ignoreElements \in Nat /\ unknownElements \in Nat /\ namespaceElements \in Nat
BY DEF TypeOK

\* The path does not change when elements are opened that are not on it.
LEMMA PathKept ==
    ASSUME IInv, live, elementDataStack' = elementDataStack, settings' = settings,
           \A i \in 1..Len(open) : open'[i] = open[i]
    PROVE  OnPath'
<1>1. TypeOK /\ Structure /\ OnPath  BY DEF IInv
<1>2. Len(elementDataStack) <= Len(open)  BY <1>1, Lengths DEF Structure
<1>3. \A i \in 1..Len(elementDataStack) : open'[i] = open[i] /\ Parent(i)' = Parent(i)
  BY <1>1, <1>2, Lengths DEF Parent
<1> QED  BY <1>1, <1>3 DEF OnPath

LEMMA BeginSkippedStep ==
    ASSUME IInv, NEW tag \in Tag, NEW ok \in BOOLEAN, ElementBegin(tag, ok), BeginSkipped(tag, ok)
    PROVE  IInv'
<1>1. TypeOK /\ Structure /\ ToldRightly /\ OnPath  BY DEF IInv, ElementBegin
<1>2. Receiver \in Receivers  BY <1>1, ReceiverType
<1>3. CountUp(namespacesStack) \in Frames  BY <1>1, CountUpType DEF TypeOK, Frames
<1>4. /\ namespacesStack' \in Frames /\ open' \in Seq(OpenType) /\ Len(open') = Len(open) + 1
      /\ \A i \in 1..Len(open) : open'[i] = open[i]
      /\ open'[Len(open')].to = Receiver
  BY <1>1, <1>2, <1>3, OpensType DEF BeginSkipped
<1>5. /\ elementDataStack' = elementDataStack /\ activeHandler' = activeHandler
      /\ handlers' = handlers /\ settings' = settings /\ live' = ok
  BY DEF BeginSkipped, ElementBegin
<1>6. /\ ignoreElements' \in Nat /\ unknownElements' \in Nat /\ namespaceElements' \in Nat
      /\ ignoreElements' > 0 <=> ignoreElements > 0
      /\ unknownElements' > 0 <=> unknownElements > 0
      /\ namespaceElements' > 0 <=> namespaceElements > 0
  BY <1>1, Lengths DEF BeginSkipped, Skipping, Structure
<1>7. TypeOK'  BY <1>1, <1>4, <1>5, <1>6 DEF TypeOK, Frames
<1>8. Structure'
  <2>1. Len(open') = Len(elementDataStack') + ignoreElements' + unknownElements' + namespaceElements'
    <3>1. /\ Len(open) = Len(elementDataStack) + ignoreElements + unknownElements + namespaceElements
          /\ Len(open) \in Nat /\ Len(elementDataStack) \in Nat
          /\ ignoreElements \in Nat /\ unknownElements \in Nat /\ namespaceElements \in Nat
      BY <1>1, Lengths DEF Structure
    <3>2. \/ /\ ignoreElements' = ignoreElements + 1
             /\ unknownElements' = unknownElements /\ namespaceElements' = namespaceElements
          \/ /\ unknownElements' = unknownElements + 1
             /\ ignoreElements' = ignoreElements /\ namespaceElements' = namespaceElements
          \/ /\ namespaceElements' = namespaceElements + 1
             /\ ignoreElements' = ignoreElements /\ unknownElements' = unknownElements
      BY DEF BeginSkipped
    <3> QED  BY <3>1, <3>2, <1>4, <1>5
  <2>2. /\ ignoreElements > 0 => ~ (unknownElements > 0) /\ ~ (namespaceElements > 0)
        /\ unknownElements > 0 => ~ (namespaceElements > 0)
    BY <1>1, Lengths DEF Structure
  <2>3. /\ ignoreElements' > 0 => ~ (unknownElements' > 0) /\ ~ (namespaceElements' > 0)
        /\ unknownElements' > 0 => ~ (namespaceElements' > 0)
    BY ONLY <2>2, <1>6
  <2>4. /\ ignoreElements' > 0 => unknownElements' = 0 /\ namespaceElements' = 0
        /\ unknownElements' > 0 => namespaceElements' = 0
    BY ONLY <2>3, <1>6
  <2> QED  BY <2>1, <2>4 DEF Structure
<1>9. Receiver' = Receiver  BY <1>5, <1>6 DEF Receiver
<1>10. ToldRightly'
  <2> SUFFICES ASSUME NEW i \in 1..Len(open')
               PROVE  /\ i <= Len(elementDataStack) => open'[i].to = Implementation
                      /\ i > Len(elementDataStack) => open'[i].to = Receiver
    BY <1>5, <1>9 DEF ToldRightly
  <2>1. CASE i <= Len(open)  BY <1>1, <1>4, <2>1, Lengths DEF ToldRightly
  <2>2. CASE i > Len(open)
    <3>1. i = Len(open') /\ i > Len(elementDataStack)
      BY <1>1, <1>4, <2>2, Lengths DEF Structure
    <3> QED  BY <1>4, <3>1, <1>1, Lengths
  <2> QED  BY <2>1, <2>2, Lengths, <1>1, <1>4
<1>11. OnPath'  BY <1>4, <1>5, PathKept DEF ElementBegin
<1> QED  BY <1>7, <1>8, <1>10, <1>11 DEF IInv

\* The first of the elements that are skipped, whoever is told of it.
LEMMA SkippingBegins ==
    ASSUME IInv, live, ~ Skipping, NEW tag \in Tag, NEW r \in Receivers,
           Opens(tag, r, Entered(tag)),
           elementDataStack' = elementDataStack, handlers' = handlers, settings' = settings,
           live' \in BOOLEAN,
           ignoreElements' \in Nat, unknownElements' \in Nat, namespaceElements' \in Nat,
           ignoreElements' + unknownElements' + namespaceElements' = 1,
           activeHandler' \in Namespace \union {Nobody},
           Receiver' = r
    PROVE  IInv'
<1>1. TypeOK /\ Structure /\ ToldRightly /\ OnPath  BY DEF IInv
<1>2. Entered(tag) \in Frames  BY <1>1, EnteredType
<1>3. /\ namespacesStack' \in Frames /\ open' \in Seq(OpenType) /\ Len(open') = Len(open) + 1
      /\ \A i \in 1..Len(open) : open'[i] = open[i]
      /\ open'[Len(open')].to = r
  BY <1>1, <1>2, OpensType
<1>4. TypeOK'  BY <1>1, <1>3 DEF TypeOK, Frames
<1>5. Len(open) = Len(elementDataStack)  BY <1>1, Lengths DEF Skipping, Structure
<1>6. Structure'
  <2>1. Len(open') = Len(elementDataStack') + ignoreElements' + unknownElements' + namespaceElements'
    <3>1. Len(elementDataStack') \in Nat  BY <1>4 DEF TypeOK
    <3>2. Len(open') = Len(elementDataStack') + 1  BY <1>3, <1>5
    <3>3. \/ ignoreElements' = 1 /\ unknownElements' = 0 /\ namespaceElements' = 0
          \/ ignoreElements' = 0 /\ unknownElements' = 1 /\ namespaceElements' = 0
          \/ ignoreElements' = 0 /\ unknownElements' = 0 /\ namespaceElements' = 1
      BY WhichCounter
    <3>4. ASSUME NEW n \in Nat
          PROVE  n + 1 + 0 + 0 = n + 1 /\ n + 0 + 1 + 0 = n + 1 /\ n + 0 + 0 + 1 = n + 1
      OBVIOUS
    <3> QED  BY <3>1, <3>2, <3>3, <3>4
  <2>2. /\ ignoreElements' > 0 => unknownElements' = 0 /\ namespaceElements' = 0
        /\ unknownElements' > 0 => namespaceElements' = 0
    BY OneCounter
  <2> QED  BY <2>1, <2>2 DEF Structure
<1>7. ToldRightly'
  <2> SUFFICES ASSUME NEW i \in 1..Len(open')
               PROVE  /\ i <= Len(elementDataStack) => open'[i].to = Implementation
                      /\ i > Len(elementDataStack) => open'[i].to = r
    BY DEF ToldRightly
  <2>1. CASE i <= Len(open)  BY <1>1, <1>3, <1>5, <2>1, Lengths DEF ToldRightly
  <2>2. CASE i > Len(open)
    <3>1. i = Len(open') /\ i > Len(elementDataStack)  BY <1>1, <1>3, <1>5, <2>2, Lengths
    <3> QED  BY <1>3, <3>1, <1>1, Lengths
  <2> QED  BY <2>1, <2>2, Lengths, <1>1, <1>3
<1>8. OnPath'  BY <1>3, PathKept
<1> QED  BY <1>4, <1>6, <1>7, <1>8 DEF IInv

LEMMA BeginNamespaceStep ==
    ASSUME IInv, NEW tag \in Tag, NEW ok \in BOOLEAN, ElementBegin(tag, ok), BeginNamespace(tag, ok)
    PROVE  IInv'
<1>1. TypeOK /\ live /\ ~ Skipping  BY DEF IInv, ElementBegin, BeginNamespace
<1>2. ignoreElements = 0 /\ unknownElements = 0  BY <1>1, Lengths DEF Skipping
<1>3. /\ activeHandler' \in Namespace /\ Opens(tag, activeHandler', Entered(tag))
      /\ ignoreElements' = 0 /\ unknownElements' = 0 /\ namespaceElements' = 1
      /\ elementDataStack' = elementDataStack
  BY <1>1, <1>2 DEF BeginNamespace, TypeOK
<1>4. handlers' = handlers /\ settings' = settings /\ live' \in BOOLEAN  BY DEF ElementBegin
<1>5. Receiver' = activeHandler'  BY <1>3 DEF Receiver
<1>6. activeHandler' \in Receivers  BY <1>3 DEF Receivers
<1> QED  BY <1>1, <1>3, <1>4, <1>5, <1>6, SkippingBegins

LEMMA BeginForeignStep ==
    ASSUME IInv, NEW tag \in Tag, NEW ok \in BOOLEAN, ElementBegin(tag, ok), BeginForeign(tag, ok)
    PROVE  IInv'
<1>1. TypeOK /\ live /\ ~ Skipping  BY DEF IInv, ElementBegin, BeginForeign
<1>2. ignoreElements = 0 /\ unknownElements = 0 /\ namespaceElements = 0
  BY <1>1, Lengths DEF Skipping
<1>3. /\ handlers' = handlers /\ settings' = settings /\ live' \in BOOLEAN
      /\ elementDataStack' = elementDataStack /\ namespaceElements' = 0
      /\ activeHandler' = activeHandler
  BY <1>2 DEF ElementBegin, BeginForeign
<1>4. activeHandler' \in Namespace \union {Nobody} /\ settings.unknown \in {UnknownHandler, Nobody}
  BY <1>1, <1>3 DEF TypeOK, Settings
<1>5. CASE LeftOut(tag, Entered(tag))
  <2>1. ignoreElements' = 1 /\ unknownElements' = 0 /\ Opens(tag, Nobody, Entered(tag))
    BY <1>2, <1>5 DEF BeginForeign
  <2>2. Receiver' = Nobody /\ Nobody \in Receivers  BY <2>1 DEF Receiver, Receivers
  <2> QED  BY <1>1, <1>3, <1>4, <2>1, <2>2, SkippingBegins
<1>6. CASE ~ LeftOut(tag, Entered(tag))
  <2>1. /\ ignoreElements' = 0 /\ unknownElements' = 1
        /\ Opens(tag, settings.unknown, Entered(tag))
    BY <1>2, <1>6 DEF BeginForeign
  <2>2. Receiver' = settings.unknown /\ settings.unknown \in Receivers
    BY <1>3, <1>4, <2>1 DEF Receiver, Receivers
  <2> QED  BY <1>1, <1>3, <1>4, <2>1, <2>2, SkippingBegins
<1> QED  BY <1>5, <1>6

LEMMA BeginKnownStep ==
    ASSUME IInv, NEW tag \in Tag, NEW ok \in BOOLEAN, ElementBegin(tag, ok), BeginKnown(tag, ok)
    PROVE  IInv'
<1> DEFINE d == elementDataStack
<1>1. TypeOK /\ live /\ ~ Skipping /\ Structure /\ ToldRightly /\ OnPath
  BY DEF IInv, ElementBegin, BeginKnown
<1>2. PICK t \in Accepted(tag, Entered(tag)) : d' = IF ok THEN Append(d, t) ELSE d
  BY DEF BeginKnown
<1>3. <<Context, tag.name, t>> \in Schema /\ t \in Type /\ t \in settings.functionMap
  BY <1>2 DEF Accepted, Found
<1>4. Entered(tag) \in Frames /\ Implementation \in Receivers
  BY <1>1, EnteredType DEF Receivers
<1>5. /\ namespacesStack' \in Frames /\ open' \in Seq(OpenType) /\ Len(open') = Len(open) + 1
      /\ \A i \in 1..Len(open) : open'[i] = open[i]
      /\ open'[Len(open')].to = Implementation /\ open'[Len(open')].name = tag.name
  BY <1>1, <1>4, OpensType DEF BeginKnown
<1>6. /\ ignoreElements' = ignoreElements /\ unknownElements' = unknownElements
      /\ namespaceElements' = namespaceElements /\ activeHandler' = activeHandler
      /\ handlers' = handlers /\ settings' = settings /\ live' = ok
  BY DEF BeginKnown, ElementBegin, counters
<1>7. d \in Seq(Type)  BY <1>1 DEF TypeOK
<1>8. /\ Append(d, t) \in Seq(Type) /\ Len(Append(d, t)) = Len(d) + 1
      /\ Last(Append(d, t)) = t /\ \A i \in 1..Len(d) : Append(d, t)[i] = d[i]
  BY <1>3, <1>7, Appended
<1>9. TypeOK'
  <2>1. d' \in Seq(Type)  BY <1>2, <1>7, <1>8
  <2> QED  BY <2>1, <1>1, <1>5, <1>6 DEF TypeOK, Frames
<1>10. ASSUME ok PROVE Structure' /\ ToldRightly' /\ OnPath'
  <2>1. d' = Append(d, t)  BY <1>2, <1>10
  <2>2. /\ ignoreElements = 0 /\ unknownElements = 0 /\ namespaceElements = 0
        /\ Len(open) = Len(d) /\ Len(d) \in Nat
    BY <1>1, Lengths DEF Skipping, Structure
  <2>3. Len(d') = Len(d) + 1 /\ Len(open') = Len(d') /\ d'[Len(d')] = t
    BY <2>1, <2>2, <1>5, <1>8 DEF Last
  <2>4. Structure'
    BY <2>2, <2>3, <1>6 DEF Structure
  <2>5. \A i \in 1..Len(open) : open'[i].to = Implementation
    BY <1>1, <1>5, <2>2 DEF ToldRightly
  <2>6. ToldRightly'
    BY <2>2, <2>3, <2>5, <1>5 DEF ToldRightly
  <2>7. \A i \in 1..Len(d) : Parent(i)' = Parent(i) /\ d'[i] = d[i]
    BY <2>1, <2>2, <1>8 DEF Parent
  <2>8. ASSUME NEW k \in Nat, k = Len(d) + 1  PROVE Parent(k)' = Context
    <3>1. CASE d = << >>
      <4>1. k = 1  BY <2>8, <3>1
      <4> QED  BY <3>1, <4>1 DEF Parent, Context
    <3>2. CASE d # << >>
      <4>1. k - 1 = Len(d) /\ k - 1 \in 1..Len(d) /\ k # 1  BY <2>8, <3>2, <1>7, <2>2
      <4>2. d'[k - 1] = Last(d)  BY <2>1, <4>1, <1>8 DEF Last
      <4>3. Parent(k)' = d'[k - 1]  BY <4>1 DEF Parent
      <4> QED  BY <3>2, <4>2, <4>3 DEF Context
    <3> QED  BY <3>1, <3>2
  <2>9. OnPath'
    <3> SUFFICES ASSUME NEW i \in 1..Len(d')
                 PROVE  /\ <<Parent(i)', open'[i].name, d'[i]>> \in Schema
                        /\ d'[i] \in settings.functionMap
      BY <1>6 DEF OnPath
    <3>1. CASE i \in 1..Len(d)
      BY <3>1, <1>1, <1>5, <2>2, <2>7 DEF OnPath
    <3>2. CASE i = Len(d) + 1
      <4>1. i = Len(open') /\ i = Len(d')  BY <3>2, <2>2, <2>3, <1>5
      <4>2. Parent(i)' = Context  BY <3>2, <2>2, <2>8
      <4> QED  BY <4>1, <4>2, <1>3, <1>5, <2>3
    <3> QED  BY <3>1, <3>2, <2>2, <2>3
  <2> QED  BY <2>4, <2>6, <2>9
<1> QED  BY <1>6, <1>9, <1>10 DEF IInv

LEMMA BeginStep ==
    ASSUME IInv, NEW tag \in Tag, NEW ok \in BOOLEAN, ElementBegin(tag, ok)
    PROVE  IInv'
BY BeginSkippedStep, BeginKnownStep, BeginNamespaceStep, BeginForeignStep DEF ElementBegin

\* Steps after which the parser, its settings and the document are as before.
LEMMA NothingOpened ==
    ASSUME IInv, live, live' \in BOOLEAN, handlers' \subseteq Namespace,
           UNCHANGED <<elementDataStack, counters, activeHandler, namespacesStack, settings, open>>
    PROVE  IInv'
<1>1. TypeOK /\ Structure /\ ToldRightly /\ OnPath  BY DEF IInv
<1>2. TypeOK'  BY <1>1 DEF TypeOK, counters
<1>3. Structure' /\ ToldRightly'  BY <1>1 DEF Structure, ToldRightly, Receiver, counters
<1>4. OnPath'  BY PathKept
<1> QED  BY <1>2, <1>3, <1>4 DEF IInv

\* What every end does to the stacks of the reader and of the namespaces.
LEMMA EndFrame ==
    ASSUME IInv, NEW ok \in BOOLEAN, ElementEnd(ok)
    PROVE  /\ TypeOK /\ Structure /\ ToldRightly /\ OnPath
           /\ namespacesStack' \in Frames
           /\ open' \in Seq(OpenType) /\ Len(open') = Len(open) - 1 /\ Len(open) > 0
           /\ \A i \in 1..Len(open) - 1 : open'[i] = open[i]
           /\ activeHandler' = activeHandler /\ handlers' = handlers /\ settings' = settings
<1>1. TypeOK /\ Structure /\ ToldRightly /\ OnPath  BY DEF IInv, ElementEnd
<1>2. namespacesStack' \in Frames  BY <1>1, CountDownType DEF TypeOK, Frames, ElementEnd
<1>3. open # << >> /\ open' = Front(open) /\ open \in Seq(OpenType)
  BY <1>1 DEF ElementEnd, TypeOK
<1>4. /\ Front(open) \in Seq(OpenType) /\ Len(Front(open)) = Len(open) - 1 /\ Len(open) > 0
      /\ \A i \in 1..Len(open) - 1 : Front(open)[i] = open[i]
  BY <1>3, Ends
<1> QED  BY <1>1, <1>2, <1>3, <1>4 DEF ElementEnd

LEMMA EndSkippedStep ==
    ASSUME IInv, NEW ok \in BOOLEAN, ElementEnd(ok), EndSkipped(ok)
    PROVE  IInv'
<1> DEFINE d == elementDataStack
<1>1. /\ TypeOK /\ Structure /\ ToldRightly /\ OnPath /\ namespacesStack' \in Frames
      /\ open' \in Seq(OpenType) /\ Len(open') = Len(open) - 1 /\ Len(open) > 0
      /\ \A i \in 1..Len(open) - 1 : open'[i] = open[i]
      /\ activeHandler' = activeHandler /\ handlers' = handlers /\ settings' = settings
  BY EndFrame
<1>2. d' = d /\ live' = ok  BY DEF EndSkipped
<1>3. /\ Len(open) = Len(d) + ignoreElements + unknownElements + namespaceElements
      /\ Len(open) \in Nat /\ Len(d) \in Nat
      /\ ignoreElements \in Nat /\ unknownElements \in Nat /\ namespaceElements \in Nat
      /\ ignoreElements > 0 => unknownElements = 0 /\ namespaceElements = 0
      /\ unknownElements > 0 => namespaceElements = 0
  BY <1>1, Lengths DEF Structure
<1>4. \/ /\ ignoreElements > 0 /\ ignoreElements' = ignoreElements - 1
         /\ unknownElements = 0 /\ namespaceElements = 0
         /\ unknownElements' = 0 /\ namespaceElements' = 0
      \/ /\ unknownElements > 0 /\ unknownElements' = unknownElements - 1
         /\ ignoreElements = 0 /\ namespaceElements = 0
         /\ ignoreElements' = 0 /\ namespaceElements' = 0
      \/ /\ namespaceElements > 0 /\ namespaceElements' = namespaceElements - 1
         /\ ignoreElements = 0 /\ unknownElements = 0
         /\ ignoreElements' = 0 /\ unknownElements' = 0
  BY <1>3 DEF EndSkipped, Skipping
<1>5. TypeOK'
  <2>1. ignoreElements' \in Nat /\ unknownElements' \in Nat /\ namespaceElements' \in Nat
    BY <1>3, <1>4
  <2> QED  BY <2>1, <1>1, <1>2 DEF TypeOK, Frames
<1>6. Structure'
  <2>1. Len(open') = Len(d') + ignoreElements' + unknownElements' + namespaceElements'
    BY <1>1, <1>2, <1>3, <1>4
  <2> QED  BY <2>1, <1>4 DEF Structure
<1>7. Len(d) <= Len(open')  BY <1>1, <1>3, <1>4
<1>8. Len(open') > Len(d) => Receiver' = Receiver
  BY <1>1, <1>3, <1>4 DEF Receiver
<1>9. ToldRightly'
  <2> SUFFICES ASSUME NEW i \in 1..Len(open')
               PROVE  /\ i <= Len(d) => open'[i].to = Implementation
                      /\ i > Len(d) => open'[i].to = Receiver'
    BY <1>2 DEF ToldRightly
  <2>1. i \in 1..Len(open) /\ open'[i] = open[i]  BY <1>1, <1>3
  <2>2. i > Len(d) => Len(open') > Len(d)  BY <1>1, <1>3
  <2> QED  BY <2>1, <2>2, <1>1, <1>8 DEF ToldRightly
<1>10. OnPath'
  <2>1. \A i \in 1..Len(d) : open'[i] = open[i] /\ Parent(i)' = Parent(i)
    BY <1>1, <1>2, <1>3, <1>7 DEF Parent
  <2> QED  BY <2>1, <1>1, <1>2 DEF OnPath
<1> QED  BY <1>5, <1>6, <1>9, <1>10 DEF IInv

LEMMA EndKnownStep ==
    ASSUME IInv, NEW ok \in BOOLEAN, ElementEnd(ok), EndKnown(ok)
    PROVE  IInv'
<1> DEFINE d == elementDataStack
<1>1. /\ TypeOK /\ Structure /\ ToldRightly /\ OnPath /\ namespacesStack' \in Frames
      /\ open' \in Seq(OpenType) /\ Len(open') = Len(open) - 1 /\ Len(open) > 0
      /\ \A i \in 1..Len(open) - 1 : open'[i] = open[i]
      /\ activeHandler' = activeHandler /\ handlers' = handlers /\ settings' = settings
  BY EndFrame
<1>2. /\ ignoreElements = 0 /\ unknownElements = 0 /\ namespaceElements = 0
      /\ ignoreElements' = 0 /\ unknownElements' = 0 /\ namespaceElements' = 0
  BY <1>1, Lengths DEF EndKnown, Skipping, counters
<1>3. Len(open) = Len(d) /\ Len(d) \in Nat /\ d \in Seq(Type)
  BY <1>1, <1>2, Lengths DEF Structure, TypeOK
<1>4. d # << >>  BY <1>1, <1>3
<1>5. d' = Front(d)  BY <1>4 DEF EndKnown
<1>6. /\ d' \in Seq(Type) /\ Len(d') = Len(d) - 1
      /\ \A i \in 1..Len(d) - 1 : d'[i] = d[i]
  BY <1>3, <1>4, <1>5, Ends
<1>7. TypeOK'
  <2>1. live' \in BOOLEAN  BY DEF EndKnown
  <2> QED  BY <2>1, <1>1, <1>2, <1>6 DEF TypeOK, Frames
<1>8. Structure'  BY <1>1, <1>2, <1>3, <1>6 DEF Structure
<1>9. ToldRightly'
  <2> SUFFICES ASSUME NEW i \in 1..Len(open')
               PROVE  open'[i].to = Implementation /\ ~ (i > Len(d'))
    BY DEF ToldRightly
  <2>1. i \in 1..Len(open) - 1 /\ i \in 1..Len(open) /\ i <= Len(d) /\ ~ (i > Len(d'))
    BY <1>1, <1>3, <1>6
  <2> QED  BY <2>1, <1>1 DEF ToldRightly
<1>10. OnPath'
  <2>1. \A i \in 1..Len(d') : /\ i \in 1..Len(d) /\ open'[i] = open[i] /\ d'[i] = d[i]
                              /\ Parent(i)' = Parent(i)
    BY <1>1, <1>3, <1>6 DEF Parent
  <2> QED  BY <2>1, <1>1 DEF OnPath
<1> QED  BY <1>7, <1>8, <1>9, <1>10 DEF IInv

LEMMA Preserved == IInv /\ [Next]_vars => IInv'
<1> SUFFICES ASSUME IInv, [Next]_vars PROVE IInv'  OBVIOUS
<1>1. ASSUME NEW ok \in BOOLEAN, NEW tag \in Tag, ElementBegin(tag, ok) PROVE IInv'
  BY <1>1, BeginStep
<1>2. ASSUME NEW ok \in BOOLEAN, TextData(ok) PROVE IInv'
  BY <1>2, NothingOpened DEF TextData, IInv, TypeOK
<1>3. ASSUME NEW ok \in BOOLEAN, ElementEnd(ok) PROVE IInv'
  BY <1>3, EndSkippedStep, EndKnownStep DEF ElementEnd
<1>4. ASSUME NEW ns \in Namespace, RegisterNamespaceHandler(ns) PROVE IInv'
  BY <1>4, NothingOpened DEF RegisterNamespaceHandler, IInv, TypeOK
<1>5. ASSUME NEW ns \in Namespace, UnregisterNamespaceHandler(ns) PROVE IInv'
  BY <1>5, NothingOpened DEF UnregisterNamespaceHandler, IInv, TypeOK
<1>6. CASE UNCHANGED vars
  <2>1. IInv  OBVIOUS
  <2> QED  BY <2>1, <1>6 DEF IInv, TypeOK, Structure, ToldRightly, OnPath, Receiver, Parent,
             vars, counters
<1> QED  BY <1>1, <1>2, <1>3, <1>4, <1>5, <1>6 DEF Next

LEMMA Invariant == Spec => []IInv
BY Initially, Preserved, PTL DEF Spec

-----------------------------------------------------------------------------
(* Namespaces.  The frames of mNamespacesStack divide the open elements     *)
(* among them: the outermost elements have no frame, the next ones the      *)
(* first frame, and so on; bound[k] elements lie outside of frame k + 1.    *)

Spans(bound, s, o) ==
    /\ bound[Len(s)] = Len(o)
    /\ \A j, k \in 0..Len(s) : j < k => bound[j] < bound[k]
    /\ \A k \in 1..Len(s) : bound[k] = bound[k - 1] + s[k].counter
    /\ \A i \in 1..Len(o) : i <= bound[0] => o[i].known = NoBindings
    /\ \A k \in 1..Len(s), i \in 1..Len(o) :
          bound[k - 1] < i /\ i <= bound[k] => o[i].known = s[k].namespaces

Divided(s, o) == \E bound \in [0..Len(s) -> 0..Len(o)] : Spans(bound, s, o)

FramesDivideOpen == Divided(namespacesStack, open)

\* What is known is what was known when the innermost open element began.
LEMMA KnownOfLast ==
    ASSUME NEW s \in Frames, NEW o \in Seq(OpenType), Divided(s, o)
    PROVE  KnownIn(s) = IF o = << >> THEN NoBindings ELSE Last(o).known
<1> DEFINE n == Len(s)
           m == Len(o)
<1>1. PICK bound \in [0..n -> 0..m] : Spans(bound, s, o)  BY DEF Divided
<1>2. n \in Nat /\ m \in Nat /\ bound[n] = m /\ s \in Seq(FrameType)
  BY <1>1 DEF Frames, Spans
<1>3. CASE s = << >>
  <2>1. n = 0  BY <1>3
  <2>2. CASE o = << >>  BY <2>2, <1>3 DEF KnownIn
  <2>3. CASE o # << >>
    <3>1. m \in 1..m  BY <2>3, <1>2
    <3>2. o[m].known = NoBindings  BY <1>1, <1>2, <2>1, <3>1 DEF Spans
    <3> QED  BY <1>3, <2>3, <3>2 DEF KnownIn, Last
  <2> QED  BY <2>2, <2>3
<1>4. CASE s # << >>
  <2>1. n \in 1..n /\ s[n] \in FrameType /\ Last(s) = s[n]  BY <1>2, <1>4 DEF Last
  <2>2. s[n].counter \in Nat /\ s[n].counter > 0  BY <2>1 DEF FrameType
  <2>3. bound[n] = bound[n - 1] + s[n].counter  BY <1>1, <2>1 DEF Spans
  <2>4. bound[n - 1] \in Nat  BY <1>2, <2>1
  <2>5. m \in 1..m /\ bound[n - 1] < m
    <3>1. ASSUME NEW x \in Nat, NEW y \in Nat, NEW c \in Nat, c > 0, y = x + c
          PROVE  y \in 1..y /\ x < y
      BY <3>1
    <3>2. m = bound[n - 1] + s[n].counter  BY <1>2, <2>3
    <3> HIDE DEF n, m
    <3> QED  BY <1>2, <2>2, <2>4, <3>1, <3>2
  <2>6. o[m].known = s[n].namespaces  BY <1>1, <1>2, <2>1, <2>5 DEF Spans
  <2>7. o # << >>  BY <2>5
  <2> QED  BY <1>4, <2>1, <2>6, <2>7 DEF KnownIn, Last
<1> QED  BY <1>3, <1>4

\* One more element without declarations of its own belongs to the innermost frame.
LEMMA DividedUp ==
    ASSUME NEW s \in Frames, NEW o \in Seq(OpenType), Divided(s, o),
           NEW e \in OpenType, e.known = KnownIn(s)
    PROVE  Divided(CountUp(s), Append(o, e))
<1> DEFINE n == Len(s)
           m == Len(o)
           p == Append(o, e)
           t == CountUp(s)
<1>1. PICK bound \in [0..n -> 0..m] : Spans(bound, s, o)  BY DEF Divided
<1>2. n \in Nat /\ m \in Nat /\ bound[n] = m /\ s \in Seq(FrameType)
  BY <1>1 DEF Frames, Spans
<1>3. /\ p \in Seq(OpenType) /\ Len(p) = m + 1
      /\ \A i \in 1..m : p[i] = o[i]
      /\ p[m + 1] = e
  OBVIOUS
<1> HIDE DEF p
<1>4. CASE s = << >>
  <2>1. n = 0 /\ t = s /\ e.known = NoBindings  BY <1>4 DEF CountUp, KnownIn
  <2> DEFINE b == [k \in 0..n |-> m + 1]
  <2>2. b \in [0..n -> 0..m + 1]  BY <1>2
  <2>3. Spans(b, s, p)
    <3>1. \A i \in 1..m + 1 : p[i].known = NoBindings
      <4>1. \A i \in 1..m : o[i].known = NoBindings
        BY <1>1, <1>2, <2>1 DEF Spans
      <4> QED  BY <1>2, <1>3, <2>1, <4>1
    <3> QED  BY <1>2, <1>3, <2>1, <3>1 DEF Spans
  <2> QED  BY <1>3, <2>1, <2>2, <2>3 DEF Divided, p
<1>5. CASE s # << >>
  <2> DEFINE f == Frame(Last(s).namespaces, Last(s).counter + 1)
             b == [bound EXCEPT ![n] = m + 1]
  <2>1. n \in 1..n /\ s[n] \in FrameType /\ Last(s) = s[n]  BY <1>2, <1>5 DEF Last
  <2>2. /\ s[n].counter \in Nat /\ s[n].namespaces \in Bindings /\ s[n].counter + 1 \in Nat
        /\ s[n].counter + 1 > 0
    BY <2>1 DEF FrameType
  <2>3. f \in FrameType /\ f.namespaces = s[n].namespaces /\ f.counter = s[n].counter + 1
    BY <2>1, <2>2, FrameOf
  <2>4. t = Append(Front(s), f)  BY <1>5 DEF CountUp
  <2> HIDE DEF f
  <2>5. /\ Front(s) \in Seq(FrameType) /\ Len(Front(s)) = n - 1
        /\ \A i \in 1..n - 1 : Front(s)[i] = s[i]
    BY <1>2, <1>5, Ends
  <2>6. Len(t) = n /\ t[n] = f /\ \A i \in 1..n - 1 : t[i] = s[i]
    BY <2>1, <2>3, <2>4, <2>5
  <2> HIDE DEF t, n, m
  <2>7. /\ b \in [0..n -> 0..m + 1] /\ b[n] = m + 1
        /\ \A k \in 0..n - 1 : b[k] = bound[k]
    BY <1>1, <1>2, <2>1
  <2>8. \A k \in 0..n : bound[k] \in 0..m  BY <1>1
  <2>9. bound[n] = bound[n - 1] + s[n].counter /\ n - 1 \in 0..n - 1 /\ n - 1 \in 0..n
    BY <1>1, <2>1, <1>2 DEF Spans, n
  <2>10. e.known = s[n].namespaces  BY <1>5, <2>1 DEF KnownIn
  <2> HIDE DEF b
  <2>11. Spans(b, t, p)
    <3>1. b[Len(t)] = Len(p)  BY <1>3, <2>6, <2>7
    <3>2. ASSUME NEW k \in 1..n PROVE b[k] = b[k - 1] + t[k].counter
      <4>1. CASE k = n
        <5>1. b[n - 1] = bound[n - 1]  BY <2>7, <2>9
        <5>2. b[n] = m + 1 /\ m = bound[n - 1] + s[n].counter  BY <1>2, <2>7, <2>9
        <5>3. bound[n - 1] \in Nat  BY <2>8, <2>9
        <5>4. b[n] = bound[n - 1] + (s[n].counter + 1)
          <6>1. ASSUME NEW x \in Nat, NEW c \in Nat PROVE (x + c) + 1 = x + (c + 1)  OBVIOUS
          <6> QED  BY <5>2, <5>3, <2>2, <6>1
        <5> QED  BY <4>1, <5>1, <5>4, <2>3, <2>6
      <4>2. CASE k # n
        <5>1. k \in 1..n - 1 /\ k \in 0..n - 1 /\ k - 1 \in 0..n - 1  BY <1>2, <4>2
        <5>2. bound[k] = bound[k - 1] + s[k].counter  BY <1>1 DEF Spans, n
        <5> QED  BY <5>1, <5>2, <2>6, <2>7
      <4> QED  BY <4>1, <4>2
    <3>3. ASSUME NEW i \in 1..m + 1, i <= b[0] PROVE p[i].known = NoBindings
      <4>1. b[0] = bound[0] /\ bound[0] \in 0..m  BY <2>7, <2>8, <2>1, <1>2
      <4>2. i \in 1..m /\ i <= bound[0]  BY <3>3, <4>1, <1>2
      <4> QED  BY <1>1, <1>3, <4>2 DEF Spans, m
    <3>4. ASSUME NEW k \in 1..n, NEW i \in 1..m + 1, b[k - 1] < i, i <= b[k]
          PROVE  p[i].known = t[k].namespaces
      <4>1. k - 1 \in 0..n - 1 /\ b[k - 1] = bound[k - 1]  BY <1>2, <2>7
      <4>2. CASE i = m + 1
        <5>1. k = n
          <6>1. CASE k # n
            <7>1. k \in 0..n - 1 /\ k \in 0..n  BY <6>1, <1>2
            <7>2. b[k] = bound[k] /\ bound[k] \in 0..m  BY <7>1, <2>7, <2>8
            <7>3. i <= m  BY <7>2, <3>4, <1>2
            <7> QED  BY <7>3, <4>2, <1>2
          <6> QED  BY <6>1
        <5> QED  BY <5>1, <4>2, <2>10, <2>3, <2>6, <1>3
      <4>3. CASE i # m + 1
        <5>1. i \in 1..m /\ p[i] = o[i]  BY <4>3, <1>2, <1>3
        <5>2. i <= bound[k]
          <6>1. CASE k = n  BY <6>1, <5>1, <1>2
          <6>2. CASE k # n
            <7>1. k \in 0..n - 1  BY <6>2, <1>2
            <7> QED  BY <7>1, <2>7, <3>4
          <6> QED  BY <6>1, <6>2
        <5>3. o[i].known = s[k].namespaces  BY <1>1, <4>1, <5>1, <5>2, <3>4 DEF Spans, n, m
        <5>4. t[k].namespaces = s[k].namespaces
          <6>1. CASE k = n  BY <6>1, <2>3, <2>6
          <6>2. CASE k # n
            <7>1. k \in 1..n - 1  BY <6>2, <1>2
            <7> QED  BY <7>1, <2>6
          <6> QED  BY <6>1, <6>2
        <5> QED  BY <5>1, <5>3, <5>4
      <4> QED  BY <4>2, <4>3
    <3>5. ASSUME NEW j \in 0..n, NEW k \in 0..n, j < k PROVE b[j] < b[k]
      <4>1. j \in 0..n - 1 /\ b[j] = bound[j] /\ bound[j] \in 0..m
        BY <1>2, <2>7, <2>8, <3>5
      <4>2. CASE k = n
        <5>1. b[k] = m + 1  BY <4>2, <2>7
        <5> QED  BY <4>1, <5>1, <1>2
      <4>3. CASE k # n
        <5>1. k \in 0..n - 1  BY <1>2, <4>3
        <5> QED  BY <5>1, <4>1, <1>1, <2>7, <3>5 DEF Spans, n
      <4> QED  BY <4>2, <4>3
    <3> QED  BY <3>1, <3>2, <3>3, <3>4, <3>5, <2>6, <1>3 DEF Spans
  <2> QED  BY <2>6, <2>7, <2>11, <1>3 DEF Divided, t, p
<1> QED  BY <1>4, <1>5

\* An element with a new frame.
LEMMA DividedNew ==
    ASSUME NEW s \in Frames, NEW o \in Seq(OpenType), Divided(s, o),
           NEW e \in OpenType, NEW f \in FrameType, f.counter = 1, e.known = f.namespaces
    PROVE  Divided(Append(s, f), Append(o, e))
<1> DEFINE n == Len(s)
           m == Len(o)
           p == Append(o, e)
           t == Append(s, f)
           b(bound) == [k \in 0..n + 1 |-> IF k = n + 1 THEN m + 1 ELSE bound[k]]
<1>1. PICK bound \in [0..n -> 0..m] : Spans(bound, s, o)  BY DEF Divided
<1>2. n \in Nat /\ m \in Nat /\ bound[n] = m /\ s \in Seq(FrameType)
  BY <1>1 DEF Frames, Spans
<1>3. Len(p) = m + 1 /\ p[m + 1] = e /\ \A i \in 1..m : p[i] = o[i]  OBVIOUS
<1>4. Len(t) = n + 1 /\ t[n + 1] = f /\ \A k \in 1..n : t[k] = s[k]  BY <1>2
<1>5. /\ \A j, k \in 0..n : j < k => bound[j] < bound[k]
      /\ \A k \in 1..n : bound[k] = bound[k - 1] + s[k].counter
      /\ \A i \in 1..m : i <= bound[0] => o[i].known = NoBindings
      /\ \A k \in 1..n, i \in 1..m :
            bound[k - 1] < i /\ i <= bound[k] => o[i].known = s[k].namespaces
  BY <1>1 DEF Spans
<1>6. \A k \in 0..n : bound[k] \in 0..m  BY <1>1
<1> HIDE DEF n, m, p, t
<1> DEFINE c == b(bound)
<1>7. /\ c \in [0..n + 1 -> 0..m + 1] /\ c[n + 1] = m + 1
      /\ \A k \in 0..n : c[k] = bound[k]
  BY <1>2, <1>6
<1> HIDE DEF c, b
<1>8. Spans(c, t, p)
  <2>1. c[Len(t)] = Len(p)  BY <1>3, <1>4, <1>7
  <2>2. ASSUME NEW k \in 1..n + 1 PROVE c[k] = c[k - 1] + t[k].counter
    <3>1. CASE k = n + 1
      <4>1. c[k - 1] = m  BY <3>1, <1>2, <1>7
      <4> QED  BY <3>1, <4>1, <1>4, <1>7, <1>2
    <3>2. CASE k # n + 1
      <4>1. k \in 1..n /\ k \in 0..n /\ k - 1 \in 0..n  BY <3>2, <1>2
      <4> QED  BY <4>1, <1>4, <1>5, <1>7
    <3> QED  BY <3>1, <3>2
  <2>3. ASSUME NEW i \in 1..m + 1, i <= c[0] PROVE p[i].known = NoBindings
    <3>1. 0 \in 0..n /\ c[0] = bound[0] /\ bound[0] \in 0..m  BY <1>2, <1>6, <1>7
    <3>2. i \in 1..m /\ i <= bound[0]  BY <2>3, <3>1, <1>2
    <3> QED  BY <3>2, <1>3, <1>5
  <2>4. ASSUME NEW k \in 1..n + 1, NEW i \in 1..m + 1, c[k - 1] < i, i <= c[k]
        PROVE  p[i].known = t[k].namespaces
    <3>1. CASE k = n + 1
      <4>1. c[k - 1] = m  BY <3>1, <1>2, <1>7
      <4>2. i = m + 1  BY <4>1, <2>4, <1>2
      <4> QED  BY <3>1, <4>2, <1>3, <1>4
    <3>2. CASE k # n + 1
      <4>1. k \in 1..n /\ k \in 0..n /\ k - 1 \in 0..n  BY <3>2, <1>2
      <4>2. c[k] = bound[k] /\ c[k - 1] = bound[k - 1] /\ bound[k] \in 0..m
        BY <4>1, <1>6, <1>7
      <4>3. i \in 1..m  BY <4>2, <2>4, <1>2
      <4> QED  BY <4>1, <4>2, <4>3, <2>4, <1>3, <1>4, <1>5
    <3> QED  BY <3>1, <3>2
  <2>5. ASSUME NEW j \in 0..n + 1, NEW k \in 0..n + 1, j < k PROVE c[j] < c[k]
    <3>1. j \in 0..n /\ c[j] = bound[j] /\ bound[j] \in 0..m
      BY <1>2, <1>6, <1>7, <2>5
    <3>2. CASE k = n + 1  BY <3>1, <3>2, <1>2, <1>7
    <3>3. CASE k # n + 1
      <4>1. k \in 0..n  BY <1>2, <3>3
      <4> QED  BY <4>1, <3>1, <1>5, <1>7, <2>5
    <3> QED  BY <3>2, <3>3
  <2> QED  BY <2>1, <2>2, <2>3, <2>4, <2>5, <1>3, <1>4 DEF Spans
<1>9. \E d \in [0..Len(t) -> 0..Len(p)] : Spans(d, t, p)  BY <1>3, <1>4, <1>7, <1>8
<1> QED  BY <1>9 DEF Divided, t, p

\* One element less: the innermost frame has one less, or goes with its last element.
LEMMA DividedDown ==
    ASSUME NEW s \in Frames, NEW o \in Seq(OpenType), o # << >>, Divided(s, o)
    PROVE  Divided(CountDown(s), Front(o))
<1> DEFINE n == Len(s)
           m == Len(o)
           p == Front(o)
           t == CountDown(s)
<1>1. PICK bound \in [0..n -> 0..m] : Spans(bound, s, o)  BY DEF Divided
<1>2. n \in Nat /\ m \in Nat /\ m > 0 /\ bound[n] = m /\ s \in Seq(FrameType)
  BY <1>1 DEF Frames, Spans
<1>3. /\ p \in Seq(OpenType) /\ Len(p) = m - 1
      /\ \A i \in 1..m - 1 : p[i] = o[i]
  BY Ends
<1>4. /\ \A j, k \in 0..n : j < k => bound[j] < bound[k]
      /\ \A k \in 1..n : bound[k] = bound[k - 1] + s[k].counter
      /\ \A i \in 1..m : i <= bound[0] => o[i].known = NoBindings
      /\ \A k \in 1..n, i \in 1..m :
            bound[k - 1] < i /\ i <= bound[k] => o[i].known = s[k].namespaces
  BY <1>1 DEF Spans
<1>5. \A k \in 0..n : bound[k] \in 0..m  BY <1>1
<1>6. CASE s = << >>
  <2>1. n = 0 /\ t = s  BY <1>6 DEF CountDown
  <2>2. \A i \in 1..m - 1 : p[i].known = NoBindings
    <3>1. \A i \in 1..m : o[i].known = NoBindings  BY <1>2, <1>4, <2>1
    <3> QED  BY <1>2, <1>3, <3>1
  <2>3. Len(t) = 0  BY <2>1
  <2> HIDE DEF m, p, t, n
  <2> DEFINE b == [k \in 0..0 |-> m - 1]
  <2>4. b \in [0..0 -> 0..m - 1] /\ b[0] = m - 1  BY <1>2
  <2> HIDE DEF b
  <2>5. Spans(b, t, p)  BY <1>2, <1>3, <2>2, <2>3, <2>4 DEF Spans
  <2>6. \E d \in [0..Len(t) -> 0..Len(p)] : Spans(d, t, p)  BY <1>3, <2>3, <2>4, <2>5
  <2> QED  BY <2>6 DEF Divided, t, p
<1>7. CASE s # << >>
  <2> DEFINE q == Front(s)
             last == s[n]
  <2>1. n \in 1..n /\ last \in FrameType /\ Last(s) = last  BY <1>2, <1>7 DEF Last
  <2>2. last.counter \in Nat /\ last.counter > 0 /\ last.namespaces \in Bindings
    BY <2>1 DEF FrameType
  <2>3. q \in Seq(FrameType) /\ Len(q) = n - 1 /\ \A i \in 1..n - 1 : q[i] = s[i]
    BY <1>2, <1>7, Ends
  <2>4. m = bound[n - 1] + last.counter /\ bound[n - 1] \in 0..m
    BY <1>2, <1>4, <1>5, <2>1
  <2>5. ASSUME NEW k \in 0..n - 1 PROVE bound[k] \in 0..m - 1 /\ k \in 0..n
    <3> HIDE DEF n, m
    <3>1. k \in 0..n /\ n \in 0..n /\ k < n  BY <1>2
    <3>2. bound[k] < bound[n] /\ bound[k] \in 0..m  BY <3>1, <1>4, <1>5
    <3> QED  BY <3>1, <3>2, <1>2
  <2>6. \A i \in 1..m - 1 : i \in 1..m  BY <1>2
  <2>7. CASE last.counter = 1
    <3>1. t = q  BY <1>7, <2>1, <2>7 DEF CountDown
    <3> HIDE DEF n, m, p, q, t, last
    <3> DEFINE b == [k \in 0..n - 1 |-> bound[k]]
    <3>2. /\ b \in [0..n - 1 -> 0..m - 1]
          /\ \A k \in 0..n - 1 : b[k] = bound[k]
      BY <2>5
    <3> HIDE DEF b
    <3>3. b[n - 1] = m - 1  BY <1>2, <2>1, <2>4, <2>7, <3>2
    <3>4. \A j, k \in 0..n - 1 : j < k => b[j] < b[k]  BY <1>4, <2>5, <3>2
    <3>5. ASSUME NEW k \in 1..n - 1
          PROVE  /\ b[k] = b[k - 1] + t[k].counter
                 /\ \A i \in 1..m - 1 :
                       b[k - 1] < i /\ i <= b[k] => p[i].known = t[k].namespaces
      <4>1. k \in 1..n /\ k \in 0..n - 1 /\ k - 1 \in 0..n - 1  BY <1>2
      <4>2. t[k] = s[k]  BY <2>3, <3>1
      <4> QED  BY <4>1, <4>2, <1>3, <1>4, <2>6, <3>2
    <3>6. \A i \in 1..m - 1 : i <= b[0] => p[i].known = NoBindings
      <4>1. 0 \in 0..n - 1  BY <1>2, <2>1
      <4> QED  BY <4>1, <1>3, <1>4, <2>6, <3>2
    <3>7. Len(t) = n - 1  BY <2>3, <3>1
    <3>8. Spans(b, t, p)  BY <1>3, <3>3, <3>4, <3>5, <3>6, <3>7 DEF Spans
    <3>9. \E d \in [0..Len(t) -> 0..Len(p)] : Spans(d, t, p)  BY <1>3, <3>2, <3>7, <3>8
    <3> QED  BY <3>9 DEF Divided, t, p
  <2>8. CASE last.counter # 1
    <3> DEFINE f == Frame(last.namespaces, last.counter - 1)
               b == [k \in 0..n |-> IF k = n THEN m - 1 ELSE bound[k]]
    <3>1. t = Append(q, f)  BY <1>7, <2>1, <2>8 DEF CountDown
    <3>2. f \in FrameType /\ f.namespaces = last.namespaces /\ f.counter = last.counter - 1
      <4>1. last.counter - 1 \in Nat /\ last.counter - 1 > 0  BY <2>2, <2>8
      <4> HIDE DEF last
      <4> QED  BY <2>2, <4>1, FrameOf
    <3> HIDE DEF f
    <3>3. Len(t) = n /\ t[n] = f /\ \A i \in 1..n - 1 : t[i] = s[i]
      <4> HIDE DEF q, n, t, last
      <4>1. /\ Len(t) = Len(q) + 1 /\ t[Len(q) + 1] = f
            /\ \A i \in 1..Len(q) : t[i] = q[i]
        BY <2>3, <3>1, <3>2
      <4>2. Len(q) + 1 = n  BY <1>2, <2>3
      <4> QED  BY <4>1, <4>2, <2>3
    <3> HIDE DEF n, m, p, q, t, last
    <3>4. /\ b \in [0..n -> 0..m - 1] /\ b[n] = m - 1
          /\ \A k \in 0..n - 1 : b[k] = bound[k]
      BY <1>2, <2>1, <2>5
    <3> HIDE DEF b
    <3>5. bound[n - 1] + 2 <= m /\ n - 1 \in 0..n - 1
      BY <1>2, <2>1, <2>2, <2>4, <2>8
    <3>6. ASSUME NEW j \in 0..n, NEW k \in 0..n, j < k PROVE b[j] < b[k]
      <4>1. j \in 0..n - 1 /\ b[j] = bound[j] /\ bound[j] \in 0..m - 1
        BY <1>2, <2>5, <3>4, <3>6
      <4>2. CASE k = n
        <5>1. j = n - 1 \/ j < n - 1  BY <1>2, <4>1
        <5>2. bound[j] <= bound[n - 1]  BY <5>1, <1>4, <2>5, <3>5, <4>1
        <5> QED  BY <5>2, <4>1, <4>2, <1>2, <2>5, <3>4, <3>5
      <4>3. CASE k # n
        <5>1. k \in 0..n - 1  BY <1>2, <4>3
        <5> QED  BY <5>1, <4>1, <1>4, <3>4, <3>6
      <4> QED  BY <4>2, <4>3
    <3>7. ASSUME NEW k \in 1..n PROVE b[k] = b[k - 1] + t[k].counter
      <4>1. CASE k = n
        <5>1. b[k - 1] = bound[n - 1] /\ b[k] = m - 1 /\ t[k].counter = last.counter - 1
          BY <4>1, <3>2, <3>3, <3>4, <3>5
        <5>2. bound[n - 1] \in Nat  BY <2>5, <3>5
        <5>3. ASSUME NEW x \in Nat, NEW c \in Nat PROVE (x + c) - 1 = x + (c - 1)  OBVIOUS
        <5>4. m - 1 = bound[n - 1] + (last.counter - 1)  BY <5>2, <5>3, <2>2, <2>4
        <5> QED  BY <5>1, <5>4
      <4>2. CASE k # n
        <5>1. k \in 1..n - 1 /\ k \in 0..n - 1 /\ k - 1 \in 0..n - 1  BY <1>2, <4>2
        <5> QED  BY <5>1, <1>4, <3>3, <3>4
      <4> QED  BY <4>1, <4>2
    <3>8. \A i \in 1..m - 1 : i <= b[0] => p[i].known = NoBindings
      <4>1. 0 \in 0..n - 1  BY <1>2, <2>1
      <4> QED  BY <4>1, <1>3, <1>4, <2>6, <3>4
    <3>9. ASSUME NEW k \in 1..n, NEW i \in 1..m - 1, b[k - 1] < i, i <= b[k]
          PROVE  p[i].known = t[k].namespaces
      <4>1. k - 1 \in 0..n - 1 /\ b[k - 1] = bound[k - 1]  BY <1>2, <3>4
      <4>2. CASE k = n
        <5>1. o[i].known = s[k].namespaces  BY <4>1, <4>2, <1>2, <1>4, <2>6, <3>9
        <5> QED  BY <5>1, <4>2, <1>3, <3>2, <3>3 DEF last
      <4>3. CASE k # n
        <5>1. k \in 1..n - 1 /\ k \in 0..n - 1  BY <1>2, <4>3
        <5>2. bound[k - 1] < i /\ i <= bound[k] /\ i \in 1..m
          BY <5>1, <4>1, <2>6, <3>4, <3>9
        <5>3. o[i].known = s[k].namespaces  BY <5>2, <1>4
        <5>4. p[i] = o[i] /\ t[k] = s[k]  BY <5>1, <1>3, <3>3
        <5> QED  BY <5>3, <5>4
      <4> QED  BY <4>2, <4>3
    <3>10. Spans(b, t, p)  BY <1>3, <3>3, <3>4, <3>6, <3>7, <3>8, <3>9 DEF Spans
    <3>11. \E d \in [0..Len(t) -> 0..Len(p)] : Spans(d, t, p)  BY <1>3, <3>3, <3>4, <3>10
    <3> QED  BY <3>11 DEF Divided, t, p
  <2> QED  BY <2>7, <2>8
<1> QED  BY <1>6, <1>7

\* The begin of an element, skipped or not.
LEMMA OpensDivides ==
    ASSUME TypeOK, FramesDivideOpen, NEW tag \in Tag, NEW r \in Receivers, NEW s \in Frames,
           Opens(tag, r, s), s = CountUp(namespacesStack) \/ s = Entered(tag)
    PROVE  FramesDivideOpen'
<1> DEFINE e == [name |-> tag.name, to |-> r, known |-> KnownIn(s)]
           f == Frame(Pushed(tag), 1)
           new == Append(namespacesStack, f)
<1>1. namespacesStack \in Frames /\ open \in Seq(OpenType) /\ Divided(namespacesStack, open)
  BY DEF TypeOK, Frames, FramesDivideOpen
<1>2. Pushed(tag) \in Bindings  BY <1>1, KnownType, TagType, OverType DEF Pushed, Known
<1>3. e \in OpenType /\ e.known = KnownIn(s)  BY KnownType, TagType DEF OpenType
<1>4. namespacesStack' = s /\ open' = Append(open, e)  BY DEF Opens
<1>5. s = CountUp(namespacesStack) \/ s = new
  BY <1>1, <1>2, CountUpNew DEF Entered, Parsed
<1> HIDE DEF e
<1>6. CASE s = CountUp(namespacesStack)
  <2>1. KnownIn(s) = KnownIn(namespacesStack)
    <3>1. CASE namespacesStack = << >>  BY <3>1, <1>6 DEF CountUp
    <3>2. CASE namespacesStack # << >>  BY <3>2, <1>1, <1>6, CountUpType
    <3> QED  BY <3>1, <3>2
  <2>2. Divided(s, Append(open, e))  BY <2>1, <1>1, <1>3, <1>6, DividedUp
  <2> QED  BY <2>2, <1>4 DEF FramesDivideOpen
<1>7. CASE s = new
  <2>1. f \in FrameType /\ f.counter = 1 /\ f.namespaces = Pushed(tag)  BY <1>2, FrameOf
  <2> HIDE DEF f
  <2>2. new # << >> /\ Last(new) = f  BY <1>1, <2>1, Appended DEF Frames
  <2>3. KnownIn(s) = f.namespaces  BY <2>2, <1>7 DEF KnownIn
  <2>4. Divided(s, Append(open, e))  BY <2>1, <2>3, <1>1, <1>3, <1>7, DividedNew
  <2> QED  BY <2>4, <1>4 DEF FramesDivideOpen
<1> QED  BY <1>5, <1>6, <1>7

LEMMA InitiallyDivided == Init => FramesDivideOpen
<1> SUFFICES ASSUME Init PROVE FramesDivideOpen  OBVIOUS
<1>1. namespacesStack = << >> /\ open = << >>  BY DEF Init
<1> DEFINE b == [k \in 0..0 |-> 0]
<1>2. b \in [0..0 -> 0..0] /\ b[0] = 0  OBVIOUS
<1> HIDE DEF b
<1>3. Spans(b, << >>, << >>)  BY <1>2 DEF Spans
<1>4. \E d \in [0..Len(<< >>) -> 0..Len(<< >>)] : Spans(d, << >>, << >>)  BY <1>2, <1>3
<1> QED  BY <1>1, <1>4 DEF FramesDivideOpen, Divided

LEMMA DividedPreserved == IInv /\ FramesDivideOpen /\ [Next]_vars => FramesDivideOpen'
<1> SUFFICES ASSUME IInv, FramesDivideOpen, [Next]_vars PROVE FramesDivideOpen'
  OBVIOUS
<1>1. TypeOK  BY DEF IInv
<1>2. ASSUME NEW ok \in BOOLEAN, NEW tag \in Tag, ElementBegin(tag, ok)
      PROVE  FramesDivideOpen'
  <2>1. CountUp(namespacesStack) \in Frames /\ Entered(tag) \in Frames
    BY <1>1, CountUpType, EnteredType DEF TypeOK, Frames
  <2>2. CASE BeginSkipped(tag, ok)
    <3>1. Receiver \in Receivers  BY <1>1, ReceiverType
    <3> QED  BY <3>1, <1>1, <2>1, <2>2, OpensDivides DEF BeginSkipped
  <2>3. CASE BeginKnown(tag, ok)
    <3>1. Implementation \in Receivers  BY DEF Receivers
    <3> QED  BY <3>1, <1>1, <2>1, <2>3, OpensDivides DEF BeginKnown
  <2>4. CASE BeginNamespace(tag, ok)
    <3>1. Opens(tag, activeHandler', Entered(tag)) /\ activeHandler' \in handlers
      BY <2>4 DEF BeginNamespace
    <3>2. activeHandler' \in Receivers  BY <3>1, <1>1 DEF TypeOK, Receivers
    <3> QED  BY <3>1, <3>2, <1>1, <2>1, OpensDivides
  <2>5. CASE BeginForeign(tag, ok)
    <3>1. \/ Opens(tag, Nobody, Entered(tag)) \/ Opens(tag, settings.unknown, Entered(tag))
      BY <2>5 DEF BeginForeign
    <3>2. Nobody \in Receivers /\ settings.unknown \in Receivers
      BY <1>1 DEF TypeOK, Settings, Receivers
    <3> QED  BY <3>1, <3>2, <1>1, <2>1, OpensDivides
  <2> QED  BY <1>2, <2>2, <2>3, <2>4, <2>5 DEF ElementBegin
<1>3. ASSUME NEW ok \in BOOLEAN, ElementEnd(ok) PROVE FramesDivideOpen'
  <2>1. /\ open # << >> /\ open \in Seq(OpenType) /\ namespacesStack \in Frames
        /\ namespacesStack' = CountDown(namespacesStack) /\ open' = Front(open)
    BY <1>1, <1>3 DEF ElementEnd, TypeOK, Frames
  <2>2. Divided(CountDown(namespacesStack), Front(open))
    BY <2>1, DividedDown DEF FramesDivideOpen
  <2> QED  BY <2>1, <2>2 DEF FramesDivideOpen
<1>4. CASE namespacesStack' = namespacesStack /\ open' = open
  BY <1>4 DEF FramesDivideOpen
<1> QED
  BY <1>2, <1>3, <1>4 DEF Next, TextData, RegisterNamespaceHandler, UnregisterNamespaceHandler, vars

-----------------------------------------------------------------------------
(* Theorems. *)

\* The types, and frames of namespaces that always have open elements (the counter
\* of ParserTemplate::elementEnd never wraps).
THEOREM TypesAreRight == Spec => []TypeOK
<1>1. IInv => TypeOK  BY DEF IInv
<1> QED  BY <1>1, Invariant, PTL

\* Text and ends of elements are given to the one who was told of the begin
\* (ParserTemplate::textData and elementEnd against elementBegin).
THEOREM ReceiverIsAlwaysBeginners == Spec => []ReceiverIsBeginners
<1>1. IInv => ReceiverIsBeginners
  <2> SUFFICES ASSUME IInv, live
               PROVE  Receiver = IF open = << >> THEN Implementation ELSE Last(open).to
    BY DEF ReceiverIsBeginners
  <2>1. TypeOK /\ Structure /\ ToldRightly  BY DEF IInv
  <2>2. /\ Len(open) = Len(elementDataStack) + ignoreElements + unknownElements + namespaceElements
        /\ Len(open) \in Nat /\ Len(elementDataStack) \in Nat
        /\ ignoreElements \in Nat /\ unknownElements \in Nat /\ namespaceElements \in Nat
    BY <2>1, Lengths DEF Structure
  <2>3. ~ Skipping <=> Len(open) = Len(elementDataStack)  BY <2>2 DEF Skipping
  <2>4. CASE open = << >>
    <3>1. Len(open) = 0  BY <2>4
    <3>2. Len(elementDataStack) = 0
      <4>1. ASSUME NEW a \in Nat, NEW b \in Nat, NEW c \in Nat, NEW d \in Nat, a + b + c + d = 0
            PROVE  a = 0
        BY <4>1
      <4> QED  BY <2>2, <3>1, <4>1
    <3>3. ~ Skipping  BY <2>3, <3>1, <3>2
    <3> QED  BY <2>1, <2>4, <3>3, ReceiverType
  <2>5. CASE open # << >>
    <3>1. Len(open) \in 1..Len(open)  BY <2>1, <2>2, <2>5 DEF TypeOK
    <3>2. CASE Skipping
      <4>1. Len(open) > Len(elementDataStack)  BY <2>2, <2>3, <3>2
      <4> QED  BY <2>1, <2>5, <3>1, <4>1 DEF ToldRightly, Last
    <3>3. CASE ~ Skipping
      <4>1. Last(open).to = Implementation  BY <2>1, <2>2, <2>3, <3>1, <3>3 DEF ToldRightly, Last
      <4> QED  BY <2>1, <2>5, <3>3, <4>1, ReceiverType
    <3> QED  BY <3>2, <3>3
  <2> QED  BY <2>4, <2>5
<1> QED  BY <1>1, Invariant, PTL

\* mElementDataStack is a path of the schema from the root, and its elements are the
\* outermost ones that are open (ParserTemplate::elementBegin).
THEOREM ImplementationIsAlwaysOnPath == Spec => []ImplementationIsOnPath
<1>1. IInv => ImplementationIsOnPath
  <2> SUFFICES ASSUME IInv, live
               PROVE  /\ Len(elementDataStack) <= Len(open)
                      /\ \A i \in 1..Len(open) :
                            open[i].to = Implementation <=> i <= Len(elementDataStack)
                      /\ OnPath
    BY DEF ImplementationIsOnPath, OnPath
  <2>1. TypeOK /\ Structure /\ ToldRightly /\ OnPath  BY DEF IInv
  <2>2. /\ Len(open) = Len(elementDataStack) + ignoreElements + unknownElements + namespaceElements
        /\ Len(open) \in Nat /\ Len(elementDataStack) \in Nat
        /\ ignoreElements \in Nat /\ unknownElements \in Nat /\ namespaceElements \in Nat
    BY <2>1, Lengths DEF Structure
  <2>3. ASSUME NEW i \in 1..Len(open), i > Len(elementDataStack)
        PROVE  open[i].to # Implementation
    <3>1. Skipping  BY <2>2, <2>3 DEF Skipping
    <3> QED  BY <2>1, <2>3, <3>1, ReceiverType DEF ToldRightly
  <2>4. \A i \in 1..Len(open) : i <= Len(elementDataStack) => open[i].to = Implementation
    BY <2>1 DEF ToldRightly
  <2> QED  BY <2>1, <2>2, <2>3, <2>4
<1> QED  BY <1>1, Invariant, PTL

\* After the end of an element prefixes stand for what they stood for before its begin
\* (the frames of mNamespacesStack and their counters, in ParserTemplate::elementBegin
\* and elementEnd).
THEOREM NamespacesAlwaysRestored == Spec => []NamespacesRestored
<1>1. IInv /\ FramesDivideOpen => NamespacesRestored
  <2> SUFFICES ASSUME IInv, FramesDivideOpen
               PROVE  Known = IF open = << >> THEN NoBindings ELSE Last(open).known
    BY DEF NamespacesRestored
  <2>1. namespacesStack \in Frames /\ open \in Seq(OpenType)  BY DEF IInv, TypeOK, Frames
  <2> QED  BY <2>1, KnownOfLast DEF FramesDivideOpen, Known
<1> QED  BY <1>1, Invariant, InitiallyDivided, DividedPreserved, PTL DEF Spec

-----------------------------------------------------------------------------
(* Extra data.  Every step of ExtraData is a step of ParserDispatch, so    *)
(* that what is proved of the parser holds here; from it follows that no   *)
(* handler is asked anything while it is being told of an element, and     *)
(* hence that it is told of the element's end.                             *)

\* The handlers of extra data watch the parser and do not change what it does.
THEOREM ExtraDataIsAParser == ExtraSpec => Spec
<1>1. ExtraInit => Init  BY DEF ExtraInit
<1>2. [ExtraNext]_extraVars => [Next]_vars
  <2> SUFFICES ASSUME [ExtraNext]_extraVars PROVE [Next]_vars  OBVIOUS
  <2>1. ASSUME NEW tag \in Tag, NEW ok \in BOOLEAN, BeginElement(tag, ok) PROVE Next
    BY <2>1 DEF BeginElement, Next
  <2>2. ASSUME NEW tag \in Tag, NEW answers \in SUBSET Handler, BeginTechnique(tag, answers)
        PROVE  Next
    BY <2>2 DEF BeginTechnique, Next
  <2>3. ASSUME NEW ok \in BOOLEAN, Text(ok) \/ EndElement(ok) PROVE Next
    BY <2>3 DEF Text, EndElement, Next
  <2>4. CASE UNCHANGED extraVars  BY <2>4 DEF extraVars
  <2> QED  BY <2>1, <2>2, <2>3, <2>4 DEF ExtraNext
<1> QED  BY <1>1, <1>2, PTL DEF ExtraSpec, Spec

-----------------------------------------------------------------------------
\* What the parser guarantees, and the types of what comes on top.
Parsing == IInv /\ ReceiverIsBeginners /\ ImplementationIsOnPath

Note == [told : SUBSET Handler, wants : SUBSET Handler]

ExtraTypes == calling \subseteq Handler /\ extra \in Seq(Note) /\ Len(extra) = Len(open)

\* Everybody who was told of an open element is one whose flag is still set.
ToldAreCalling ==
    live => \A j \in 1..Len(open) :
               open[j].to = UnknownHandler => extra[j].told = calling

\* While a technique is the innermost element of the implementation, those who wanted it are
\* the ones whose flag is set.
WishesAreCalling ==
    live /\ elementDataStack # << >> /\ Last(elementDataStack) \in Technique
        => extra[Len(elementDataStack)].wants = calling

EInv == ExtraTypes /\ ToldAreCalling /\ WishesAreCalling

LEMMA ParsingHolds == ExtraSpec => []Parsing
<1>1. IInv /\ ReceiverIsBeginners /\ ImplementationIsOnPath => Parsing  BY DEF Parsing
<1> QED
  BY <1>1, ExtraDataIsAParser, Invariant, ReceiverIsAlwaysBeginners,
     ImplementationIsAlwaysOnPath, PTL

LEMMA ExtraInitially == ExtraInit => EInv
<1> SUFFICES ASSUME ExtraInit PROVE EInv  OBVIOUS
<1>1. calling \subseteq Handler /\ extra = << >> /\ open = << >>
  BY DEF ExtraInit, Init
<1>2. ExtraTypes
  <2>1. extra \in Seq(Note) /\ Len(extra) = Len(open)  BY <1>1
  <2> QED  BY <1>1, <2>1 DEF ExtraTypes
<1>3. ToldAreCalling  BY <1>1 DEF ToldAreCalling
<1>4. WishesAreCalling  BY DEF WishesAreCalling, ExtraInit, Init
<1> QED  BY <1>2, <1>3, <1>4 DEF EInv

\* The schema has nothing below a technique, which is therefore innermost.
LEMMA TechniqueIsInnermost ==
    ASSUME Parsing, live, NEW i \in 1..Len(elementDataStack), elementDataStack[i] \in Technique
    PROVE  i = Len(elementDataStack)
<1>1. Len(elementDataStack) \in Nat  BY DEF Parsing, IInv, TypeOK
<1>2. CASE i < Len(elementDataStack)
  <2>1. /\ i + 1 \in 1..Len(elementDataStack)
        /\ i + 1 # 1 /\ (i + 1) - 1 = i
    BY <1>1, <1>2
  <2>2. <<Parent(i + 1), open[i + 1].name, elementDataStack[i + 1]>> \in Schema
    BY <2>1 DEF Parsing, ImplementationIsOnPath
  <2>3. Parent(i + 1) = elementDataStack[i]  BY <2>1 DEF Parent
  <2>4. elementDataStack[i] \notin Technique  BY <2>2, <2>3, TechniqueAssumption
  <2> QED  BY <2>4
<1> QED  BY <1>1, <1>2

\* One more open element.
LEMMA OneMoreOpen ==
    ASSUME Parsing, NEW tag \in Tag, NEW ok \in BOOLEAN, ElementBegin(tag, ok)
    PROVE  /\ open \in Seq(OpenType) /\ open' \in Seq(OpenType)
           /\ Len(open') = Len(open) + 1
           /\ \A i \in 1..Len(open) : open'[i] = open[i]
<1>1. PICK r, s : Opens(tag, r, s)
  BY DEF ElementBegin, BeginSkipped, BeginKnown, BeginNamespace, BeginForeign
<1>2. open \in Seq(OpenType)  BY DEF Parsing, IInv, TypeOK
<1>3. IInv /\ [Next]_vars  BY DEF Parsing, Next
<1>4. open' \in Seq(OpenType)  BY <1>3, Preserved DEF IInv, TypeOK
<1>5. PICK e : open' = Append(open, e)  BY <1>1 DEF Opens
<1> QED  BY <1>2, <1>4, <1>5

\* A note for one more open element.
LEMMA OneMoreNote ==
    ASSUME ExtraTypes, NEW n \in Note, extra' = Append(extra, n),
           NEW c \in SUBSET Handler, calling' = c,
           open \in Seq(OpenType), Len(open') = Len(open) + 1
    PROVE  /\ ExtraTypes'
           /\ \A i \in 1..Len(open) : extra'[i] = extra[i]
           /\ extra'[Len(open')] = n
<1>1. extra \in Seq(Note) /\ Len(extra) = Len(open) /\ Len(open) \in Nat  BY DEF ExtraTypes
<1>2. /\ extra' \in Seq(Note) /\ Len(extra') = Len(extra) + 1
      /\ \A i \in 1..Len(extra) : extra'[i] = extra[i]
      /\ extra'[Len(extra) + 1] = n
  BY <1>1
<1> QED  BY <1>1, <1>2 DEF ExtraTypes

\* The begin of an element that is not a technique: whoever is told has its flag set.
LEMMA BeginElementKeeps ==
    ASSUME Parsing, EInv, NEW tag \in Tag, NEW ok \in BOOLEAN, BeginElement(tag, ok)
    PROVE  EInv'
<1> DEFINE n == [told |-> IF BeginsUnknown THEN Told ELSE {}, wants |-> {}]
<1>1. ElementBegin(tag, ok) /\ extra' = Append(extra, n) /\ calling' = calling
  BY DEF BeginElement
<1>2. ExtraTypes /\ ToldAreCalling  BY DEF EInv
<1>3. n \in Note  BY <1>2 DEF ExtraTypes, Note, Told
<1>4. BeginsUnknown => n.told = calling  BY DEF Told
<1> HIDE DEF n
<1>5. /\ open \in Seq(OpenType) /\ open' \in Seq(OpenType) /\ Len(open') = Len(open) + 1
      /\ \A i \in 1..Len(open) : open'[i] = open[i]
  BY <1>1, OneMoreOpen
<1>6. /\ ExtraTypes'
      /\ \A i \in 1..Len(open) : extra'[i] = extra[i]
      /\ extra'[Len(open')] = n
  BY <1>1, <1>2, <1>3, <1>5, OneMoreNote DEF ExtraTypes
<1>7. ToldAreCalling'
  <2> SUFFICES ASSUME NEW j \in 1..Len(open'), open'[j].to = UnknownHandler
               PROVE  extra'[j].told = calling
    BY <1>1 DEF ToldAreCalling
  <2>1. live  BY <1>1 DEF ElementBegin
  <2>2. CASE j \in 1..Len(open)  BY <1>2, <1>5, <1>6, <2>1, <2>2 DEF ToldAreCalling
  <2>3. CASE j = Len(open')
    <3>1. BeginsUnknown  BY <2>3 DEF BeginsUnknown, Last
    <3> QED  BY <1>4, <1>6, <2>3, <3>1
  <2> QED  BY <1>5, <2>2, <2>3
<1>8. WishesAreCalling'
  <2> DEFINE d == elementDataStack
  <2> SUFFICES ASSUME live', d' # << >>, Last(d') \in Technique
               PROVE  extra'[Len(d')].wants = calling
    BY <1>1 DEF WishesAreCalling
  <2>1. live /\ WishesAreCalling /\ ~ BeginsTechnique /\ d \in Seq(Type)
    BY <1>1 DEF ElementBegin, EInv, BeginElement, Parsing, IInv, TypeOK
  <2>2. d' = d
    <3>1. ~ (Len(d') > Len(d))  BY <2>1 DEF BeginsTechnique
    <3>2. d' = d \/ \E t \in Type : d' = Append(d, t)
      BY <1>1 DEF ElementBegin, BeginSkipped, BeginKnown, BeginNamespace, BeginForeign,
                  Accepted, Found
    <3> QED  BY <2>1, <3>1, <3>2
  <2>3. Len(d) \in 1..Len(open)
    <3>1. Len(d) <= Len(open)  BY <2>1 DEF Parsing, ImplementationIsOnPath
    <3>2. d # << >> /\ Len(d) \in Nat /\ Len(open) \in Nat  BY <2>1, <2>2, <1>5
    <3> QED  BY <3>1, <3>2, <2>1
  <2> QED  BY <2>1, <2>2, <2>3, <1>6 DEF WishesAreCalling
<1> QED  BY <1>6, <1>7, <1>8 DEF EInv

\* At the begin of a technique nobody is being told of an element: the elements
\* that are open are those of the implementation.
LEMMA NobodyIsTold ==
    ASSUME Parsing, live, ~ Skipping
    PROVE  \A j \in 1..Len(open) : open[j].to = Implementation
<1>1. /\ Len(elementDataStack) <= Len(open)
      /\ \A j \in 1..Len(open) : open[j].to = Implementation <=> j <= Len(elementDataStack)
  BY DEF Parsing, ImplementationIsOnPath
<1>2. /\ open \in Seq(OpenType) /\ Len(open) \in Nat /\ Len(elementDataStack) \in Nat
  BY DEF Parsing, IInv, TypeOK
<1>3. Receiver = Implementation  BY ReceiverType DEF Parsing, IInv
<1>4. CASE open = << >>  BY <1>4
<1>5. CASE open # << >>
  <2>1. Last(open).to = Implementation  BY <1>3, <1>5 DEF Parsing, ReceiverIsBeginners
  <2>2. Len(open) \in 1..Len(open)  BY <1>2, <1>5
  <2>3. open[Len(open)].to = Implementation  BY <2>1 DEF Last
  <2>4. Len(open) <= Len(elementDataStack)  BY <1>1, <2>2, <2>3
  <2> QED  BY <1>1, <1>2, <2>4
<1> QED  BY <1>4, <1>5

LEMMA BeginTechniqueKeeps ==
    ASSUME Parsing, EInv, NEW tag \in Tag, NEW answers \in SUBSET Handler,
           BeginTechnique(tag, answers)
    PROVE  EInv'
<1> DEFINE n == [told |-> {}, wants |-> answers]
<1>1. /\ ElementBegin(tag, TRUE) /\ BeginsTechnique
      /\ extra' = Append(extra, n) /\ calling' = answers
  BY DEF BeginTechnique, Asked
<1>2. ExtraTypes /\ live  BY <1>1 DEF EInv, ElementBegin
<1>3. n \in Note  BY DEF Note
<1> HIDE DEF n
<1>4. /\ open \in Seq(OpenType) /\ open' \in Seq(OpenType) /\ Len(open') = Len(open) + 1
      /\ \A i \in 1..Len(open) : open'[i] = open[i]
  BY <1>1, OneMoreOpen
<1>5. ExtraTypes'  BY <1>1, <1>2, <1>3, <1>4, OneMoreNote
<1>6. BeginKnown(tag, TRUE)
  <2>1. elementDataStack' # elementDataStack
    <3>1. Len(elementDataStack) \in Nat  BY DEF Parsing, IInv, TypeOK
    <3>2. Len(elementDataStack') > Len(elementDataStack)  BY <1>1 DEF BeginsTechnique
    <3> QED  BY <3>1, <3>2
  <2> QED  BY <1>1, <2>1 DEF ElementBegin, BeginSkipped, BeginNamespace, BeginForeign
<1>7. \A j \in 1..Len(open) : open[j].to = Implementation
  BY <1>2, <1>6, NobodyIsTold DEF BeginKnown
<1>8. open'[Len(open')].to = Implementation
  BY <1>4, <1>6 DEF BeginKnown, Opens
<1>9. \A j \in 1..Len(open') : open'[j].to # UnknownHandler
  <2>1. Implementation # UnknownHandler  BY DEF Implementation, UnknownHandler
  <2>2. ASSUME NEW j \in 1..Len(open') PROVE open'[j].to = Implementation
    <3>1. CASE j \in 1..Len(open)  BY <1>4, <1>7, <3>1
    <3>2. CASE j = Len(open')  BY <1>8, <3>2
    <3> QED  BY <1>4, <3>1, <3>2
  <2> QED  BY <2>1, <2>2
<1>10. extra'[Len(elementDataStack')].wants = calling'
  <2> DEFINE d == elementDataStack
  <2>1. d \in Seq(Type) /\ Len(open) \in Nat  BY DEF Parsing, IInv, TypeOK
  <2>2. PICK t \in Type : d' = Append(d, t)
    BY <1>6 DEF BeginKnown, Accepted, Found
  <2>3. Len(d') = Len(d) + 1 /\ Len(d) \in Nat  BY <2>1, <2>2
  <2>4. Len(d) = Len(open)
    <3>1. \A j \in 1..Len(open) : j <= Len(d)
      BY <1>2, <1>7 DEF Parsing, ImplementationIsOnPath
    <3>2. Len(d) <= Len(open)  BY <1>2 DEF Parsing, ImplementationIsOnPath
    <3>3. CASE Len(open) = 0  BY <3>2, <3>3, <2>3
    <3>4. CASE Len(open) # 0
      <4>1. Len(open) \in 1..Len(open)  BY <3>4, <2>1
      <4> QED  BY <4>1, <3>1, <3>2, <2>1, <2>3
    <3> QED  BY <3>3, <3>4
  <2>5. Len(d') = Len(open')  BY <2>3, <2>4, <1>4
  <2>6. extra'[Len(open')] = n  BY <1>1, <1>2, <1>3, <1>4, OneMoreNote
  <2> QED  BY <2>5, <2>6, <1>1 DEF n
<1> QED  BY <1>5, <1>9, <1>10 DEF EInv, ToldAreCalling, WishesAreCalling

LEMMA EndElementKeeps ==
    ASSUME Parsing, EInv, NEW ok \in BOOLEAN, EndElement(ok)
    PROVE  EInv'
<1>1. /\ live /\ open # << >> /\ open' = Front(open)
      /\ extra' = Front(extra) /\ calling' = calling
  BY DEF EndElement, ElementEnd
<1>2. /\ ExtraTypes /\ ToldAreCalling /\ extra \in Seq(Note) /\ Len(extra) = Len(open)
      /\ open \in Seq(OpenType) /\ Len(open) \in Nat
  BY DEF EInv, ExtraTypes, Parsing, IInv, TypeOK
<1>3. /\ Len(open') = Len(open) - 1
      /\ \A i \in 1..Len(open) - 1 : open'[i] = open[i]
  BY <1>1, <1>2, Ends
<1>4. /\ extra # << >>  BY <1>1, <1>2
<1>5. /\ extra' \in Seq(Note) /\ Len(extra') = Len(extra) - 1
      /\ \A i \in 1..Len(extra) - 1 : extra'[i] = extra[i]
  BY <1>1, <1>2, <1>4, Ends
<1>6. ExtraTypes'  BY <1>1, <1>2, <1>3, <1>5 DEF ExtraTypes
<1>7. ToldAreCalling'  BY <1>1, <1>2, <1>3, <1>5 DEF ToldAreCalling
<1>8. WishesAreCalling'
  <2> DEFINE d == elementDataStack
  <2> SUFFICES ASSUME live', d' # << >>, Last(d') \in Technique
               PROVE  extra'[Len(d')].wants = calling
    BY <1>1 DEF WishesAreCalling
  <2>1. WishesAreCalling /\ d \in Seq(Type) /\ Len(d) \in Nat
    BY DEF EInv, Parsing, IInv, TypeOK
  <2>2. EndSkipped(ok) \/ EndKnown(ok)  BY DEF EndElement, ElementEnd
  <2>3. CASE EndSkipped(ok)
    <3>1. d' = d /\ d # << >>  BY <2>3 DEF EndSkipped
    <3>2. Skipping /\ Structure  BY <2>3, <1>1 DEF EndSkipped, Parsing, IInv
    <3>3. Len(d) \in 1..Len(open) - 1
      <4>1. Len(d) # Len(open)
        <5>1. CASE Len(d) = Len(open)
          <6>1. Len(open) \in 1..Len(open)  BY <1>2, <3>1, <5>1, <2>1
          <6>2. Last(open).to = Implementation
            BY <1>1, <5>1, <6>1 DEF Parsing, ImplementationIsOnPath, Last
          <6>3. Receiver = Implementation  BY <1>1, <6>2 DEF Parsing, ReceiverIsBeginners
          <6> QED  BY <6>3, <3>2, ReceiverType DEF Parsing, IInv
        <5> QED  BY <5>1
      <4>2. Len(d) <= Len(open)  BY <1>1 DEF Parsing, ImplementationIsOnPath
      <4>3. Len(d) > 0  BY <3>1, <2>1
      <4> QED  BY <4>1, <4>2, <4>3, <2>1, <1>2
    <3> QED  BY <3>1, <3>3, <2>1, <1>1, <1>2, <1>5 DEF WishesAreCalling
  <2>4. CASE EndKnown(ok)
    <3>1. d # << >> /\ d' = Front(d)  BY <2>4 DEF EndKnown
    <3>2. /\ d' \in Seq(Type) /\ Len(d') = Len(d) - 1
          /\ \A i \in 1..Len(d) - 1 : d'[i] = d[i]
      BY <3>1, <2>1, Ends
    <3>3. Len(d') \in 1..Len(d) - 1 /\ Len(d') \in 1..Len(d)  BY <3>2, <2>1
    <3>4. d[Len(d')] \in Technique  BY <3>2, <3>3 DEF Last
    <3>5. Len(d') = Len(d)  BY <1>1, <3>3, <3>4, TechniqueIsInnermost
    <3> QED  BY <3>2, <3>5, <2>1
  <2> QED  BY <2>2, <2>3, <2>4
<1> QED  BY <1>6, <1>7, <1>8 DEF EInv

LEMMA ExtraPreserved == Parsing /\ EInv /\ [ExtraNext]_extraVars => EInv'
<1> SUFFICES ASSUME Parsing, EInv, [ExtraNext]_extraVars PROVE EInv'  OBVIOUS
<1>1. ASSUME NEW tag \in Tag, NEW ok \in BOOLEAN, BeginElement(tag, ok) PROVE EInv'
  BY <1>1, BeginElementKeeps
<1>2. ASSUME NEW tag \in Tag, NEW answers \in SUBSET Handler, BeginTechnique(tag, answers)
      PROVE  EInv'
  BY <1>2, BeginTechniqueKeeps
<1>3. ASSUME NEW ok \in BOOLEAN, Text(ok) PROVE EInv'
  <2>1. open' = open /\ live /\ calling' = calling /\ extra' = extra
    BY <1>3 DEF Text, TextData
  <2>2. elementDataStack' = elementDataStack  BY <1>3 DEF Text, TextData
  <2> QED  BY <2>1, <2>2 DEF EInv, ExtraTypes, ToldAreCalling, WishesAreCalling
<1>4. ASSUME NEW ok \in BOOLEAN, EndElement(ok) PROVE EInv'  BY <1>4, EndElementKeeps
<1>5. CASE UNCHANGED extraVars
  BY <1>5 DEF extraVars, vars, EInv, ExtraTypes, ToldAreCalling, WishesAreCalling
<1> QED  BY <1>1, <1>2, <1>3, <1>4, <1>5 DEF ExtraNext

\* Whoever is told of the begin of an element is told of its text and of its end, with
\* any number of handlers and techniques (ExtraDataElementHandler::elementEnd against
\* elementBegin, and ExtraDataLoader::base__begin__technique).
THEOREM EndsAlwaysReachWhoWasTold == ExtraSpec => []EndsReachWhoWasTold
<1>1. Parsing /\ EInv => EndsReachWhoWasTold
  <2> SUFFICES ASSUME Parsing, EInv, live, Receiver = UnknownHandler
               PROVE  Last(extra).told = Told
    BY DEF EndsReachWhoWasTold
  <2>1. open # << >> /\ Last(open).to = UnknownHandler
    <3>1. Implementation # UnknownHandler  BY DEF Implementation, UnknownHandler
    <3>2. CASE open = << >>  BY <3>1, <3>2 DEF Parsing, ReceiverIsBeginners
    <3>3. CASE open # << >>  BY <3>3 DEF Parsing, ReceiverIsBeginners
    <3> QED  BY <3>2, <3>3
  <2>2. open \in Seq(OpenType) /\ Len(extra) = Len(open)
    BY DEF EInv, ExtraTypes, Parsing, IInv, TypeOK
  <2>3. Len(open) \in 1..Len(open) /\ open[Len(open)].to = UnknownHandler
    BY <2>1, <2>2 DEF Last
  <2> QED  BY <2>2, <2>3 DEF EInv, ToldAreCalling, Told, Last
<1> QED  BY <1>1, ParsingHolds, ExtraInitially, ExtraPreserved, PTL DEF ExtraSpec

\* Below a technique those are told of an element who wanted that technique, and no other,
\* whatever they said before (ExtraDataLoader::base__begin__technique, and the flags that
\* ExtraDataElementHandler::elementBegin reads).
THEOREM WishesAreAlwaysRespected == ExtraSpec => []WishesAreRespected
<1>1. Parsing /\ EInv => WishesAreRespected
  <2> SUFFICES ASSUME Parsing, EInv, live, NEW i \in 1..Len(open), NEW j \in 1..Len(open),
                      i < j, IsTechnique(i), Unknown(j)
               PROVE  extra[j].told = extra[i].wants
    BY DEF WishesAreRespected
  <2>1. elementDataStack \in Seq(Type) /\ Len(elementDataStack) \in Nat /\ Len(open) \in Nat
    BY DEF Parsing, IInv, TypeOK
  <2>2. i \in 1..Len(elementDataStack) /\ elementDataStack[i] \in Technique
    BY <2>1 DEF IsTechnique
  <2>3. i = Len(elementDataStack)  BY <2>2, TechniqueIsInnermost
  <2>4. elementDataStack # << >> /\ Last(elementDataStack) = elementDataStack[i]
    BY <2>1, <2>2, <2>3 DEF Last
  <2>5. extra[i].wants = calling  BY <2>2, <2>3, <2>4 DEF EInv, WishesAreCalling
  <2>6. extra[j].told = calling  BY DEF EInv, ToldAreCalling, Unknown
  <2> QED  BY <2>5, <2>6
<1> QED  BY <1>1, ParsingHolds, ExtraInitially, ExtraPreserved, PTL DEF ExtraSpec
=============================================================================

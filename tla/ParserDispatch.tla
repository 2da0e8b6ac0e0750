--------------------------- MODULE ParserDispatch ---------------------------
(***************************************************************************)
(* GeneratedSaxParser::ParserTemplate: an XML reader reports the begin,    *)
(* the text and the end of elements; every one of them is given to the     *)
(* implementation (the loaders), to the handler of unknown elements, to    *)
(* the handler of a namespace, or to nobody.  Elements the implementation  *)
(* gets are on mElementDataStack; below an element it does not get, whole  *)
(* trees are skipped with one of three counters.                           *)
(*                                                                         *)
(* Which namespace a prefix stands for is kept in mNamespacesStack.  A     *)
(* frame has a counter of open elements, and goes when the counter is 0.   *)
(*                                                                         *)
(* `open' is the reader's: the elements that are open in the document,     *)
(* with who was told of their begin (`to') and the namespaces the parser   *)
(* knew then (`known').                                                    *)
(***************************************************************************)
EXTENDS Integers, Sequences, SequencesExt

CONSTANTS
    Name,            \* local names of elements
    Type,            \* the types of the schema (generated element hashes)
    Schema,          \* <<parent, name, type>>: what findElementHash() finds
    GlobalName,      \* names that are keys of mElementFunctionMap themselves
    XsAny,           \* <<parent, name>> for which isXsAnyAllowed() is true
    OpenToOthers,    \* types below which isDifferentNamespaceAllowed() is true
    Prefix,          \* prefixes of names, the empty one among them
    Namespace,       \* hashes of namespaces other than 0
    TypeNamespace,   \* mElementToNamespaceMap
    FunctionMaps,    \* element function maps a client may set, as sets of types
    Tag,             \* start tags that occur
    MaxDepth         \* bound: elements open at a time

Document == "document"             \* the parent of the root element
NoNamespace == "no namespace"      \* the hash 0
Implementation == "implementation"
UnknownHandler == "unknown element handler"
Nobody == "nobody"

Bindings == UNION {[P -> Namespace] : P \in SUBSET Prefix}
Receivers == {Implementation, UnknownHandler, Nobody} \union Namespace

ASSUME SchemaAssumption ==
    /\ Document \notin Type /\ NoNamespace \notin Namespace
    /\ Namespace \intersect {Implementation, UnknownHandler, Nobody} = {}
    /\ Schema \subseteq (Type \union {Document}) \X Name \X Type
    /\ \A s, t \in Schema : s[1] = t[1] /\ s[2] = t[2] => s = t
    /\ TypeNamespace \in [Type -> Namespace]
    /\ Tag \subseteq [name : Name, prefix : Prefix, attributes : BOOLEAN, xmlns : Bindings]
    /\ \A tag \in Tag : DOMAIN tag.xmlns # {} => tag.attributes

\* Every map of FunctionMapFactory begins with the root element.
ASSUME MapsAssumption ==
    \A M \in FunctionMaps : M \subseteq Type /\ \A s \in Schema : s[1] = Document => s[3] \in M

VARIABLES
    elementDataStack,    \* mElementDataStack: types of the elements
    ignoreElements,      \* mIgnoreElements
    unknownElements,     \* mUnknownElements
    namespaceElements,   \* mNamespaceElements
    activeHandler,       \* mActiveNamespaceHandler, or Nobody
    handlers,            \* namespaces that have a handler in mNamespaceHandlers
    namespacesStack,     \* mNamespacesStack
    settings,            \* function map, lax namespace handling, unknown element handler
    open,                \* the elements that are open in the document
    live                 \* no callback has returned false

counters == <<ignoreElements, unknownElements, namespaceElements>>
vars == <<elementDataStack, counters, activeHandler, handlers, namespacesStack,
          settings, open, live>>

Settings == [functionMap : FunctionMaps, lax : BOOLEAN, unknown : {UnknownHandler, Nobody}]

Init == /\ elementDataStack = << >>
        /\ ignoreElements = 0 /\ unknownElements = 0 /\ namespaceElements = 0
        /\ activeHandler = Nobody
        /\ handlers = {}
        /\ namespacesStack = << >>
        /\ settings \in Settings
        /\ open = << >>
        /\ live = TRUE

-----------------------------------------------------------------------------
(* The stack of namespaces. *)


Over(b, c) == [p \in DOMAIN b \union DOMAIN c |-> IF p \in DOMAIN b THEN b[p] ELSE c[p]]
NoBindings == [p \in {} |-> NoNamespace]
Frame(b, n) == [namespaces |-> b, counter |-> n]

KnownIn(s) == IF s = << >> THEN NoBindings ELSE Last(s).namespaces
Known == KnownIn(namespacesStack)

\* The frame that is pushed for an element with attributes.
Pushed(tag) == Over(tag.xmlns, Known)

Parsed(tag) ==
    IF tag.attributes /\ DOMAIN Pushed(tag) # {}
    THEN Append(namespacesStack, Frame(Pushed(tag), 0))
    ELSE namespacesStack

CountUp(s) ==
    IF s = << >> THEN s
    ELSE Append(Front(s), Frame(Last(s).namespaces, Last(s).counter + 1))

\* Mutant of CountDown: the frame goes one element late.
CountDownLate(s) ==
    IF s = << >> THEN s
    ELSE IF Last(s).counter = 0 THEN Front(s)
    ELSE Append(Front(s), Frame(Last(s).namespaces, Last(s).counter - 1))

CountDown(s) ==
    IF s = << >> THEN s
    ELSE IF Last(s).counter = 1 THEN Front(s)
    ELSE Append(Front(s), Frame(Last(s).namespaces, Last(s).counter - 1))

NamespaceIn(s, p) == IF p \in DOMAIN KnownIn(s) THEN KnownIn(s)[p] ELSE NoNamespace

-----------------------------------------------------------------------------
(* Who gets what. *)

Skipping == ignoreElements > 0 \/ unknownElements > 0 \/ namespaceElements > 0

Context == IF elementDataStack = << >> THEN Document ELSE Last(elementDataStack)

\* The receiver of text and of the end of the innermost open element.
Receiver ==
    IF ignoreElements > 0 THEN Nobody
    ELSE IF unknownElements > 0 THEN settings.unknown
    ELSE IF namespaceElements > 0 THEN activeHandler
    ELSE Implementation

\* A call to the receiver r may return ok; nobody always agrees.
Agrees(r, ok) == r = Nobody => ok

\* findElementHash()
Found(name) == {t \in Type : <<Context, name, t>> \in Schema}

\* mElementToNamespaceMap agrees with the namespace of the element's prefix.
CorrectNamespace(tag, t, s) == TypeNamespace[t] = NamespaceIn(s, tag.prefix)

\* Mutant of Accepted: the complete map is used.
AcceptedByAnyMap(tag, s) ==
    {t \in Found(tag.name) : CorrectNamespace(tag, t, s) \/ settings.lax}

\* The types the begin function of which is called: one, or none.
Accepted(tag, s) ==
    {t \in Found(tag.name) \intersect settings.functionMap :
        CorrectNamespace(tag, t, s) \/ settings.lax}

\* An element of the schema that the function map leaves out.
LeftOut(tag, s) ==
    /\ <<Context, tag.name>> \notin XsAny
    /\ tag.name \in GlobalName
    /\ \E t \in Found(tag.name) : CorrectNamespace(tag, t, s)

-----------------------------------------------------------------------------
(* The calls of the XML reader. *)

\* The element is open and r was told of it; s is mNamespacesStack.
Opens(tag, r, s) ==
    /\ namespacesStack' = s
    /\ open' = Append(open, [name |-> tag.name, to |-> r, known |-> KnownIn(s)])

\* Mutant of BeginSkipped: elements without a receiver are not counted.
BeginSkippedUncounted(tag, ok) ==
    /\ Skipping
    /\ Opens(tag, Receiver, CountUp(namespacesStack))
    /\ Agrees(Receiver, ok)
    /\ unknownElements' = IF unknownElements > 0 /\ settings.unknown # Nobody
                          THEN unknownElements + 1 ELSE unknownElements
    /\ namespaceElements' = IF namespaceElements > 0
                            THEN namespaceElements + 1 ELSE namespaceElements
    /\ UNCHANGED <<ignoreElements, elementDataStack, activeHandler>>

\* Below an element that is skipped: declarations are not looked at.
BeginSkipped(tag, ok) ==
    /\ Skipping
    /\ Opens(tag, Receiver, CountUp(namespacesStack))
    /\ Agrees(Receiver, ok)
    /\ \/ /\ ignoreElements > 0
          /\ ignoreElements' = ignoreElements + 1
          /\ UNCHANGED <<unknownElements, namespaceElements>>
       \/ /\ ignoreElements = 0 /\ unknownElements > 0
          /\ unknownElements' = unknownElements + 1
          /\ UNCHANGED <<ignoreElements, namespaceElements>>
       \/ /\ ignoreElements = 0 /\ unknownElements = 0
          /\ namespaceElements' = namespaceElements + 1
          /\ UNCHANGED <<ignoreElements, unknownElements>>
    /\ UNCHANGED <<elementDataStack, activeHandler>>

\* Mutant of Entered: only elements that may declare namespaces are counted.
EnteredUncounted(tag) ==
    IF Context \in OpenToOthers \union {Document} THEN CountUp(Parsed(tag)) ELSE namespacesStack

\* The stack of namespaces while the begin of an element is handled.
Entered(tag) ==
    CountUp(IF Context \in OpenToOthers \union {Document} THEN Parsed(tag) ELSE namespacesStack)

\* The begin function of the type is called; if it fails, nothing is pushed.
BeginKnown(tag, ok) ==
    /\ ~ Skipping
    /\ Opens(tag, Implementation, Entered(tag))
    /\ \E t \in Accepted(tag, Entered(tag)) :
          elementDataStack' = IF ok THEN Append(elementDataStack, t) ELSE elementDataStack
    /\ UNCHANGED <<counters, activeHandler>>

\* Another namespace, and it has a handler.
BeginNamespace(tag, ok) ==
    /\ ~ Skipping
    /\ Accepted(tag, Entered(tag)) = {}
    /\ NamespaceIn(Entered(tag), tag.prefix) \in handlers
    /\ activeHandler' = NamespaceIn(Entered(tag), tag.prefix)
    /\ namespaceElements' = 1
    /\ Opens(tag, activeHandler', Entered(tag))
    /\ UNCHANGED <<elementDataStack, ignoreElements, unknownElements>>

\* An element that the function map leaves out, or that is not known.  Without a
\* handler for it, the error handler is told of an unknown element.
BeginForeign(tag, ok) ==
    /\ ~ Skipping
    /\ Accepted(tag, Entered(tag)) = {}
    /\ NamespaceIn(Entered(tag), tag.prefix) \notin handlers
    /\ \/ /\ LeftOut(tag, Entered(tag)) /\ ok
          /\ ignoreElements' = 1
          /\ Opens(tag, Nobody, Entered(tag))
          /\ UNCHANGED unknownElements
       \/ /\ ~ LeftOut(tag, Entered(tag))
          /\ unknownElements' = 1
          /\ Opens(tag, settings.unknown, Entered(tag))
          /\ UNCHANGED ignoreElements
    /\ UNCHANGED <<elementDataStack, namespaceElements, activeHandler>>

ElementBegin(tag, ok) ==
    /\ live /\ Len(open) < MaxDepth
    /\ \/ BeginSkipped(tag, ok) \/ BeginKnown(tag, ok)
       \/ BeginNamespace(tag, ok) \/ BeginForeign(tag, ok)
    /\ live' = ok
    /\ UNCHANGED <<handlers, settings>>

\* An element on top of the stack that has functions to call.
HasFunctions == elementDataStack # << >> /\ Context \in settings.functionMap

\* Elements without functions get no text, and that is no error.
TextData(ok) ==
    /\ live /\ open # << >>
    /\ Agrees(Receiver, ok)
    /\ live' = (ok /\ (Receiver = Implementation => elementDataStack # << >>))
    /\ UNCHANGED <<elementDataStack, counters, activeHandler, handlers, namespacesStack,
                   settings, open>>

\* The end of an element that is skipped, or below one.
EndSkipped(ok) ==
    /\ Skipping
    /\ Agrees(Receiver, ok)
    /\ \/ /\ ignoreElements > 0
          /\ ignoreElements' = ignoreElements - 1
          /\ UNCHANGED <<unknownElements, namespaceElements>>
       \/ /\ ignoreElements = 0 /\ unknownElements > 0
          /\ unknownElements' = unknownElements - 1
          /\ UNCHANGED <<ignoreElements, namespaceElements>>
       \/ /\ ignoreElements = 0 /\ unknownElements = 0
          /\ namespaceElements' = namespaceElements - 1
          /\ UNCHANGED <<ignoreElements, unknownElements>>
    /\ live' = ok
    /\ UNCHANGED elementDataStack

\* The element leaves the stack whether or not its end function agrees.
EndKnown(ok) ==
    /\ ~ Skipping
    /\ elementDataStack' = IF elementDataStack = << >> THEN << >> ELSE Front(elementDataStack)
    /\ live' = (HasFunctions /\ ok)
    /\ UNCHANGED counters

ElementEnd(ok) ==
    /\ live /\ open # << >>
    /\ namespacesStack' = CountDown(namespacesStack)
    /\ open' = Front(open)
    /\ EndSkipped(ok) \/ EndKnown(ok)
    /\ UNCHANGED <<activeHandler, handlers, settings>>

\* registerNamespaceHandler(), before the document or from a callback.
RegisterNamespaceHandler(ns) ==
    /\ live
    /\ handlers' = handlers \union {ns}
    /\ UNCHANGED <<elementDataStack, counters, activeHandler, namespacesStack, settings, open, live>>

\* unregisterNamespaceHandler(): the active handler stays active.
UnregisterNamespaceHandler(ns) ==
    /\ live
    /\ handlers' = handlers \ {ns}
    /\ UNCHANGED <<elementDataStack, counters, activeHandler, namespacesStack, settings, open, live>>

Next == \/ \E ok \in BOOLEAN :
              \/ \E tag \in Tag : ElementBegin(tag, ok)
              \/ TextData(ok)
              \/ ElementEnd(ok)
        \/ \E ns \in Namespace :
              RegisterNamespaceHandler(ns) \/ UnregisterNamespaceHandler(ns)

Spec == Init /\ [][Next]_vars

-----------------------------------------------------------------------------
(* Properties. *)

FrameType == [namespaces : Bindings, counter : Nat \ {0}]
OpenType == [name : Name, to : Receivers, known : Bindings]

\* Types, and no frame of mNamespacesStack is left with a counter of 0, from
\* which the unsigned counter would wrap.
TypeOK ==
    /\ elementDataStack \in Seq(Type)
    /\ ignoreElements \in Nat /\ unknownElements \in Nat /\ namespaceElements \in Nat
    /\ activeHandler \in Namespace \union {Nobody}
    /\ handlers \subseteq Namespace
    /\ namespacesStack \in Seq(FrameType)
    /\ settings \in Settings
    /\ open \in Seq(OpenType)
    /\ live \in BOOLEAN

\* Text and the end of an element go to the one who was told of its begin, however
\* many elements were opened and closed below it, and handlers registered and
\* unregistered meanwhile; and after a document nothing is skipped any more.
ReceiverIsBeginners ==
    live => Receiver = IF open = << >> THEN Implementation ELSE Last(open).to

Parent(i) == IF i = 1 THEN Document ELSE elementDataStack[i - 1]

\* What the implementation was told of and not yet of its end is a path of the schema
\* from the root, made of the outermost open elements, each of them with functions
\* to call at its end.
ImplementationIsOnPath ==
    live =>
    /\ Len(elementDataStack) <= Len(open)
    /\ \A i \in 1..Len(open) : open[i].to = Implementation <=> i <= Len(elementDataStack)
    /\ \A i \in 1..Len(elementDataStack) :
          /\ <<Parent(i), open[i].name, elementDataStack[i]>> \in Schema
          /\ elementDataStack[i] \in settings.functionMap

\* The namespaces that prefixes stand for are, after any number of children, those
\* that they stood for when the innermost open element began; none outside the root.
NamespacesRestored ==
    live => Known = IF open = << >> THEN NoBindings ELSE Last(open).known
=============================================================================

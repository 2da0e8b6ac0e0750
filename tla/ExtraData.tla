------------------------------ MODULE ExtraData ------------------------------
(***************************************************************************)
(* COLLADASaxFWL: extra data.  Elements that the schema does not know are  *)
(* given by the parser to ExtraDataElementHandler, which passes them on to *)
(* the clients' callback handlers.  At the begin of a <technique> every    *)
(* callback handler is asked whether it wants what is below, and the       *)
(* answers are kept in mCallbackHandlersCallingList.                       *)
(*                                                                         *)
(* `extra' runs along with the elements that are open in the document: who *)
(* was told of their begin, and who wanted to be told when it was asked.   *)
(***************************************************************************)
EXTENDS ParserDispatch

CONSTANTS
    Handler,       \* registered IExtraDataCallbackHandlers
    Technique,     \* types the begin function of which asks the handlers
    RootTag        \* start tags at which VersionParser hands over to the parser

\* findElementHash() knows nothing below these types: they have xs:any only.
ASSUME TechniqueAssumption ==
    /\ Technique \subseteq Type /\ RootTag \subseteq Tag
    /\ \A s \in Schema : s[1] \notin Technique

VARIABLES
    calling,       \* the handlers whose flag in mCallbackHandlersCallingList is set
    extra          \* [told, wants] for every open element

extraVars == <<vars, calling, extra>>

\* The flags are allocated and not initialized; the handler is always registered
\* with the parser, and nobody asks for lax handling of namespaces.
ExtraInit ==
    /\ Init
    /\ settings.unknown = UnknownHandler /\ ~ settings.lax
    /\ calling \in SUBSET Handler
    /\ extra = << >>

-----------------------------------------------------------------------------
\* The parser's first call is for <COLLADA>.
HandedOver(tag) == open = << >> => tag \in RootTag

BeginsUnknown == Last(open').to = UnknownHandler
BeginsTechnique ==
    /\ Len(elementDataStack') > Len(elementDataStack)
    /\ Last(elementDataStack') \in Technique

\* Mutant of Asked: an answer no is not stored.
AskedKeepsYes(answers) == calling \union answers

\* Every handler has answered, and its answer is stored.
Asked(answers) == answers

\* The handlers that a call of elementBegin(), textData() or elementEnd() reaches.
Told == calling

\* Mutant of BeginElement: handlers are asked at the begin of any <technique>.
BeginElementByName(tag, ok) ==
    /\ HandedOver(tag) /\ ElementBegin(tag, ok)
    /\ BeginsUnknown => ok
    /\ extra' = Append(extra, [told |-> IF BeginsUnknown THEN Told ELSE {}, wants |-> {}])
    /\ IF tag.name \in Technique THEN calling' \in SUBSET Handler ELSE UNCHANGED calling

\* The begin of an element that is not a technique.  ExtraDataElementHandler
\* ignores the answers of the handlers and returns true.
BeginElement(tag, ok) ==
    /\ HandedOver(tag) /\ ElementBegin(tag, ok)
    /\ BeginsUnknown => ok
    /\ ~ BeginsTechnique
    /\ extra' = Append(extra, [told |-> IF BeginsUnknown THEN Told ELSE {}, wants |-> {}])
    /\ UNCHANGED calling

\* base__begin__technique()
BeginTechnique(tag, answers) ==
    /\ HandedOver(tag) /\ ElementBegin(tag, TRUE)
    /\ BeginsTechnique
    /\ calling' = Asked(answers)
    /\ extra' = Append(extra, [told |-> {}, wants |-> answers])

Text(ok) ==
    /\ TextData(ok)
    /\ Receiver = UnknownHandler => ok
    /\ UNCHANGED <<calling, extra>>

\* No flag is reset at the end of a technique.
EndElement(ok) ==
    /\ ElementEnd(ok)
    /\ Receiver = UnknownHandler => ok
    /\ extra' = Front(extra)
    /\ UNCHANGED calling

ExtraNext ==
    \/ \E tag \in Tag, ok \in BOOLEAN : BeginElement(tag, ok)
    \/ \E tag \in Tag, answers \in SUBSET Handler : BeginTechnique(tag, answers)
    \/ \E ok \in BOOLEAN : Text(ok) \/ EndElement(ok)

ExtraSpec == ExtraInit /\ [][ExtraNext]_extraVars

-----------------------------------------------------------------------------
(* Properties. *)

\* Text and the end of an element that the schema does not know reach exactly the
\* handlers that were told of its begin, whatever lies between: the flags cannot
\* change while such an element is open, because what is below it is not parsed.
EndsReachWhoWasTold ==
    live /\ Receiver = UnknownHandler => Last(extra).told = Told

Unknown(i) == open[i].to = UnknownHandler
IsTechnique(i) == i <= Len(elementDataStack) /\ elementDataStack[i] \in Technique

\* Below a technique, each handler is told of an element exactly if it wanted that
\* technique, whatever it said to the techniques before.
WishesAreRespected ==
    live =>
       \A i, j \in 1..Len(open) :
          /\ i < j /\ IsTechnique(i) /\ Unknown(j)
          /\ \A k \in (i + 1)..Len(open) : ~ IsTechnique(k)
          => extra[j].told = extra[i].wants
=============================================================================

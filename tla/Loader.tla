------------------------------- MODULE Loader -------------------------------
(***************************************************************************)
(* COLLADASaxFWL::Loader: loading a document, and the files it refers to,  *)
(* into a writer.  The client says by flags which objects it wants; it may *)
(* load in several passes, with the same Loader.  Every file gets a file   *)
(* id when it is first referred to, files are parsed in the order of their *)
(* ids, and from the flags follows the function map with which a file is   *)
(* parsed, i.e. the libraries that are looked at.  Some objects go to the  *)
(* writer when they are parsed, others are stored in the Loader and go to  *)
(* the writer in postProcess().                                            *)
(*                                                                         *)
(* Files are sets of objects, which refer to at most one other object and  *)
(* may come in any order.  `loaded', `refused', `written', `aborted' and   *)
(* `interrupted' are kept for the properties.                              *)
(***************************************************************************)
EXTENDS Integers, FiniteSets, Functions

CONSTANTS
    Uri,             \* uris of files
    Object,          \* objects with an id
    File,            \* the file of an object
    Kind,            \* the kind of an object: the flag that asks for it
    Reference,       \* what an object refers to, or NoObject
    FlagSets,        \* the combinations of flags the client sets
    StopIsFailure,   \* whether the XML parser reports that it was stopped (expat: parseFile)
    MaxPasses        \* bound: calls of loadDocument()

NoObject == "no object"

StoredAlways == {"VISUAL_SCENES", "LIBRARY_NODES", "EFFECT", "FORMULA"}
StoredIfAsked == {"CAMERA", "LIGHT"}
WrittenAlways == {"SKIN_CONTROLLER_DATA"}
WrittenIfAsked == {"SCENE", "GEOMETRY", "MATERIAL", "IMAGE", "ANIMATION"}
ObjectKind == StoredAlways \union StoredIfAsked \union WrittenAlways \union WrittenIfAsked

\* Objects of the other kinds are made from several elements, or of <asset>.
Flag == ObjectKind \union {"ASSET", "ANIMATION_LIST", "CONTROLLER", "KINEMATICS"}
AllFlags == Flag

ASSUME ContentAssumption ==
    /\ NoObject \notin Object
    /\ File \in [Object -> Uri]
    /\ Kind \in [Object -> ObjectKind]
    /\ Reference \in [Object -> Object \union {NoObject}]
    /\ StopIsFailure \in BOOLEAN /\ MaxPasses \in Nat

\* The function map of <asset> holds parts of all libraries, and is left out here.
ASSUME FlagAssumption ==
    /\ FlagSets \subseteq SUBSET Flag
    /\ \A F \in FlagSets : "ASSET" \in F => F = AllFlags

VARIABLES
    objectFlags,     \* mObjectFlags
    parsedFlags,     \* mParsedObjectFlags
    nextFileId,      \* mNextFileId
    currentFileId,   \* mCurrentFileId
    uriFileId,       \* mURIFileIdMap
    fileIdUri,       \* mFileIdURIMap
    uniqueId,        \* mURIUniqueIdMap: the file id in the unique id of an object
    stored,          \* how often an object is in the lists of the Loader
    phase,           \* "idle", "files", or "parsing" a file
    libraries,       \* the kinds that the function map of the file covers
    remaining,       \* the objects of the file that are still to come
    abortLoading,    \* abortLoading
    root,            \* the document
    passes,          \* calls of loadDocument()
    result,          \* what it returned
    writer,          \* the last of start(), cancel(), finish()
    written,         \* how often an object was written in this pass
    loaded,          \* files parsed in this pass
    refused,         \* files the client's decider ever did not want
    aborted,         \* parsing a file was stopped in this pass
    interrupted      \* parsing a file was stopped in this or an earlier pass

ids == <<nextFileId, currentFileId, uriFileId, fileIdUri>>
history == <<loaded, refused, aborted, interrupted>>
vars == <<objectFlags, parsedFlags, ids, uniqueId, stored, phase, libraries, remaining,
          abortLoading, root, passes, result, writer, written, history>>

Init ==
    /\ objectFlags = AllFlags /\ parsedFlags = {}
    /\ nextFileId = 0 /\ currentFileId = 0
    /\ uriFileId = << >> /\ fileIdUri = << >>
    /\ uniqueId = << >>
    /\ stored = [o \in Object |-> 0]
    /\ phase = "idle" /\ libraries = {} /\ remaining = {}
    /\ abortLoading = FALSE
    /\ root \in Uri
    /\ passes = 0 /\ result = FALSE
    /\ writer = "none" /\ written = [o \in Object |-> 0]
    /\ loaded = {} /\ refused = {} /\ aborted = FALSE /\ interrupted = FALSE

-----------------------------------------------------------------------------
(* VersionParser: the function map.  Libraries are named by the kind of    *)
(* their objects.                                                          *)

\* What has to be parsed for a flag.
Needs(f) ==
    CASE f \in {"VISUAL_SCENES", "LIBRARY_NODES", "EFFECT"} -> {f, "ANIMATION"}
      [] f = "ANIMATION_LIST" -> {"ANIMATION", "VISUAL_SCENES", "LIBRARY_NODES", "EFFECT"}
      [] f = "CONTROLLER" -> {"SKIN_CONTROLLER_DATA", "VISUAL_SCENES", "LIBRARY_NODES"}
      [] f \in {"FORMULA", "KINEMATICS", "ASSET"} -> {}
      [] OTHER -> {f}

ParsedOnce == {"VISUAL_SCENES", "LIBRARY_NODES", "EFFECT"}

Required(flags, parsed) == UNION {Needs(f) : f \in flags \ (ParsedOnce \intersect parsed)}

\* Without a function map all elements are parsed.
FunctionMap(flags, parsed) ==
    IF flags = AllFlags \/ Required(flags, parsed) = {} THEN ObjectKind
    ELSE Required(flags, parsed)

\* Mutant of ParsedAfter: a controller's pass is taken for one with effects, too.
ParsedAfterTooMuch(flags, parsed) ==
    IF flags = AllFlags THEN parsed
    ELSE parsed \union flags \union
         (IF flags \intersect {"ANIMATION_LIST", "CONTROLLER"} # {} THEN ParsedOnce ELSE {})

\* afterLoadParsedObjectFlags
ParsedAfter(flags, parsed) ==
    IF flags = AllFlags THEN parsed
    ELSE parsed \union flags
         \union (IF "ANIMATION_LIST" \in flags THEN ParsedOnce ELSE {})
         \union (IF "CONTROLLER" \in flags THEN {"VISUAL_SCENES", "LIBRARY_NODES"} ELSE {})

-----------------------------------------------------------------------------
(* File ids and unique ids. *)

With(f, x, v) == [y \in DOMAIN f \union {x} |-> IF y = x THEN v ELSE f[y]]

\* Mutant of AddFileIdUriPair: the root file has always file id 0.
AddFileIdUriPairZero(u) ==
    LET id == IF phase = "idle" THEN 0 ELSE nextFileId IN
    /\ uriFileId' = With(uriFileId, u, id)
    /\ fileIdUri' = With(fileIdUri, id, u)
    /\ nextFileId' = nextFileId + 1

AddFileIdUriPair(u) ==
    /\ uriFileId' = With(uriFileId, u, nextFileId)
    /\ fileIdUri' = With(fileIdUri, nextFileId, u)
    /\ nextFileId' = nextFileId + 1

\* Mutant of GetFileId: a file is not found again.
GetFileIdAnew(u) == AddFileIdUriPair(u)

\* getFileId(), for a uri that is not relative
GetFileId(u) ==
    IF u \in DOMAIN uriFileId THEN UNCHANGED <<nextFileId, uriFileId, fileIdUri>>
    ELSE AddFileIdUriPair(u)

\* getUniqueId() for o, which is being parsed, and for what it refers to.
Identified(o) == {o, Reference[o]} \ {NoObject}

\* Mutant of GetUniqueIds: all ids are of the file that is being parsed.
GetUniqueIdsHere(o) ==
    /\ uniqueId' = [p \in DOMAIN uniqueId \union Identified(o) |->
                       IF p \in DOMAIN uniqueId THEN uniqueId[p] ELSE currentFileId]
    /\ UNCHANGED <<nextFileId, uriFileId, fileIdUri>>

GetUniqueIds(o) ==
    LET new == Identified(o) \ DOMAIN uniqueId IN
    /\ IF Reference[o] \in new THEN GetFileId(File[Reference[o]])
       ELSE UNCHANGED <<nextFileId, uriFileId, fileIdUri>>
    /\ uniqueId' = [p \in DOMAIN uniqueId \union new |->
                       IF p \in DOMAIN uniqueId THEN uniqueId[p] ELSE uriFileId'[File[p]]]

-----------------------------------------------------------------------------
(* The client. *)

SetObjectFlags(F) ==
    /\ phase = "idle" /\ passes < MaxPasses
    /\ objectFlags' = F
    /\ UNCHANGED <<parsedFlags, ids, uniqueId, stored, phase, libraries, remaining, abortLoading,
                   root, passes, result, writer, written, history>>

\* loadDocument() with the name of a file
LoadDocument(u) ==
    /\ phase = "idle" /\ passes < MaxPasses
    /\ writer' = "start"
    /\ AddFileIdUriPair(u)
    /\ phase' = "files" /\ abortLoading' = FALSE
    /\ root' = u /\ passes' = passes + 1
    /\ written' = [o \in Object |-> 0] /\ loaded' = {} /\ aborted' = FALSE
    /\ UNCHANGED <<objectFlags, parsedFlags, currentFileId, uniqueId, stored, libraries, remaining,
                   result, refused, interrupted>>

-----------------------------------------------------------------------------
(* The loop over the files. *)

MoreFiles == phase = "files" /\ currentFileId < nextFileId /\ ~ abortLoading

\* The client's decider is asked about every file but the one with id 0.
RefuseFile ==
    /\ MoreFiles /\ currentFileId # 0
    /\ refused' = refused \union {fileIdUri[currentFileId]}
    /\ currentFileId' = currentFileId + 1
    /\ UNCHANGED <<objectFlags, parsedFlags, nextFileId, uriFileId, fileIdUri, uniqueId, stored,
                   phase, libraries, remaining, abortLoading, root, passes, result, writer,
                   written, loaded, aborted, interrupted>>

Stopped(stopped) ==
    /\ aborted' = (aborted \/ stopped) /\ interrupted' = (interrupted \/ stopped)

\* A file that cannot be opened
MissFile ==
    /\ MoreFiles
    /\ abortLoading' = TRUE
    /\ currentFileId' = currentFileId + 1
    /\ Stopped(TRUE)
    /\ UNCHANGED <<objectFlags, parsedFlags, nextFileId, uriFileId, fileIdUri, uniqueId, stored,
                   phase, libraries, remaining, root, passes, result, writer, written, loaded,
                   refused>>

\* A file is opened, and VersionParser has met <COLLADA>.
OpenFile ==
    /\ MoreFiles
    /\ phase' = "parsing"
    /\ libraries' = FunctionMap(objectFlags, parsedFlags)
    /\ parsedFlags' = ParsedAfter(objectFlags, parsedFlags)
    /\ remaining' = {o \in Object : File[o] = fileIdUri[currentFileId]}
    /\ loaded' = loaded \union {fileIdUri[currentFileId]}
    /\ UNCHANGED <<objectFlags, ids, uniqueId, stored, abortLoading, root, passes, result, writer,
                   written, refused, aborted, interrupted>>

\* The file is done with, at its end or before.
CloseFile(stopped) ==
    /\ phase' = "files"
    /\ libraries' = {} /\ remaining' = {}
    /\ abortLoading' = (stopped /\ StopIsFailure)
    /\ currentFileId' = currentFileId + 1
    /\ Stopped(stopped)

EndFile ==
    /\ phase = "parsing" /\ remaining = {}
    /\ CloseFile(FALSE)
    /\ UNCHANGED <<objectFlags, parsedFlags, nextFileId, uriFileId, fileIdUri, uniqueId, stored, root,
                   passes, result, writer, written, loaded, refused>>

\* An error in the file, or one that the client's error handler does not accept.
StopFile ==
    /\ phase = "parsing"
    /\ CloseFile(TRUE)
    /\ UNCHANGED <<objectFlags, parsedFlags, nextFileId, uriFileId, fileIdUri, uniqueId, stored, root,
                   passes, result, writer, written, loaded, refused>>

IsStored(o) == Kind[o] \in StoredAlways \/ Kind[o] \in StoredIfAsked \intersect objectFlags
IsWritten(o) == Kind[o] \in WrittenAlways \/ Kind[o] \in WrittenIfAsked \intersect objectFlags

\* Formulas are in a map by their unique id.
StoredAfter(o) == IF Kind[o] = "FORMULA" THEN 1 ELSE stored[o] + 1

\* The element of an object, which the function map covers or not; and the writer agrees
\* to go on or not, but for geometries, where it is not asked.
ParseObject(o, ok) ==
    /\ phase = "parsing" /\ o \in remaining
    /\ ~ ok => /\ Kind[o] \in libraries /\ IsWritten(o) /\ Kind[o] # "GEOMETRY"
    /\ IF Kind[o] \in libraries
       THEN /\ GetUniqueIds(o)
            /\ stored' = IF IsStored(o) THEN [stored EXCEPT ![o] = StoredAfter(o)] ELSE stored
            /\ written' = IF IsWritten(o) THEN [written EXCEPT ![o] = @ + 1] ELSE written
       ELSE UNCHANGED <<nextFileId, uriFileId, fileIdUri, uniqueId, stored, written>>
    /\ \/ /\ ok
          /\ remaining' = remaining \ {o}
          /\ UNCHANGED <<phase, libraries, abortLoading, currentFileId, aborted, interrupted>>
       \/ ~ ok /\ CloseFile(TRUE)
    /\ UNCHANGED <<objectFlags, parsedFlags, root, passes, result, writer, loaded,
                   refused>>

\* postProcess(): stored objects are written.
PostProcess ==
    written' = [o \in Object |->
        IF Kind[o] \in objectFlags \intersect (StoredAlways \union StoredIfAsked)
        THEN written[o] + stored[o] ELSE written[o]]

\* Mutant of Finish: after an abort the rest of the files is waited for.
FinishAfterAllFiles ==
    /\ phase = "files" /\ currentFileId = nextFileId
    /\ IF abortLoading THEN UNCHANGED written ELSE PostProcess
    /\ writer' = IF abortLoading THEN "cancel" ELSE "finish"
    /\ parsedFlags' = parsedFlags \union objectFlags
    /\ result' = ~ abortLoading
    /\ phase' = "idle"
    /\ UNCHANGED <<objectFlags, ids, uniqueId, stored, libraries, remaining, abortLoading, root,
                   passes, history>>

\* Mutant of Finish: what was stored is written although loading was aborted.
FinishAnyway ==
    /\ phase = "files" /\ (currentFileId = nextFileId \/ abortLoading)
    /\ PostProcess
    /\ writer' = IF abortLoading THEN "cancel" ELSE "finish"
    /\ parsedFlags' = parsedFlags \union objectFlags
    /\ result' = ~ abortLoading
    /\ phase' = "idle"
    /\ UNCHANGED <<objectFlags, ids, uniqueId, stored, libraries, remaining, abortLoading, root,
                   passes, history>>

\* The end of loadDocument(); a writer that is cancelled is finished, too.
Finish ==
    /\ phase = "files" /\ (currentFileId = nextFileId \/ abortLoading)
    /\ \/ /\ ~ abortLoading /\ PostProcess /\ writer' = "finish"
       \/ /\ abortLoading /\ writer' = "cancel" /\ UNCHANGED written
    /\ parsedFlags' = parsedFlags \union objectFlags
    /\ result' = ~ abortLoading
    /\ phase' = "idle"
    /\ UNCHANGED <<objectFlags, ids, uniqueId, stored, libraries, remaining, abortLoading, root,
                   passes, history>>

\* What loadDocument() does before it returns
LoadStep ==
    \/ RefuseFile \/ MissFile \/ OpenFile \/ EndFile \/ StopFile
    \/ \E o \in Object, ok \in BOOLEAN : ParseObject(o, ok)
    \/ Finish

Next ==
    \/ \E F \in FlagSets : SetObjectFlags(F)
    \/ \E u \in Uri : LoadDocument(u)
    \/ LoadStep

Spec == Init /\ [][Next]_vars

\* loadDocument() runs in the thread of its caller, and files are finite: it takes its next step.
\* Nothing is assumed of the client, who need not call it.
FairSpec == Spec /\ WF_vars(LoadStep)

-----------------------------------------------------------------------------
(* Properties. *)

IsPartial(f, S, T) == DOMAIN f \subseteq S /\ f \in [DOMAIN f -> T]

\* The variables have their types; the file ids that were given are those below the next one.
TypeOK ==
    /\ objectFlags \subseteq Flag /\ parsedFlags \subseteq Flag
    /\ nextFileId \in Nat /\ currentFileId \in 0 .. nextFileId
    /\ IsPartial(uriFileId, Uri, 0 .. nextFileId - 1)
    /\ fileIdUri \in [0 .. nextFileId - 1 -> Uri]
    /\ IsPartial(uniqueId, Object, 0 .. nextFileId - 1)
    /\ stored \in [Object -> Nat] /\ written \in [Object -> Nat]
    /\ phase \in {"idle", "files", "parsing"}
    /\ phase = "parsing" => currentFileId < nextFileId
    /\ libraries \subseteq ObjectKind /\ remaining \subseteq Object
    /\ {abortLoading, result, aborted, interrupted} \subseteq BOOLEAN
    /\ root \in Uri /\ passes \in 0 .. MaxPasses
    /\ writer \in {"none", "start", "cancel", "finish"}
    /\ loaded \subseteq Uri /\ refused \subseteq Uri

\* The two maps of file ids agree, and the file id in a unique id is one of the file that
\* contains the object, also when it was asked for by a reference from another file, before the
\* object was seen (getUniqueId, getFileId).
FileIdsNameFiles ==
    /\ \A u \in DOMAIN uriFileId : fileIdUri[uriFileId[u]] = u
    /\ \A o \in DOMAIN uniqueId : fileIdUri[uniqueId[o]] = File[o]

\* Files may refer to each other in circles, yet loadDocument() parses a file only once;
\* unless ids are left over from loading that was stopped.
EachFileOnce ==
    [][OpenFile /\ ~ interrupted => fileIdUri[currentFileId] \notin loaded]_vars

\* When all objects are asked for and nothing was stopped, what was referred to is loaded, unless
\* the client refused, and exactly the objects of the loaded files were written, once each:
\* those that are written when parsed and those that are stored and written in the end alike.
CompleteLoad ==
    [][Finish /\ passes = 1 /\ objectFlags = AllFlags /\ result' /\ ~ aborted =>
          /\ \A o \in Object : written'[o] = (IF File[o] \in loaded THEN 1 ELSE 0)
          /\ \A o \in Object : File[o] \in loaded /\ Reference[o] \in Object =>
                 File[Reference[o]] \in loaded \union refused]_vars

\* Loading that was aborted is reported as failed, the writer is told so, and is given nothing
\* of what the Loader stored.
AbortedIsCancelled ==
    phase = "idle" /\ aborted =>
        /\ ~ result /\ writer = "cancel"
        /\ \A o \in Object : Kind[o] \in StoredAlways \union StoredIfAsked => written[o] = 0

\* No library belongs to FORMULA_FLAG, and so formulas are in a function map only if all flags are set.
WritesWhatIsRequested ==
    \A o \in Object :
        Kind[o] \in objectFlags \ {"FORMULA"} /\ File[o] \in loaded \ refused => written'[o] > 0

\* What is asked for in a pass and is in a file that was parsed in it is written in it.  This is not
\* so for the objects of a second file: the first has marked their kinds as parsed.
RequestedIsWritten == [][Finish /\ result' /\ ~ interrupted => WritesWhatIsRequested]_vars

\* With one file, however the flags are divided among passes, a pass writes what it was asked for:
\* kinds that createFunctionMap leaves out because they were parsed before are among those that the
\* Loader stored.
SinglePassesComplete ==
    [][Finish /\ result' /\ ~ interrupted /\ Cardinality(DOMAIN uriFileId) = 1
          => WritesWhatIsRequested]_vars

\* loadDocument() returns, although files refer to each other in circles and the list of files grows
\* while it is gone through.
LoadingEnds == phase # "idle" ~> phase = "idle"

\* "True, if loading succeeded": not if parsing a file was stopped.  With libxml it was
\* (LibxmlSaxParser::parseFile).
LoadingSucceeded == phase = "idle" /\ passes > 0 /\ result => ~ aborted
=============================================================================

---------------------------- MODULE LoaderProofs ----------------------------
(***************************************************************************)
(* File ids and unique ids, how often a file is opened, and what is        *)
(* written, for any documents, references between them, flags and number   *)
(* of passes.                                                              *)
(***************************************************************************)
EXTENDS Loader, FiniteSetTheorems, TLAPS

FileIds == 0 .. nextFileId - 1

\* The functions from a part of S to T
Partial(S, T) == UNION {[D -> T] : D \in SUBSET S}

\* The maps of files are inverse to each other on the files that are known, and all files
\* that have an id are known; a file that is loaded again has several.
FileMaps ==
    /\ nextFileId \in Nat
    /\ uriFileId \in Partial(Uri, FileIds)
    /\ fileIdUri \in [FileIds -> Uri]
    /\ \A u \in DOMAIN uriFileId : fileIdUri[uriFileId[u]] = u
    /\ \A i \in FileIds : fileIdUri[i] \in DOMAIN uriFileId

UniqueIds ==
    /\ uniqueId \in Partial(Object, FileIds)
    /\ \A o \in DOMAIN uniqueId : fileIdUri[uniqueId[o]] = File[o]

\* Objects that are parsed are those of the current file.
Current ==
    /\ currentFileId \in 0 .. nextFileId
    /\ phase = "parsing" => /\ currentFileId < nextFileId
                            /\ \A o \in remaining : File[o] = fileIdUri[currentFileId]

Rest ==
    /\ objectFlags \subseteq Flag /\ parsedFlags \subseteq Flag
    /\ stored \in [Object -> Nat] /\ written \in [Object -> Nat]
    /\ phase \in {"idle", "files", "parsing"}
    /\ libraries \subseteq ObjectKind /\ remaining \subseteq Object
    /\ {abortLoading, result, aborted, interrupted} \subseteq BOOLEAN
    /\ root \in Uri /\ passes \in 0 .. MaxPasses
    /\ writer \in {"none", "start", "cancel", "finish"}
    /\ loaded \subseteq Uri /\ refused \subseteq Uri

IInv == FileMaps /\ UniqueIds /\ Current /\ Rest

-----------------------------------------------------------------------------
LEMMA PartialIntro ==
    ASSUME NEW S, NEW T, NEW D \in SUBSET S, NEW f \in [D -> T]
    PROVE  f \in Partial(S, T)
BY DEF Partial

LEMMA PartialElim ==
    ASSUME NEW S, NEW T, NEW f \in Partial(S, T)
    PROVE  DOMAIN f \in SUBSET S /\ f \in [DOMAIN f -> T]
BY DEF Partial

\* The files that had an id keep it.
KeepsIds ==
    /\ nextFileId' \in Nat /\ nextFileId <= nextFileId'
    /\ \A i \in FileIds : fileIdUri'[i] = fileIdUri[i]
    /\ DOMAIN uriFileId \subseteq DOMAIN uriFileId'

LEMMA AddingAFile ==
    ASSUME FileMaps, NEW u \in Uri, AddFileIdUriPair(u)
    PROVE  FileMaps' /\ KeepsIds /\ u \in DOMAIN uriFileId' /\ nextFileId' = nextFileId + 1
<1> DEFINE D == DOMAIN uriFileId  E == D \union {u}
<1>1. nextFileId \in Nat /\ nextFileId' = nextFileId + 1 /\ nextFileId' \in Nat
  BY DEF FileMaps, AddFileIdUriPair
<1>2. FileIds' = FileIds \union {nextFileId} /\ nextFileId \notin FileIds
  BY <1>1 DEF FileIds
<1>3. D \in SUBSET Uri /\ uriFileId \in [D -> FileIds]
  BY PartialElim DEF FileMaps
<1>4. uriFileId' = [y \in E |-> IF y = u THEN nextFileId ELSE uriFileId[y]]
  BY DEF AddFileIdUriPair, With
<1>5. DOMAIN fileIdUri = FileIds  BY DEF FileMaps
<1>6. fileIdUri' = [i \in FileIds' |-> IF i = nextFileId THEN u ELSE fileIdUri[i]]
  BY <1>2, <1>5 DEF AddFileIdUriPair, With
<1>7. uriFileId' \in Partial(Uri, FileIds')
  <2>1. E \in SUBSET Uri  BY <1>3
  <2>2. uriFileId' \in [E -> FileIds']  BY <1>2, <1>3, <1>4
  <2> HIDE DEF E
  <2> QED  BY <2>1, <2>2, PartialIntro
<1>8. fileIdUri' \in [FileIds' -> Uri]  BY <1>2, <1>6 DEF FileMaps
<1>9. DOMAIN uriFileId' = E  BY <1>4
<1>10. \A v \in E : fileIdUri'[uriFileId'[v]] = v
  <2> SUFFICES ASSUME NEW v \in E PROVE fileIdUri'[uriFileId'[v]] = v  OBVIOUS
  <2>1. CASE v = u  BY <2>1, <1>2, <1>4, <1>6
  <2>2. CASE v # u
    <3>1. v \in D /\ uriFileId'[v] = uriFileId[v] /\ uriFileId[v] \in FileIds
      BY <2>2, <1>3, <1>4
    <3>2. fileIdUri'[uriFileId[v]] = fileIdUri[uriFileId[v]]  BY <3>1, <1>2, <1>6
    <3> QED  BY <3>1, <3>2 DEF FileMaps
  <2> QED  BY <2>1, <2>2
<1>11. \A i \in FileIds' : fileIdUri'[i] \in E  BY <1>2, <1>6 DEF FileMaps
<1>12. KeepsIds
  <2>1. nextFileId <= nextFileId'  BY <1>1
  <2>2. \A i \in FileIds : fileIdUri'[i] = fileIdUri[i]  BY <1>2, <1>6
  <2> QED  BY <1>1, <2>1, <2>2, <1>9 DEF KeepsIds
<1>13. FileMaps'
  <2> HIDE DEF E
  <2> QED  BY <1>1, <1>7, <1>8, <1>9, <1>10, <1>11 DEF FileMaps
<1> QED  BY <1>1, <1>9, <1>12, <1>13

LEMMA NoNewFile ==
    ASSUME FileMaps, UNCHANGED <<nextFileId, uriFileId, fileIdUri>>
    PROVE  FileMaps' /\ KeepsIds
<1>1. FileIds' = FileIds  BY DEF FileIds
<1>2. nextFileId \in Nat /\ nextFileId <= nextFileId'  BY DEF FileMaps
<1> QED  BY <1>1, <1>2 DEF FileMaps, KeepsIds

\* What getFileId() returns is in the map afterwards.
LEMMA GettingAFileId ==
    ASSUME FileMaps, NEW u \in Uri, GetFileId(u)
    PROVE  FileMaps' /\ KeepsIds /\ u \in DOMAIN uriFileId'
<1>1. CASE u \in DOMAIN uriFileId
  <2>1. UNCHANGED <<nextFileId, uriFileId, fileIdUri>>  BY <1>1 DEF GetFileId
  <2> QED  BY <1>1, <2>1, NoNewFile
<1>2. CASE u \notin DOMAIN uriFileId
  <2>1. AddFileIdUriPair(u)  BY <1>2 DEF GetFileId
  <2> QED  BY <2>1, AddingAFile
<1> QED  BY <1>1, <1>2

LEMMA SegmentGrows == \A m \in Nat, n \in Nat : m <= n => 0 .. m - 1 \subseteq 0 .. n - 1
OBVIOUS

LEMMA FileIdsStay ==
    ASSUME FileMaps, KeepsIds
    PROVE  FileIds \subseteq FileIds'
<1>1. nextFileId \in Nat  BY DEF FileMaps
<1>2. nextFileId' \in Nat /\ nextFileId <= nextFileId'  BY DEF KeepsIds
<1> QED  BY <1>1, <1>2, SegmentGrows DEF FileIds

\* The unique ids stay good when files get ids.
LEMMA UniqueIdsStay ==
    ASSUME FileMaps, KeepsIds, UniqueIds, UNCHANGED uniqueId
    PROVE  UniqueIds'
<1>1. DOMAIN uniqueId \in SUBSET Object /\ uniqueId \in [DOMAIN uniqueId -> FileIds]
  BY PartialElim DEF UniqueIds
<1>2. uniqueId \in [DOMAIN uniqueId -> FileIds']  BY <1>1, FileIdsStay
<1>3. uniqueId \in Partial(Object, FileIds')  BY <1>1, <1>2, PartialIntro
<1>4. \A o \in DOMAIN uniqueId : fileIdUri'[uniqueId[o]] = File[o]
  BY <1>1 DEF KeepsIds, UniqueIds
<1> QED  BY <1>3, <1>4 DEF UniqueIds

\* getUniqueId() for an object that is being parsed, and for one in any file.
LEMMA GettingUniqueIds ==
    ASSUME FileMaps, UniqueIds, Current, NEW o \in Object, phase = "parsing", o \in remaining,
           GetUniqueIds(o)
    PROVE  FileMaps' /\ KeepsIds /\ UniqueIds'
<1> DEFINE D == DOMAIN uniqueId
           new == Identified(o) \ D
           E == D \union new
<1>1. Identified(o) \subseteq Object /\ o \in Identified(o)
  BY ContentAssumption DEF Identified
<1>2. FileMaps' /\ KeepsIds /\ (Reference[o] \in new => File[Reference[o]] \in DOMAIN uriFileId')
  <2>1. CASE Reference[o] \in new
    <3>1. File[Reference[o]] \in Uri  BY <2>1, <1>1, ContentAssumption
    <3>2. GetFileId(File[Reference[o]])  BY <2>1 DEF GetUniqueIds
    <3> QED  BY <3>1, <3>2, GettingAFileId
  <2>2. CASE Reference[o] \notin new
    <3>1. UNCHANGED <<nextFileId, uriFileId, fileIdUri>>  BY <2>2 DEF GetUniqueIds
    <3> QED  BY <3>1, <2>2, NoNewFile
  <2> QED  BY <2>1, <2>2
<1>3. File[o] \in DOMAIN uriFileId'
  <2>1. currentFileId \in FileIds /\ File[o] = fileIdUri[currentFileId]
    BY DEF Current, FileIds, FileMaps
  <2> QED  BY <2>1, <1>2 DEF FileMaps, KeepsIds
<1>4. \A p \in new : p \in Object /\ File[p] \in DOMAIN uriFileId'
  BY <1>1, <1>2, <1>3 DEF Identified
<1>5. DOMAIN uniqueId \in SUBSET Object /\ uniqueId \in [D -> FileIds]
  BY PartialElim DEF UniqueIds
<1>6. uniqueId' = [p \in E |-> IF p \in D THEN uniqueId[p] ELSE uriFileId'[File[p]]]
  BY DEF GetUniqueIds
<1>7. FileIds \subseteq FileIds'  BY <1>2, FileIdsStay
<1>8. \A p \in new : uriFileId'[File[p]] \in FileIds' /\ fileIdUri'[uriFileId'[File[p]]] = File[p]
  <2>1. uriFileId' \in Partial(Uri, FileIds')  BY <1>2 DEF FileMaps
  <2>2. uriFileId' \in [DOMAIN uriFileId' -> FileIds']  BY <2>1, PartialElim
  <2>3. \A u \in DOMAIN uriFileId' : fileIdUri'[uriFileId'[u]] = u  BY <1>2 DEF FileMaps
  <2> QED  BY <1>4, <2>2, <2>3
<1>9. \A p \in D : uniqueId[p] \in FileIds' /\ fileIdUri'[uniqueId[p]] = File[p]
  BY <1>2, <1>5, <1>7 DEF KeepsIds, UniqueIds
<1> HIDE DEF new, D
<1>10. E \in SUBSET Object  BY <1>4, <1>5 DEF D
<1>11. uniqueId' \in [E -> FileIds']  BY <1>6, <1>8, <1>9
<1>12. \A p \in E : fileIdUri'[uniqueId'[p]] = File[p]  BY <1>6, <1>8, <1>9
<1>13. DOMAIN uniqueId' = E  BY <1>6
<1>14. uniqueId' \in Partial(Object, FileIds')
  <2> HIDE DEF E
  <2> QED  BY <1>10, <1>11, PartialIntro
<1>15. UniqueIds'  BY <1>12, <1>13, <1>14 DEF UniqueIds
<1> QED  BY <1>2, <1>15

-----------------------------------------------------------------------------
\* The function map and the flags

LEMMA NeedsAreKinds == \A f \in Flag : Needs(f) \subseteq ObjectKind
<1> SUFFICES ASSUME NEW f \in Flag PROVE Needs(f) \subseteq ObjectKind  OBVIOUS
<1>1. CASE f \in {"VISUAL_SCENES", "LIBRARY_NODES", "EFFECT"}
  BY <1>1 DEF Needs, ObjectKind, StoredAlways, WrittenIfAsked
<1>2. CASE f \in {"ANIMATION_LIST", "CONTROLLER", "FORMULA", "KINEMATICS", "ASSET"}
  BY <1>2 DEF Needs, ObjectKind, StoredAlways, WrittenIfAsked, WrittenAlways
<1>3. CASE f \notin {"VISUAL_SCENES", "LIBRARY_NODES", "EFFECT", "ANIMATION_LIST", "CONTROLLER",
                     "FORMULA", "KINEMATICS", "ASSET"}
  <2>1. f \in ObjectKind  BY <1>3 DEF Flag
  <2>2. Needs(f) = {f}  BY <1>3 DEF Needs
  <2> QED  BY <2>1, <2>2
<1> QED  BY <1>1, <1>2, <1>3

LEMMA FunctionMapType ==
    ASSUME objectFlags \subseteq Flag
    PROVE  FunctionMap(objectFlags, parsedFlags) \subseteq ObjectKind
<1>1. Required(objectFlags, parsedFlags) \subseteq ObjectKind
  <2>1. \A f \in objectFlags \ (ParsedOnce \intersect parsedFlags) : Needs(f) \subseteq ObjectKind
    BY NeedsAreKinds
  <2> QED  BY <2>1 DEF Required
<1> QED  BY <1>1 DEF FunctionMap

LEMMA ParsedAfterType ==
    ASSUME objectFlags \subseteq Flag, parsedFlags \subseteq Flag
    PROVE  ParsedAfter(objectFlags, parsedFlags) \subseteq Flag
<1>1. ParsedOnce \subseteq Flag /\ {"VISUAL_SCENES", "LIBRARY_NODES"} \subseteq Flag
  BY DEF ParsedOnce, Flag, ObjectKind, StoredAlways
<1> QED  BY <1>1 DEF ParsedAfter

-----------------------------------------------------------------------------
LEMMA Initially == Init => IInv
<1> SUFFICES ASSUME Init PROVE IInv  OBVIOUS
<1>1. nextFileId = 0 /\ currentFileId = 0 /\ phase = "idle"  BY DEF Init
<1>2. uriFileId = << >> /\ fileIdUri = << >> /\ uniqueId = << >>  BY DEF Init
<1>3. FileIds = {}  BY <1>1 DEF FileIds
<1>4. DOMAIN << >> = {} /\ << >> \in [{} -> {}]  OBVIOUS
<1>5. << >> \in Partial(Uri, FileIds) /\ << >> \in Partial(Object, FileIds)
  BY <1>3, <1>4, PartialIntro
<1>6. fileIdUri \in [FileIds -> Uri]  BY <1>2, <1>3, <1>4
<1>7. FileMaps  BY <1>1, <1>2, <1>3, <1>4, <1>5, <1>6 DEF FileMaps
<1>8. UniqueIds  BY <1>2, <1>4, <1>5 DEF UniqueIds
<1>9. Current  BY <1>1 DEF Current
<1>10. AllFlags \subseteq Flag  BY DEF AllFlags
<1>11. passes \in 0 .. MaxPasses  BY ContentAssumption DEF Init
<1>12. Rest  BY <1>10, <1>11 DEF Init, Rest
<1> QED  BY <1>7, <1>8, <1>9, <1>12 DEF IInv

\* The steps that leave the maps alone.
LEMMA MapsStay ==
    ASSUME IInv, UNCHANGED <<nextFileId, uriFileId, fileIdUri, uniqueId>>
    PROVE  FileMaps' /\ UniqueIds'
<1>1. FileMaps' /\ KeepsIds  BY NoNewFile DEF IInv
<1> QED  BY <1>1, UniqueIdsStay DEF IInv

LEMMA NextFile ==
    ASSUME IInv, currentFileId < nextFileId, currentFileId' = currentFileId + 1,
           nextFileId' \in Nat, nextFileId <= nextFileId', phase' = "files"
    PROVE  Current'
<1>1. nextFileId \in Nat /\ currentFileId \in 0 .. nextFileId  BY DEF IInv, FileMaps, Current
<1> QED  BY <1>1 DEF Current

LEMMA ObjectStep ==
    ASSUME IInv, NEW o \in Object, NEW ok \in BOOLEAN, ParseObject(o, ok)
    PROVE  IInv'
<1>1. phase = "parsing" /\ o \in remaining  BY DEF ParseObject
<1>2. FileMaps' /\ KeepsIds /\ UniqueIds'
  <2>1. CASE Kind[o] \in libraries
    <3>1. GetUniqueIds(o)  BY <2>1 DEF ParseObject
    <3> QED  BY <1>1, <3>1, GettingUniqueIds DEF IInv
  <2>2. CASE Kind[o] \notin libraries
    <3>1. UNCHANGED <<nextFileId, uriFileId, fileIdUri, uniqueId>>  BY <2>2 DEF ParseObject
    <3> QED  BY <3>1, NoNewFile, UniqueIdsStay DEF IInv
  <2> QED  BY <2>1, <2>2
<1>3. nextFileId \in Nat /\ currentFileId \in 0 .. nextFileId /\ currentFileId < nextFileId
  BY <1>1 DEF IInv, FileMaps, Current
<1>4. nextFileId' \in Nat /\ nextFileId <= nextFileId'  BY <1>2 DEF KeepsIds
<1>5. Current'
  <2>1. CASE ok
    <3>1. currentFileId' = currentFileId /\ remaining' = remaining \ {o} /\ phase' = phase
      BY <2>1 DEF ParseObject
    <3>2. currentFileId \in FileIds  BY <1>3 DEF FileIds
    <3>3. fileIdUri'[currentFileId] = fileIdUri[currentFileId]  BY <1>2, <3>2 DEF KeepsIds
    <3>4. \A p \in remaining' : File[p] = fileIdUri'[currentFileId']
      BY <1>1, <3>1, <3>3 DEF IInv, Current
    <3>5. currentFileId' \in 0 .. nextFileId' /\ currentFileId' < nextFileId'
      BY <1>3, <1>4, <3>1
    <3> QED  BY <3>4, <3>5 DEF Current
  <2>2. CASE ~ ok
    <3>1. currentFileId' = currentFileId + 1 /\ phase' = "files"
      BY <2>2 DEF ParseObject, CloseFile
    <3> QED  BY <1>3, <1>4, <3>1, NextFile
  <2> QED  BY <2>1, <2>2
<1>6. Rest'
  <2>1. stored' \in [Object -> Nat] /\ written' \in [Object -> Nat]
    <3>1. stored \in [Object -> Nat] /\ written \in [Object -> Nat]  BY DEF IInv, Rest
    <3>2. StoredAfter(o) \in Nat  BY <3>1 DEF StoredAfter
    <3>3. \/ stored' = stored
          \/ stored' = [stored EXCEPT ![o] = StoredAfter(o)]
      BY DEF ParseObject
    <3>4. \/ written' = written
          \/ written' = [written EXCEPT ![o] = @ + 1]
      BY DEF ParseObject
    <3>5. stored' \in [Object -> Nat]  BY <3>1, <3>2, <3>3
    <3>6. written' \in [Object -> Nat]  BY <3>1, <3>4
    <3> QED  BY <3>5, <3>6
  <2>2. {abortLoading, result, aborted, interrupted} \subseteq BOOLEAN  BY DEF IInv, Rest
  <2>3. {abortLoading', result', aborted', interrupted'} \subseteq BOOLEAN
    BY <2>2, ContentAssumption DEF ParseObject, CloseFile, Stopped
  <2>4. /\ phase' \in {"idle", "files", "parsing"}
        /\ libraries' \subseteq ObjectKind /\ remaining' \subseteq Object
    BY <1>1 DEF ParseObject, CloseFile, IInv, Rest
  <2> QED  BY <2>1, <2>3, <2>4 DEF ParseObject, IInv, Rest
<1> QED  BY <1>2, <1>5, <1>6 DEF IInv

LEMMA OtherSteps ==
    ASSUME IInv, [Next]_vars, ~ \E o \in Object, ok \in BOOLEAN : ParseObject(o, ok)
    PROVE  IInv'
<1>0. nextFileId \in Nat /\ currentFileId \in 0 .. nextFileId
  BY DEF IInv, FileMaps, Current
<1>1. ASSUME NEW F \in FlagSets, SetObjectFlags(F) PROVE IInv'
  <2>1. FileMaps' /\ UniqueIds'  BY <1>1, MapsStay DEF SetObjectFlags, ids
  <2>2. Current'  BY <1>1 DEF SetObjectFlags, ids, IInv, Current
  <2>3. F \subseteq Flag  BY FlagAssumption
  <2>4. Rest'  BY <1>1, <2>3 DEF SetObjectFlags, history, IInv, Rest
  <2> QED  BY <2>1, <2>2, <2>4 DEF IInv
<1>2. ASSUME NEW u \in Uri, LoadDocument(u) PROVE IInv'
  <2>1. AddFileIdUriPair(u) /\ UNCHANGED uniqueId  BY <1>2 DEF LoadDocument
  <2>2. FileMaps' /\ KeepsIds /\ nextFileId' = nextFileId + 1
    BY <2>1, AddingAFile DEF IInv
  <2>3. UniqueIds'  BY <2>1, <2>2, UniqueIdsStay DEF IInv
  <2>4. currentFileId' \in 0 .. nextFileId' /\ phase' = "files"
    BY <1>0, <1>2, <2>2 DEF LoadDocument
  <2>5. Current'  BY <2>4 DEF Current
  <2>6. passes' \in 0 .. MaxPasses
    BY <1>2, ContentAssumption DEF LoadDocument, IInv, Rest
  <2>7. Rest'  BY <1>2, <2>6 DEF LoadDocument, IInv, Rest
  <2> QED  BY <2>2, <2>3, <2>5, <2>7 DEF IInv
<1>3. ASSUME MoreFiles PROVE fileIdUri[currentFileId] \in Uri
  <2>1. currentFileId \in FileIds  BY <1>0, <1>3 DEF MoreFiles, FileIds
  <2> QED  BY <2>1 DEF IInv, FileMaps
<1>4. CASE RefuseFile
  <2>1. FileMaps' /\ UniqueIds'  BY <1>4, MapsStay DEF RefuseFile
  <2>2. Current'  BY <1>0, <1>4, NextFile DEF RefuseFile, MoreFiles
  <2>3. Rest'  BY <1>3, <1>4 DEF RefuseFile, IInv, Rest
  <2> QED  BY <2>1, <2>2, <2>3 DEF IInv
<1>5. CASE MissFile
  <2>1. FileMaps' /\ UniqueIds'  BY <1>5, MapsStay DEF MissFile
  <2>2. Current'  BY <1>0, <1>5, NextFile DEF MissFile, MoreFiles
  <2>3. Rest'  BY <1>5 DEF MissFile, Stopped, IInv, Rest
  <2> QED  BY <2>1, <2>2, <2>3 DEF IInv
<1>6. CASE OpenFile
  <2>1. FileMaps' /\ UniqueIds'  BY <1>6, MapsStay DEF OpenFile, ids
  <2>2. currentFileId < nextFileId /\ UNCHANGED <<currentFileId, nextFileId, fileIdUri>>
        /\ remaining' = {o \in Object : File[o] = fileIdUri[currentFileId]}
    BY <1>6 DEF OpenFile, MoreFiles, ids
  <2>3. Current'  BY <1>0, <2>2 DEF Current
  <2>4. libraries' \subseteq ObjectKind /\ parsedFlags' \subseteq Flag
    BY <1>6, FunctionMapType, ParsedAfterType DEF OpenFile, IInv, Rest
  <2>5. loaded' \subseteq Uri
    BY <1>3, <1>6 DEF OpenFile, IInv, Rest
  <2>6. Rest'  BY <1>6, <2>4, <2>5 DEF OpenFile, IInv, Rest
  <2> QED  BY <2>1, <2>3, <2>6 DEF IInv
<1>7. ASSUME EndFile \/ StopFile PROVE IInv'
  <2>1. FileMaps' /\ UniqueIds'  BY <1>7, MapsStay DEF EndFile, StopFile
  <2>2. currentFileId < nextFileId /\ currentFileId' = currentFileId + 1
        /\ nextFileId' = nextFileId /\ phase' = "files"
    BY <1>7 DEF EndFile, StopFile, CloseFile, IInv, Current
  <2>3. Current'  BY <1>0, <2>2, NextFile
  <2>4. Rest'
    BY <1>7, ContentAssumption DEF EndFile, StopFile, CloseFile, Stopped, IInv, Rest
  <2> QED  BY <2>1, <2>3, <2>4 DEF IInv
<1>8. CASE Finish
  <2>1. FileMaps' /\ UniqueIds'  BY <1>8, MapsStay DEF Finish, ids
  <2>2. Current'  BY <1>8 DEF Finish, ids, IInv, Current
  <2>3. written' \in [Object -> Nat]
    <3>1. stored \in [Object -> Nat] /\ written \in [Object -> Nat]  BY DEF IInv, Rest
    <3> QED  BY <1>8, <3>1 DEF Finish, PostProcess
  <2>4. Rest'  BY <1>8, <2>3 DEF Finish, history, IInv, Rest
  <2> QED  BY <2>1, <2>2, <2>4 DEF IInv
<1>9. CASE UNCHANGED vars
  <2>1. FileMaps' /\ UniqueIds'  BY <1>9, MapsStay DEF vars, ids
  <2>2. Current'  BY <1>9 DEF vars, ids, IInv, Current
  <2>3. Rest'  BY <1>9 DEF vars, history, IInv, Rest
  <2> QED  BY <2>1, <2>2, <2>3 DEF IInv
<1> QED  BY <1>1, <1>2, <1>4, <1>5, <1>6, <1>7, <1>8, <1>9 DEF Next, LoadStep

LEMMA Invariant == Spec => []IInv
<1>1. IInv /\ [Next]_vars => IInv'  BY ObjectStep, OtherSteps
<1> QED  BY Initially, <1>1, PTL DEF Spec

-----------------------------------------------------------------------------
\* The variables have their types, for any documents, flags and number of passes.
THEOREM TypesAreRight == Spec => []TypeOK
<1>1. IInv => TypeOK
  <2> SUFFICES ASSUME IInv PROVE TypeOK  OBVIOUS
  <2>1. FileIds = 0 .. nextFileId - 1  BY DEF FileIds
  <2>2. /\ nextFileId \in Nat
        /\ IsPartial(uriFileId, Uri, 0 .. nextFileId - 1)
        /\ fileIdUri \in [0 .. nextFileId - 1 -> Uri]
    BY <2>1, PartialElim DEF IInv, FileMaps, IsPartial
  <2>3. IsPartial(uniqueId, Object, 0 .. nextFileId - 1)
    BY <2>1, PartialElim DEF IInv, UniqueIds, IsPartial
  <2>4. /\ currentFileId \in 0 .. nextFileId
        /\ phase = "parsing" => currentFileId < nextFileId
    BY DEF IInv, Current
  <2>5. Rest  BY DEF IInv
  <2> QED  BY <2>2, <2>3, <2>4, <2>5 DEF TypeOK, Rest
<1> QED  BY Invariant, <1>1, PTL

\* Whatever the files contain and however they refer to each other, the file id in the unique id
\* of an object is one of the file that contains the object.
THEOREM FileIdsAlwaysNameFiles == Spec => []FileIdsNameFiles
<1>1. IInv => FileIdsNameFiles  BY DEF IInv, FileMaps, UniqueIds, FileIdsNameFiles
<1> QED  BY Invariant, <1>1, PTL

-----------------------------------------------------------------------------
\* Since the document was given the id s, no file was given a second one, and the files that were
\* parsed are below the current id.
OnceSince(s) ==
    /\ s \in Nat /\ s <= currentFileId
    /\ \A i, j \in s .. nextFileId - 1 : fileIdUri[i] = fileIdUri[j] => i = j
    /\ \A u \in loaded : \E i \in s .. currentFileId :
           (i < currentFileId \/ phase = "parsing") /\ fileIdUri[i] = u

Uninterrupted ==
    /\ ~ abortLoading
    /\ phase = "idle" => currentFileId = nextFileId
    /\ \E s \in Nat : OnceSince(s)

OInv == ~ interrupted => Uninterrupted

\* Steps that at most close the current file, or know of another one.
LEMMA OnceSinceStays ==
    ASSUME IInv, NEW s \in Nat, OnceSince(s), KeepsIds,
           \/ UNCHANGED <<nextFileId, fileIdUri>>
           \/ /\ nextFileId' = nextFileId + 1
              /\ \A i \in FileIds : fileIdUri'[nextFileId] # fileIdUri[i],
           \/ UNCHANGED <<currentFileId, phase>>
           \/ /\ currentFileId' = currentFileId + 1 /\ currentFileId < nextFileId,
           loaded' = loaded
    PROVE  OnceSince(s)'
<1>1. nextFileId \in Nat /\ currentFileId \in 0 .. nextFileId  BY DEF IInv, FileMaps, Current
<1>2. /\ nextFileId' \in Nat /\ nextFileId <= nextFileId'
      /\ \A i \in 0 .. nextFileId - 1 : fileIdUri'[i] = fileIdUri[i]
  BY DEF KeepsIds, FileIds
<1>3. currentFileId' \in Nat /\ currentFileId <= currentFileId'  BY <1>1
<1>4. s <= currentFileId'  BY <1>1, <1>3 DEF OnceSince
<1>5. \A i, j \in s .. nextFileId' - 1 : fileIdUri'[i] = fileIdUri'[j] => i = j
  <2>1. CASE UNCHANGED <<nextFileId, fileIdUri>>  BY <2>1 DEF OnceSince
  <2>2. CASE /\ nextFileId' = nextFileId + 1
             /\ \A i \in FileIds : fileIdUri'[nextFileId] # fileIdUri[i]
    <3> SUFFICES ASSUME NEW i \in s .. nextFileId' - 1, NEW j \in s .. nextFileId' - 1,
                        fileIdUri'[i] = fileIdUri'[j]
                 PROVE  i = j
      OBVIOUS
    <3>1. i \in s .. nextFileId - 1 \/ i = nextFileId  BY <1>1, <2>2
    <3>2. j \in s .. nextFileId - 1 \/ j = nextFileId  BY <1>1, <2>2
    <3>3. \A k \in s .. nextFileId - 1 : k \in FileIds /\ fileIdUri'[k] = fileIdUri[k]
      BY <1>1, <1>2 DEF FileIds
    <3> QED  BY <2>2, <3>1, <3>2, <3>3 DEF OnceSince
  <2> QED  BY <2>1, <2>2
<1>6. \A u \in loaded' : \E i \in s .. currentFileId' :
          (i < currentFileId' \/ phase' = "parsing") /\ fileIdUri'[i] = u
  <2> SUFFICES ASSUME NEW u \in loaded
               PROVE  \E i \in s .. currentFileId' :
                          (i < currentFileId' \/ phase' = "parsing") /\ fileIdUri'[i] = u
    OBVIOUS
  <2>1. PICK i \in s .. currentFileId :
            (i < currentFileId \/ phase = "parsing") /\ fileIdUri[i] = u
    BY DEF OnceSince
  <2>2. i \in 0 .. nextFileId - 1
    <3>1. phase = "parsing" => currentFileId < nextFileId  BY DEF IInv, Current
    <3> QED  BY <1>1, <2>1, <3>1
  <2>3. fileIdUri'[i] = u  BY <1>2, <2>1, <2>2
  <2>4. i \in s .. currentFileId' /\ (i < currentFileId' \/ phase' = "parsing")
    BY <1>1, <1>3, <2>1
  <2> QED  BY <2>3, <2>4
<1> QED  BY <1>4, <1>5, <1>6 DEF OnceSince

\* Files that getUniqueId() gives an id had none.
LEMMA NewFilesAreNew ==
    ASSUME IInv, NEW o \in Object, GetUniqueIds(o)
    PROVE  \/ UNCHANGED <<nextFileId, fileIdUri>>
           \/ /\ nextFileId' = nextFileId + 1
              /\ \A i \in FileIds : fileIdUri'[nextFileId] # fileIdUri[i]
<1>1. CASE UNCHANGED <<nextFileId, uriFileId, fileIdUri>>  BY <1>1
<1>2. CASE ~ UNCHANGED <<nextFileId, uriFileId, fileIdUri>>
  <2>1. PICK u : u \notin DOMAIN uriFileId /\ AddFileIdUriPair(u)
    BY <1>2 DEF GetUniqueIds, GetFileId
  <2>2. fileIdUri'[nextFileId] = u  BY <2>1 DEF AddFileIdUriPair, With
  <2>3. \A i \in FileIds : fileIdUri[i] \in DOMAIN uriFileId  BY DEF IInv, FileMaps
  <2> QED  BY <2>1, <2>2, <2>3 DEF AddFileIdUriPair
<1> QED  BY <1>1, <1>2

\* A step that changes no ids, and at most closes the current file.
LEMMA ClosingStays ==
    ASSUME IInv, Uninterrupted, UNCHANGED <<nextFileId, uriFileId, fileIdUri, loaded>>,
           \/ UNCHANGED <<currentFileId, phase>>
           \/ currentFileId' = currentFileId + 1 /\ currentFileId < nextFileId
    PROVE  \E s \in Nat : OnceSince(s)'
<1>1. PICK s \in Nat : OnceSince(s)  BY DEF Uninterrupted
<1>2. KeepsIds  BY NoNewFile DEF IInv
<1>3. OnceSince(s)'  BY <1>1, <1>2, OnceSinceStays
<1> QED  BY <1>3

LEMMA OnceStep ==
    ASSUME IInv, OInv, [Next]_vars
    PROVE  OInv'
<1> SUFFICES ASSUME ~ interrupted' PROVE Uninterrupted'  BY DEF OInv
<1>0. nextFileId \in Nat /\ currentFileId \in 0 .. nextFileId
  BY DEF IInv, FileMaps, Current
<1>1. ASSUME ~ interrupted PROVE Uninterrupted  BY <1>1 DEF OInv
<1>2. ASSUME NEW F \in FlagSets, SetObjectFlags(F) PROVE Uninterrupted'
  <2>1. Uninterrupted  BY <1>1, <1>2 DEF SetObjectFlags, history
  <2>2. \E s \in Nat : OnceSince(s)'
    BY <1>2, <2>1, ClosingStays DEF SetObjectFlags, ids, history
  <2> QED  BY <1>2, <2>1, <2>2 DEF SetObjectFlags, ids, Uninterrupted
<1>3. ASSUME NEW u \in Uri, LoadDocument(u) PROVE Uninterrupted'
  <2>1. Uninterrupted /\ phase = "idle"  BY <1>1, <1>3 DEF LoadDocument
  <2>2. currentFileId' = nextFileId /\ nextFileId' = nextFileId + 1
    BY <1>3, <2>1 DEF LoadDocument, AddFileIdUriPair, Uninterrupted
  <2>3. PICK s \in Nat : s = nextFileId  BY <1>0
  <2>4. OnceSince(s)'
    <3>1. loaded' = {}  BY <1>3 DEF LoadDocument
    <3>2. s <= currentFileId' /\ (\A i, j \in s .. nextFileId' - 1 : i = j)  BY <2>2, <2>3
    <3> QED  BY <3>1, <3>2 DEF OnceSince
  <2> QED  BY <1>3, <2>4 DEF LoadDocument, Uninterrupted
<1>4. ASSUME RefuseFile \/ EndFile PROVE Uninterrupted'
  <2>1. Uninterrupted  BY <1>1, <1>4 DEF RefuseFile, EndFile, CloseFile, Stopped
  <2>2. /\ currentFileId' = currentFileId + 1 /\ currentFileId < nextFileId
        /\ UNCHANGED <<nextFileId, uriFileId, fileIdUri, loaded>>
        /\ phase' = "files" /\ ~ abortLoading'
    <3>1. CASE RefuseFile  BY <3>1 DEF RefuseFile, MoreFiles
    <3>2. CASE EndFile
      <4>1. currentFileId < nextFileId  BY <3>2 DEF EndFile, IInv, Current
      <4>2. abortLoading' = (FALSE /\ StopIsFailure)  BY <3>2 DEF EndFile, CloseFile
      <4>3. ~ abortLoading'  BY <4>2
      <4> QED  BY <3>2, <4>1, <4>3 DEF EndFile, CloseFile
    <3> QED  BY <1>4, <3>1, <3>2
  <2>3. \E s \in Nat : OnceSince(s)'  BY <2>1, <2>2, ClosingStays
  <2> QED  BY <2>2, <2>3 DEF Uninterrupted
<1>5. ASSUME MissFile \/ StopFile PROVE FALSE
  BY <1>5 DEF MissFile, StopFile, CloseFile, Stopped
<1>6. CASE OpenFile
  <2>1. Uninterrupted  BY <1>1, <1>6 DEF OpenFile
  <2>2. PICK s \in Nat : OnceSince(s)  BY <2>1 DEF Uninterrupted
  <2>3. /\ UNCHANGED <<nextFileId, currentFileId, fileIdUri, abortLoading>> /\ phase' = "parsing"
        /\ loaded' = loaded \union {fileIdUri[currentFileId]}
    BY <1>6 DEF OpenFile, ids
  <2>4. s \in Nat /\ s <= currentFileId' /\ currentFileId \in s .. currentFileId
    BY <1>0, <2>2, <2>3 DEF OnceSince
  <2>5. \A i, j \in s .. nextFileId' - 1 : fileIdUri'[i] = fileIdUri'[j] => i = j
    BY <2>2, <2>3 DEF OnceSince
  <2>6. \A u \in loaded' : \E i \in s .. currentFileId' : fileIdUri'[i] = u
    BY <2>2, <2>3, <2>4 DEF OnceSince
  <2>7. OnceSince(s)'  BY <2>3, <2>4, <2>5, <2>6 DEF OnceSince
  <2> QED  BY <2>1, <2>3, <2>7 DEF Uninterrupted
<1>7. ASSUME NEW o \in Object, NEW ok \in BOOLEAN, ParseObject(o, ok) PROVE Uninterrupted'
  <2>1. ok /\ UNCHANGED <<phase, currentFileId, abortLoading, interrupted, loaded>>
    BY <1>7 DEF ParseObject, CloseFile, Stopped
  <2>2. PICK s \in Nat : OnceSince(s)  BY <1>1, <2>1 DEF Uninterrupted
  <2>3. phase = "parsing" /\ o \in remaining  BY <1>7 DEF ParseObject
  <2>4. KeepsIds /\ (\/ UNCHANGED <<nextFileId, fileIdUri>>
                     \/ /\ nextFileId' = nextFileId + 1
                        /\ \A i \in FileIds : fileIdUri'[nextFileId] # fileIdUri[i])
    <3>1. CASE Kind[o] \in libraries
      <4>1. GetUniqueIds(o)  BY <1>7, <3>1 DEF ParseObject
      <4>2. KeepsIds  BY <2>3, <4>1, GettingUniqueIds DEF IInv
      <4> QED  BY <4>1, <4>2, NewFilesAreNew
    <3>2. CASE Kind[o] \notin libraries
      <4>1. UNCHANGED <<nextFileId, uriFileId, fileIdUri>>  BY <1>7, <3>2 DEF ParseObject
      <4> QED  BY <4>1, NoNewFile DEF IInv
    <3> QED  BY <3>1, <3>2
  <2>5. OnceSince(s)'  BY <2>1, <2>2, <2>4, OnceSinceStays
  <2> QED  BY <1>1, <2>1, <2>3, <2>5 DEF Uninterrupted
<1>8. CASE Finish
  <2>1. Uninterrupted  BY <1>1, <1>8 DEF Finish, history
  <2>2. PICK s \in Nat : OnceSince(s)  BY <2>1 DEF Uninterrupted
  <2>3. /\ phase = "files" /\ phase' = "idle" /\ currentFileId = nextFileId
        /\ UNCHANGED <<nextFileId, currentFileId, fileIdUri, loaded, abortLoading>>
    BY <1>8, <2>1 DEF Finish, ids, history, Uninterrupted
  <2>4. OnceSince(s)'  BY <2>2, <2>3 DEF OnceSince
  <2> QED  BY <2>1, <2>3, <2>4 DEF Uninterrupted
<1>9. CASE UNCHANGED vars
  <2>1. Uninterrupted  BY <1>1, <1>9 DEF vars, history
  <2>2. \E s \in Nat : OnceSince(s)'  BY <1>9, <2>1, ClosingStays DEF vars, ids, history
  <2> QED  BY <1>9, <2>1, <2>2 DEF vars, ids, Uninterrupted
<1> QED  BY <1>2, <1>3, <1>4, <1>5, <1>6, <1>7, <1>8, <1>9 DEF Next, LoadStep

LEMMA OnceInvariant == Spec => []OInv
<1>1. Init => OInv
  <2> SUFFICES ASSUME Init PROVE Uninterrupted  BY DEF OInv
  <2>1. nextFileId = 0 /\ currentFileId = 0 /\ loaded = {} /\ ~ abortLoading  BY DEF Init
  <2>2. OnceSince(0)  BY <2>1 DEF OnceSince
  <2> QED  BY <2>1, <2>2 DEF Uninterrupted
<1>2. IInv /\ OInv /\ [Next]_vars => OInv'  BY OnceStep
<1> QED  BY Invariant, <1>1, <1>2, PTL DEF Spec

LEMMA OpensANewFile ==
    ASSUME IInv, OInv, OpenFile, ~ interrupted
    PROVE  fileIdUri[currentFileId] \notin loaded
<1> SUFFICES ASSUME fileIdUri[currentFileId] \in loaded PROVE FALSE  OBVIOUS
<1>1. nextFileId \in Nat /\ currentFileId \in 0 .. nextFileId
  BY DEF IInv, FileMaps, Current
<1>2. phase = "files" /\ currentFileId < nextFileId  BY DEF OpenFile, MoreFiles
<1>3. PICK s \in Nat : OnceSince(s)  BY DEF OInv, Uninterrupted
<1>4. PICK i \in s .. currentFileId :
          i < currentFileId /\ fileIdUri[i] = fileIdUri[currentFileId]
  BY <1>2, <1>3 DEF OnceSince
<1>5. i \in s .. nextFileId - 1 /\ currentFileId \in s .. nextFileId - 1
  BY <1>1, <1>2, <1>4
<1> QED  BY <1>3, <1>4, <1>5 DEF OnceSince

\* However files refer to each other, loadDocument() opens each of them only once, as long as
\* nothing was stopped.
THEOREM EachFileIsOpenedOnce == Spec => EachFileOnce
<1>1. IInv /\ OInv /\ [Next]_vars
        => [OpenFile /\ ~ interrupted => fileIdUri[currentFileId] \notin loaded]_vars
  BY OpensANewFile
<1> QED  BY Invariant, OnceInvariant, <1>1, PTL DEF Spec, EachFileOnce

-----------------------------------------------------------------------------
\* While a document is loaded nothing of what is stored is written, and stopping ends the loop.
Unwritten == \A o \in Object : Kind[o] \in StoredAlways \union StoredIfAsked => written[o] = 0

Loading == phase # "idle" => Unwritten /\ (aborted => phase = "files" /\ abortLoading)

LEMMA CancelStep ==
    ASSUME StopIsFailure, IInv, Loading, AbortedIsCancelled, [Next]_vars
    PROVE  Loading' /\ AbortedIsCancelled'
<1> USE DEF Loading, AbortedIsCancelled, Unwritten
<1>1. ASSUME NEW F \in FlagSets, SetObjectFlags(F) PROVE Loading' /\ AbortedIsCancelled'
  BY <1>1 DEF SetObjectFlags, history
<1>2. ASSUME NEW u \in Uri, LoadDocument(u) PROVE Loading' /\ AbortedIsCancelled'
  BY <1>2 DEF LoadDocument
<1>3. ASSUME RefuseFile \/ MissFile \/ OpenFile PROVE Loading' /\ AbortedIsCancelled'
  BY <1>3 DEF RefuseFile, MissFile, OpenFile, MoreFiles, Stopped
<1>4. ASSUME EndFile \/ StopFile PROVE Loading' /\ AbortedIsCancelled'
  BY <1>4 DEF EndFile, StopFile, CloseFile, Stopped
<1>5. ASSUME NEW o \in Object, NEW ok \in BOOLEAN, ParseObject(o, ok)
      PROVE  Loading' /\ AbortedIsCancelled'
  <2>1. phase = "parsing" /\ phase' # "idle"  BY <1>5 DEF ParseObject, CloseFile
  <2>2. Unwritten'
    <3>1. Kind[o] \in StoredAlways \union StoredIfAsked => ~ IsWritten(o)
      BY DEF IsWritten, StoredAlways, StoredIfAsked, WrittenAlways, WrittenIfAsked
    <3>2. \/ written' = written
          \/ IsWritten(o) /\ written' = [written EXCEPT ![o] = @ + 1]
      BY <1>5 DEF ParseObject
    <3>3. written \in [Object -> Nat]  BY DEF IInv, Rest
    <3> QED  BY <2>1, <3>1, <3>2, <3>3
  <2>3. aborted' => phase' = "files" /\ abortLoading'
    BY <1>5, <2>1 DEF ParseObject, CloseFile, Stopped
  <2> QED  BY <2>1, <2>2, <2>3
<1>6. CASE Finish
  <2>1. phase = "files" /\ phase' = "idle" /\ aborted' = aborted
    BY <1>6 DEF Finish, history
  <2>2. aborted => ~ result' /\ writer' = "cancel" /\ written' = written
    BY <1>6, <2>1 DEF Finish
  <2> QED  BY <2>1, <2>2
<1>7. CASE UNCHANGED vars  BY <1>7 DEF vars, history
<1> QED  BY <1>1, <1>2, <1>3, <1>4, <1>5, <1>6, <1>7 DEF Next, LoadStep

\* With an XML parser that reports that it was stopped, loading that was aborted has failed, for
\* the client and for the writer, which is given nothing of what was stored.
THEOREM AbortedIsAlwaysCancelled ==
    ASSUME StopIsFailure
    PROVE  Spec => []AbortedIsCancelled
<1>1. Init => Loading /\ AbortedIsCancelled  BY DEF Init, Loading, AbortedIsCancelled
<1>2. IInv /\ Loading /\ AbortedIsCancelled /\ [Next]_vars => Loading' /\ AbortedIsCancelled'
  BY CancelStep
<1> QED  BY Invariant, <1>1, <1>2, PTL DEF Spec

-----------------------------------------------------------------------------
\* Objects of these kinds are written in the end, the others when they are parsed.
KindsStored == StoredAlways \union StoredIfAsked

LEMMA KindsDiffer ==
    \A k \in ObjectKind : k \in KindsStored <=> k \notin WrittenAlways \union WrittenIfAsked
BY DEF KindsStored, ObjectKind, StoredAlways, StoredIfAsked, WrittenAlways, WrittenIfAsked

\* The element of o was parsed in this pass.
Seen(o) == File[o] \in loaded /\ ~ (phase = "parsing" /\ o \in remaining)

\* In the first pass, with all flags and as long as nothing was stopped: what was seen is stored or
\* written, once.
KeptOnce(o) ==
    /\ stored[o] = IF Seen(o) /\ Kind[o] \in KindsStored THEN 1 ELSE 0
    /\ written[o] = IF Seen(o) /\ Kind[o] \notin KindsStored THEN 1 ELSE 0

\* The files that are referred to have an id, and those with an id are loaded in their order.
ReferencesKnown ==
    \A o \in Object : Seen(o) /\ Reference[o] \in Object => File[Reference[o]] \in DOMAIN uriFileId
GoneThrough ==
    /\ \A i \in FileIds : i < currentFileId => fileIdUri[i] \in loaded \union refused
    /\ phase = "parsing" => fileIdUri[currentFileId] \in loaded

FirstPass ==
    /\ phase = "parsing" => libraries = ObjectKind
    /\ \A o \in Object : KeptOnce(o)
    /\ ReferencesKnown /\ GoneThrough

Untouched ==
    /\ phase = "idle" /\ currentFileId = 0 /\ nextFileId = 0 /\ ~ interrupted
    /\ stored = [o \in Object |-> 0]

CInv ==
    /\ passes = 0 => Untouched
    /\ passes = 1 /\ ~ aborted => ~ interrupted
    /\ passes = 1 /\ phase # "idle" /\ objectFlags = AllFlags /\ ~ aborted => FirstPass

\* What getUniqueId() was asked for by a reference is in a file with an id.
LEMMA ReferenceIsKnown ==
    ASSUME IInv, NEW o \in Object, GetUniqueIds(o), Reference[o] \in Object, phase = "parsing",
           o \in remaining
    PROVE  File[Reference[o]] \in DOMAIN uriFileId'
<1> DEFINE r == Reference[o]
<1>1. FileMaps' /\ KeepsIds /\ UniqueIds'  BY GettingUniqueIds DEF IInv
<1>2. r \in Identified(o)  BY ContentAssumption DEF Identified
<1>3. r \in DOMAIN uniqueId'  BY <1>2 DEF GetUniqueIds
<1>4. DOMAIN uniqueId' \in SUBSET Object /\ uniqueId' \in [DOMAIN uniqueId' -> FileIds']
  <2>1. uniqueId' \in Partial(Object, FileIds')  BY <1>1 DEF UniqueIds
  <2> QED  BY <2>1, PartialElim
<1>5. fileIdUri'[uniqueId'[r]] = File[r]  BY <1>1, <1>3 DEF UniqueIds
<1>6. uniqueId'[r] \in FileIds'  BY <1>3, <1>4
<1> QED  BY <1>1, <1>5, <1>6 DEF FileMaps

\* An object of the first pass with all flags
LEMMA FirstPassObject ==
    ASSUME IInv, FirstPass, objectFlags = AllFlags, NEW o \in Object, ParseObject(o, TRUE)
    PROVE  FirstPass'
<1>1. phase = "parsing" /\ o \in remaining /\ libraries = ObjectKind  BY DEF ParseObject, FirstPass
<1>2. /\ GetUniqueIds(o) /\ phase' = phase /\ libraries' = libraries /\ loaded' = loaded
      /\ refused' = refused /\ currentFileId' = currentFileId /\ remaining' = remaining \ {o}
      /\ stored' = IF IsStored(o) THEN [stored EXCEPT ![o] = StoredAfter(o)] ELSE stored
      /\ written' = IF IsWritten(o) THEN [written EXCEPT ![o] = @ + 1] ELSE written
  BY <1>1, ContentAssumption DEF ParseObject
<1>3. KeepsIds  BY <1>1, <1>2, GettingUniqueIds DEF IInv
<1>4. File[o] = fileIdUri[currentFileId] /\ File[o] \in loaded
  BY <1>1 DEF IInv, Current, FirstPass, GoneThrough
<1>5. ~ Seen(o) /\ Seen(o)' /\ \A p \in Object \ {o} : Seen(p)' <=> Seen(p)
  BY <1>1, <1>2, <1>4 DEF Seen
<1>6. \A p \in Object : KeptOnce(p)'
  <2>1. /\ IsStored(o) <=> Kind[o] \in KindsStored
        /\ IsWritten(o) <=> Kind[o] \notin KindsStored
    <3>1. Kind[o] \in ObjectKind  BY ContentAssumption
    <3>2. Kind[o] \in AllFlags  BY <3>1 DEF AllFlags, Flag
    <3> QED  BY <3>1, <3>2, KindsDiffer DEF IsStored, IsWritten, KindsStored
  <2>2. stored \in [Object -> Nat] /\ written \in [Object -> Nat]  BY DEF IInv, Rest
  <2>3. stored[o] = 0 /\ written[o] = 0  BY <1>5 DEF FirstPass, KeptOnce
  <2>4. StoredAfter(o) = 1  BY <2>3 DEF StoredAfter
  <2>5. KeptOnce(o)'
    <3>1. CASE Kind[o] \in KindsStored
      <4>1. stored'[o] = 1 /\ written'[o] = 0  BY <1>2, <2>1, <2>2, <2>3, <2>4, <3>1
      <4> QED  BY <1>5, <3>1, <4>1 DEF KeptOnce
    <3>2. CASE Kind[o] \notin KindsStored
      <4>1. stored'[o] = 0 /\ written'[o] = 1  BY <1>2, <2>1, <2>2, <2>3, <3>2
      <4> QED  BY <1>5, <3>2, <4>1 DEF KeptOnce
    <3> QED  BY <3>1, <3>2
  <2>6. ASSUME NEW p \in Object \ {o} PROVE KeptOnce(p)'
    <3>1. stored'[p] = stored[p] /\ written'[p] = written[p]  BY <1>2, <2>2
    <3> QED  BY <1>5, <3>1 DEF FirstPass, KeptOnce
  <2> QED  BY <2>5, <2>6
<1>7. ReferencesKnown'
  <2> SUFFICES ASSUME NEW p \in Object, Seen(p)', Reference[p] \in Object
               PROVE  File[Reference[p]] \in DOMAIN uriFileId'
    BY DEF ReferencesKnown
  <2>1. CASE p = o  BY <1>1, <1>2, <2>1, ReferenceIsKnown
  <2>2. CASE p # o  BY <1>3, <1>5, <2>2 DEF FirstPass, ReferencesKnown, KeepsIds
  <2> QED  BY <2>1, <2>2
<1>8. GoneThrough'
  <2>1. nextFileId \in Nat /\ currentFileId \in 0 .. nextFileId /\ currentFileId < nextFileId
    BY <1>1 DEF IInv, FileMaps, Current
  <2>2. currentFileId \in FileIds /\ (\A i \in FileIds' : i < currentFileId => i \in FileIds)
    BY <2>1 DEF FileIds
  <2> QED  BY <1>1, <1>2, <1>3, <2>2 DEF FirstPass, GoneThrough, KeepsIds
<1> QED  BY <1>1, <1>2, <1>6, <1>7, <1>8 DEF FirstPass

LEMMA CompleteStep ==
    ASSUME IInv, OInv, CInv, [Next]_vars
    PROVE  CInv'
<1>0. /\ nextFileId \in Nat /\ currentFileId \in 0 .. nextFileId /\ passes \in Nat
      /\ passes = 0 => phase = "idle"
      /\ passes = 1 /\ ~ aborted => ~ interrupted
  BY ContentAssumption DEF IInv, FileMaps, Current, Rest, CInv, Untouched
<1>1. ASSUME NEW F \in FlagSets, SetObjectFlags(F) PROVE CInv'
  BY <1>1 DEF SetObjectFlags, ids, history, CInv, Untouched
<1>2. ASSUME NEW u \in Uri, LoadDocument(u) PROVE CInv'
  <2>1. passes' = passes + 1 /\ passes' # 0  BY <1>0, <1>2 DEF LoadDocument
  <2>2. SUFFICES ASSUME passes = 0 PROVE ~ interrupted' /\ FirstPass'
    BY <1>0, <2>1 DEF CInv
  <2>3. Untouched  BY <2>2 DEF CInv
  <2>4. /\ loaded' = {} /\ phase' = "files" /\ currentFileId' = 0 /\ ~ interrupted'
        /\ stored' = [o \in Object |-> 0] /\ written' = [o \in Object |-> 0]
    BY <1>2, <2>3 DEF LoadDocument, Untouched
  <2>5. \A o \in Object : ~ Seen(o)'  BY <2>4 DEF Seen
  <2>6. \A o \in Object : KeptOnce(o)'  BY <2>4, <2>5 DEF KeptOnce
  <2>7. GoneThrough'
    <3>1. nextFileId' = 1  BY <1>2, <2>3 DEF LoadDocument, AddFileIdUriPair, Untouched
    <3>2. \A i \in FileIds' : ~ (i < 0)  BY <3>1 DEF FileIds
    <3> QED  BY <2>4, <3>2 DEF GoneThrough
  <2> QED  BY <2>4, <2>5, <2>6, <2>7 DEF FirstPass, ReferencesKnown
<1>3. CASE RefuseFile
  <2>1. /\ phase = "files" /\ phase' = "files" /\ currentFileId < nextFileId
        /\ UNCHANGED <<passes, objectFlags, aborted, interrupted, stored, written, loaded, uriFileId,
                       nextFileId, fileIdUri>>
        /\ refused' = refused \union {fileIdUri[currentFileId]}
        /\ currentFileId' = currentFileId + 1
    BY <1>3 DEF RefuseFile, MoreFiles
  <2>2. ASSUME FirstPass PROVE FirstPass'
    <3>1. \A o \in Object : Seen(o)' <=> Seen(o)  BY <2>1 DEF Seen
    <3>2. FileIds' = FileIds  BY <2>1 DEF FileIds
    <3>3. \A i \in FileIds : i < currentFileId + 1 => i < currentFileId \/ i = currentFileId
      BY <1>0 DEF FileIds
    <3>4. GoneThrough'  BY <2>1, <2>2, <3>2, <3>3 DEF FirstPass, GoneThrough
    <3>5. \A o \in Object : KeptOnce(o)'  BY <2>1, <2>2, <3>1 DEF FirstPass, KeptOnce
    <3>6. ReferencesKnown'  BY <2>1, <2>2, <3>1 DEF FirstPass, ReferencesKnown
    <3> QED  BY <2>1, <3>4, <3>5, <3>6 DEF FirstPass
  <2> QED  BY <1>0, <2>1, <2>2 DEF CInv
<1>4. ASSUME MissFile \/ StopFile PROVE CInv'
  <2>1. aborted' /\ phase # "idle" /\ passes' = passes
    BY <1>4 DEF MissFile, MoreFiles, StopFile, CloseFile, Stopped
  <2> QED  BY <1>0, <2>1 DEF CInv
<1>5. CASE OpenFile
  <2>1. /\ phase = "files" /\ phase' = "parsing" /\ currentFileId < nextFileId
        /\ UNCHANGED <<passes, objectFlags, aborted, interrupted, stored, written, refused, uriFileId,
                       nextFileId, fileIdUri, currentFileId>>
        /\ loaded' = loaded \union {fileIdUri[currentFileId]}
        /\ remaining' = {o \in Object : File[o] = fileIdUri[currentFileId]}
        /\ libraries' = FunctionMap(objectFlags, parsedFlags)
    BY <1>5 DEF OpenFile, MoreFiles, ids
  <2>2. ASSUME FirstPass, objectFlags = AllFlags, ~ interrupted PROVE FirstPass'
    <3>1. fileIdUri[currentFileId] \notin loaded  BY <1>5, <2>2, OpensANewFile
    <3>2. \A o \in Object : Seen(o)' <=> Seen(o)  BY <2>1, <3>1 DEF Seen
    <3>3. FileIds' = FileIds  BY <2>1 DEF FileIds
    <3>4. GoneThrough'  BY <2>1, <2>2, <3>3 DEF FirstPass, GoneThrough
    <3>5. \A o \in Object : KeptOnce(o)'  BY <2>1, <2>2, <3>2 DEF FirstPass, KeptOnce
    <3>6. ReferencesKnown'  BY <2>1, <2>2, <3>2 DEF FirstPass, ReferencesKnown
    <3>7. libraries' = ObjectKind  BY <2>1, <2>2 DEF FunctionMap
    <3> QED  BY <3>4, <3>5, <3>6, <3>7 DEF FirstPass
  <2> QED  BY <1>0, <2>1, <2>2 DEF CInv
<1>6. CASE EndFile
  <2>1. /\ phase = "parsing" /\ remaining = {} /\ phase' = "files" /\ remaining' = {}
        /\ UNCHANGED <<passes, objectFlags, stored, written, loaded, refused, uriFileId, nextFileId,
                       fileIdUri>>
        /\ currentFileId' = currentFileId + 1
    BY <1>6 DEF EndFile, CloseFile
  <2>2. (aborted' <=> aborted) /\ (interrupted' <=> interrupted)
    <3>1. aborted \in BOOLEAN /\ interrupted \in BOOLEAN  BY DEF IInv, Rest
    <3> QED  BY <1>6, <3>1 DEF EndFile, CloseFile, Stopped
  <2>3. ASSUME FirstPass PROVE FirstPass'
    <3>1. \A o \in Object : Seen(o)' <=> Seen(o)  BY <2>1 DEF Seen
    <3>2. FileIds' = FileIds  BY <2>1 DEF FileIds
    <3>3. \A i \in FileIds : i < currentFileId + 1 => i < currentFileId \/ i = currentFileId
      BY <1>0 DEF FileIds
    <3>4. GoneThrough'  BY <2>1, <2>3, <3>2, <3>3 DEF FirstPass, GoneThrough
    <3>5. \A o \in Object : KeptOnce(o)'  BY <2>1, <2>3, <3>1 DEF FirstPass, KeptOnce
    <3>6. ReferencesKnown'  BY <2>1, <2>3, <3>1 DEF FirstPass, ReferencesKnown
    <3> QED  BY <2>1, <3>4, <3>5, <3>6 DEF FirstPass
  <2> QED  BY <1>0, <2>1, <2>2, <2>3 DEF CInv
<1>7. ASSUME NEW o \in Object, NEW ok \in BOOLEAN, ParseObject(o, ok) PROVE CInv'
  <2>1. phase = "parsing" /\ UNCHANGED <<passes, objectFlags>>  BY <1>7 DEF ParseObject
  <2>2. CASE ok
    <3>1. UNCHANGED <<phase, aborted, interrupted>>  BY <1>7, <2>2 DEF ParseObject
    <3>2. ParseObject(o, TRUE)  BY <1>7, <2>2
    <3>3. FirstPass /\ objectFlags = AllFlags => FirstPass'  BY <3>2, FirstPassObject
    <3> QED  BY <1>0, <2>1, <3>1, <3>3 DEF CInv
  <2>3. CASE ~ ok
    <3>1. aborted'  BY <1>7, <2>3 DEF ParseObject, CloseFile, Stopped
    <3> QED  BY <1>0, <2>1, <3>1 DEF CInv
  <2> QED  BY <2>2, <2>3
<1>8. CASE Finish
  <2>1. phase = "files" /\ phase' = "idle" /\ UNCHANGED <<passes, aborted, interrupted>>
    BY <1>8 DEF Finish, history
  <2> QED  BY <1>0, <2>1 DEF CInv
<1>9. CASE UNCHANGED vars
  BY <1>9 DEF vars, ids, history, CInv, Untouched, FirstPass, KeptOnce, Seen, ReferencesKnown,
              GoneThrough, FileIds
<1> QED  BY <1>1, <1>2, <1>3, <1>4, <1>5, <1>6, <1>7, <1>8, <1>9 DEF Next, LoadStep

\* However objects are divided among files, in whatever order they come in them, and however the
\* files refer to each other: with all flags everything is written, once.
THEOREM LoadIsComplete == Spec => CompleteLoad
<1>1. Init => CInv
  <2> SUFFICES ASSUME Init PROVE CInv  OBVIOUS
  <2>1. passes = 0 /\ Untouched  BY DEF Init, Untouched
  <2> QED  BY <2>1 DEF CInv
<1>2. IInv /\ OInv /\ CInv /\ [Next]_vars => CInv'  BY CompleteStep
<1>3. ASSUME IInv, CInv, Finish, passes = 1, objectFlags = AllFlags, result', ~ aborted
      PROVE  /\ \A o \in Object : written'[o] = (IF File[o] \in loaded THEN 1 ELSE 0)
             /\ \A o \in Object : File[o] \in loaded /\ Reference[o] \in Object =>
                    File[Reference[o]] \in loaded \union refused
  <2>1. phase = "files" /\ ~ abortLoading /\ currentFileId = nextFileId /\ PostProcess
    BY <1>3 DEF Finish
  <2>2. FirstPass  BY <1>3, <2>1 DEF CInv
  <2>3. \A o \in Object : Seen(o) <=> File[o] \in loaded  BY <2>1 DEF Seen
  <2>4. ASSUME NEW o \in Object PROVE written'[o] = (IF File[o] \in loaded THEN 1 ELSE 0)
    <3>1. Kind[o] \in ObjectKind /\ Kind[o] \in AllFlags
      BY ContentAssumption DEF AllFlags, Flag
    <3>2. written'[o] = IF Kind[o] \in KindsStored THEN written[o] + stored[o] ELSE written[o]
      BY <1>3, <2>1, <3>1 DEF PostProcess, KindsStored
    <3>3. KeptOnce(o)  BY <2>2 DEF FirstPass
    <3>4. CASE Kind[o] \in KindsStored
      <4>1. written[o] = 0 /\ stored[o] = IF File[o] \in loaded THEN 1 ELSE 0
        BY <2>3, <3>3, <3>4 DEF KeptOnce
      <4> QED  BY <3>2, <3>4, <4>1
    <3>5. CASE Kind[o] \notin KindsStored
      BY <2>3, <3>2, <3>3, <3>5 DEF KeptOnce
    <3> QED  BY <3>4, <3>5
  <2>5. ASSUME NEW o \in Object, File[o] \in loaded, Reference[o] \in Object
        PROVE  File[Reference[o]] \in loaded \union refused
    <3>1. File[Reference[o]] \in DOMAIN uriFileId
      BY <2>2, <2>3, <2>5 DEF FirstPass, ReferencesKnown
    <3>2. PICK u : u = File[Reference[o]]  OBVIOUS
    <3>3. uriFileId[u] \in FileIds /\ fileIdUri[uriFileId[u]] = u
      <4>1. uriFileId \in [DOMAIN uriFileId -> FileIds]
        BY <1>3, PartialElim DEF IInv, FileMaps
      <4> QED  BY <1>3, <3>1, <3>2, <4>1 DEF IInv, FileMaps
    <3>4. uriFileId[u] < currentFileId
      BY <1>3, <2>1, <3>3 DEF FileIds, IInv, FileMaps
    <3> QED  BY <2>2, <3>2, <3>3, <3>4 DEF FirstPass, GoneThrough
  <2> QED  BY <2>4, <2>5
<1>4. IInv /\ CInv /\ [Next]_vars =>
        [Finish /\ passes = 1 /\ objectFlags = AllFlags /\ result' /\ ~ aborted =>
            /\ \A o \in Object : written'[o] = (IF File[o] \in loaded THEN 1 ELSE 0)
            /\ \A o \in Object : File[o] \in loaded /\ Reference[o] \in Object =>
                   File[Reference[o]] \in loaded \union refused]_vars
  BY <1>3
<1> QED  BY Invariant, OnceInvariant, <1>1, <1>2, <1>4, PTL DEF Spec, CompleteLoad

-----------------------------------------------------------------------------
\* Several passes over one file.  An object is in the Loader or written, or it is still to come in a
\* library that is parsed.
Has(o) == IF Kind[o] \in KindsStored THEN stored[o] > 0 ELSE written[o] > 0
Pending(o) == phase = "parsing" /\ o \in remaining /\ Kind[o] \in libraries
HasOrComes(u, kinds) == \A o \in Object : File[o] = u /\ Kind[o] \in kinds => Has(o) \/ Pending(o)

Asked == objectFlags \ {"FORMULA"}
OnlyFile(u) == DOMAIN uriFileId \subseteq {u} /\ u \notin refused

\* What is left out of the function map because it was parsed is there, and from when the file
\* is opened, so is what was asked for.
FileInv(u) ==
    /\ HasOrComes(u, ParsedOnce \intersect parsedFlags)
    /\ phase = "parsing" \/ (phase = "files" /\ currentFileId = nextFileId) => HasOrComes(u, Asked)

SInv == ~ interrupted => \A u \in Uri : OnlyFile(u) => FileInv(u)

LEMMA NeedsItself == \A k \in ObjectKind \ {"FORMULA"} : k \in Needs(k)
<1> SUFFICES ASSUME NEW k \in ObjectKind \ {"FORMULA"} PROVE k \in Needs(k)  OBVIOUS
<1>1. k \notin {"ANIMATION_LIST", "CONTROLLER", "KINEMATICS", "ASSET", "FORMULA"}
  BY DEF ObjectKind, StoredAlways, StoredIfAsked, WrittenAlways, WrittenIfAsked
<1>2. CASE k \in {"VISUAL_SCENES", "LIBRARY_NODES", "EFFECT"}  BY <1>2 DEF Needs
<1>3. CASE k \notin {"VISUAL_SCENES", "LIBRARY_NODES", "EFFECT"}  BY <1>1, <1>3 DEF Needs
<1> QED  BY <1>2, <1>3

LEMMA ParsedOnceAreStored == ParsedOnce \subseteq KindsStored \ {"FORMULA"}
BY DEF ParsedOnce, KindsStored, StoredAlways

\* What is asked for is parsed, or was parsed before.
LEMMA AskedAreParsed ==
    ASSUME NEW k \in ObjectKind \ {"FORMULA"}, k \in objectFlags
    PROVE  k \in FunctionMap(objectFlags, parsedFlags) \/ k \in ParsedOnce \intersect parsedFlags
<1> SUFFICES ASSUME k \notin ParsedOnce \intersect parsedFlags
             PROVE  k \in FunctionMap(objectFlags, parsedFlags)
  OBVIOUS
<1>1. k \in Required(objectFlags, parsedFlags)  BY NeedsItself DEF Required
<1> QED  BY <1>1 DEF FunctionMap

\* What counts as parsed from now on is parsed, or was before.
LEMMA MarkedAreParsed ==
    ASSUME NEW k \in ParsedOnce, k \in ParsedAfter(objectFlags, parsedFlags)
    PROVE  k \in parsedFlags \/ k \in FunctionMap(objectFlags, parsedFlags)
<1>1. k \in ObjectKind \ {"FORMULA"}  BY DEF ParsedOnce, ObjectKind, StoredAlways
<1> SUFFICES ASSUME k \notin parsedFlags, objectFlags # AllFlags
             PROVE  k \in Required(objectFlags, parsedFlags)
  BY <1>1 DEF FunctionMap
<1>2. CASE k \in objectFlags  BY <1>1, <1>2, NeedsItself DEF Required
<1>3. CASE "ANIMATION_LIST" \in objectFlags
  <2>1. k \in Needs("ANIMATION_LIST")  BY DEF Needs, ParsedOnce
  <2>2. "ANIMATION_LIST" \notin ParsedOnce  BY DEF ParsedOnce
  <2> QED  BY <1>3, <2>1, <2>2 DEF Required
<1>4. CASE "CONTROLLER" \in objectFlags /\ k \in {"VISUAL_SCENES", "LIBRARY_NODES"}
  <2>1. k \in Needs("CONTROLLER")  BY <1>4 DEF Needs
  <2>2. "CONTROLLER" \notin ParsedOnce  BY DEF ParsedOnce
  <2> QED  BY <1>4, <2>1, <2>2 DEF Required
<1> QED  BY <1>2, <1>3, <1>4 DEF ParsedAfter


LEMMA ObjectIsThere ==
    ASSUME IInv, NEW o \in Object, ParseObject(o, TRUE), NEW u, NEW kinds, HasOrComes(u, kinds),
           kinds \subseteq objectFlags \union ParsedOnce
    PROVE  \A p \in Object : File[p] = u /\ Kind[p] \in kinds => Has(p)' \/ Pending(p)'
<1>1. /\ phase = "parsing" /\ phase' = phase /\ libraries' = libraries
      /\ remaining' = remaining \ {o}
  BY ContentAssumption DEF ParseObject
<1>2. stored \in [Object -> Nat] /\ written \in [Object -> Nat]  BY DEF IInv, Rest
<1>3. /\ \/ stored' = stored
         \/ stored' = [stored EXCEPT ![o] = StoredAfter(o)]
      /\ \/ written' = written
         \/ written' = [written EXCEPT ![o] = @ + 1]
  BY DEF ParseObject
<1>4. StoredAfter(o) \in Nat /\ StoredAfter(o) > 0  BY <1>2 DEF StoredAfter
<1>5. \A p \in Object : Has(p) => Has(p)'
  <2> SUFFICES ASSUME NEW p \in Object PROVE Has(p) => Has(p)'  OBVIOUS
  <2>1. stored[p] > 0 => stored'[p] > 0  BY <1>2, <1>3, <1>4
  <2>2. written[p] > 0 => written'[p] > 0  BY <1>2, <1>3
  <2> QED  BY <2>1, <2>2 DEF Has
<1> SUFFICES ASSUME NEW p \in Object, File[p] = u, Kind[p] \in kinds
             PROVE  Has(p)' \/ Pending(p)'
  OBVIOUS
<1>6. CASE Has(p) \/ p # o  BY <1>1, <1>5, <1>6 DEF HasOrComes, Pending
<1>7. CASE p = o /\ Pending(p)
  <2>1. Kind[o] \in libraries /\ Kind[o] \in ObjectKind /\ Kind[o] \in objectFlags \union ParsedOnce
    BY <1>7, ContentAssumption DEF Pending
  <2>2. CASE Kind[o] \in KindsStored
    <3>1. IsStored(o)
      BY <2>1, <2>2 DEF IsStored, KindsStored, ParsedOnce, StoredAlways
    <3>2. stored' = [stored EXCEPT ![o] = StoredAfter(o)]  BY <2>1, <3>1 DEF ParseObject
    <3>3. stored'[o] > 0  BY <1>2, <1>4, <3>2
    <3> QED  BY <1>7, <2>2, <3>3 DEF Has
  <2>3. CASE Kind[o] \notin KindsStored
    <3>1. IsWritten(o)
      BY <2>1, <2>3, KindsDiffer, ParsedOnceAreStored DEF IsWritten
    <3>2. written' = [written EXCEPT ![o] = @ + 1]  BY <2>1, <3>1 DEF ParseObject
    <3>3. written'[o] > 0  BY <1>2, <3>2
    <3> QED  BY <1>7, <2>3, <3>3 DEF Has
  <2> QED  BY <2>2, <2>3
<1> QED  BY <1>6, <1>7 DEF HasOrComes

LEMMA PassStep ==
    ASSUME IInv, OInv, SInv, [Next]_vars, ~ interrupted', NEW u \in Uri, OnlyFile(u)'
    PROVE  FileInv(u)'
<1>0. nextFileId \in Nat /\ currentFileId \in 0 .. nextFileId /\ interrupted \in BOOLEAN
  BY DEF IInv, FileMaps, Current, Rest
<1>1. \A i \in FileIds : fileIdUri[i] \in DOMAIN uriFileId  BY DEF IInv, FileMaps
<1>2. ASSUME NEW F \in FlagSets, SetObjectFlags(F) PROVE FileInv(u)'
  <2>1. phase' = "idle" /\ phase = "idle"
        /\ UNCHANGED <<interrupted, refused, uriFileId, parsedFlags, stored, written>>
    BY <1>2 DEF SetObjectFlags, ids, history
  <2>2. FileInv(u)  BY <2>1 DEF SInv, OnlyFile
  <2>3. \A o \in Object : Has(o)' <=> Has(o)  BY <2>1 DEF Has
  <2>4. \A o \in Object : ~ Pending(o)  BY <2>1 DEF Pending
  <2> QED  BY <2>1, <2>2, <2>3, <2>4 DEF FileInv, HasOrComes
<1>3. ASSUME NEW v \in Uri, LoadDocument(v) PROVE FileInv(u)'
  <2>1. phase' = "files" /\ phase = "idle" /\ AddFileIdUriPair(v)
        /\ UNCHANGED <<interrupted, refused, parsedFlags, stored, currentFileId>>
    BY <1>3 DEF LoadDocument
  <2>2. DOMAIN uriFileId \subseteq DOMAIN uriFileId' /\ nextFileId' = nextFileId + 1
    BY <2>1, AddingAFile DEF IInv, KeepsIds
  <2>3. FileInv(u)  BY <2>1, <2>2 DEF SInv, OnlyFile
  <2>4. \A o \in Object : Kind[o] \in ParsedOnce => (Has(o)' <=> Has(o))
    BY <2>1, ParsedOnceAreStored DEF Has
  <2>5. \A o \in Object : ~ Pending(o)  BY <2>1 DEF Pending
  <2>6. currentFileId' # nextFileId'
    <3>1. currentFileId = nextFileId  BY <2>1 DEF OInv, Uninterrupted
    <3> QED  BY <1>0, <2>1, <2>2, <3>1
  <2> QED  BY <2>1, <2>3, <2>4, <2>5, <2>6 DEF FileInv, HasOrComes
<1>4. CASE RefuseFile
  <2>1. currentFileId < nextFileId /\ UNCHANGED uriFileId
        /\ refused' = refused \union {fileIdUri[currentFileId]}
    BY <1>4 DEF RefuseFile, MoreFiles
  <2>2. fileIdUri[currentFileId] \in DOMAIN uriFileId  BY <1>0, <1>1, <2>1 DEF FileIds
  <2> QED  BY <2>1, <2>2 DEF OnlyFile
<1>5. ASSUME MissFile \/ StopFile PROVE FALSE
  BY <1>5 DEF MissFile, StopFile, CloseFile, Stopped
<1>6. CASE OpenFile
  <2>1. /\ phase = "files" /\ phase' = "parsing" /\ currentFileId < nextFileId
        /\ UNCHANGED <<interrupted, objectFlags, stored, written, refused, uriFileId>>
        /\ remaining' = {o \in Object : File[o] = fileIdUri[currentFileId]}
        /\ libraries' = FunctionMap(objectFlags, parsedFlags)
        /\ parsedFlags' = ParsedAfter(objectFlags, parsedFlags)
    BY <1>6 DEF OpenFile, MoreFiles, ids
  <2>2. FileInv(u)  BY <2>1 DEF SInv, OnlyFile
  <2>3. fileIdUri[currentFileId] = u
    <3>1. fileIdUri[currentFileId] \in DOMAIN uriFileId  BY <1>0, <1>1, <2>1 DEF FileIds
    <3> QED  BY <2>1, <3>1 DEF OnlyFile
  <2>4. \A o \in Object : (Has(o)' <=> Has(o)) /\ ~ Pending(o)  BY <2>1 DEF Has, Pending
  <2>5. \A o \in Object : File[o] = u /\ Kind[o] \in libraries' => Pending(o)'
    BY <2>1, <2>3 DEF Pending
  <2>6. \A o \in Object : File[o] = u /\ Kind[o] \in ParsedOnce \intersect parsedFlags => Has(o)'
    BY <2>2, <2>4 DEF FileInv, HasOrComes
  <2>7. HasOrComes(u, ParsedOnce \intersect parsedFlags)'
    BY <2>1, <2>5, <2>6, MarkedAreParsed DEF HasOrComes
  <2>8. HasOrComes(u, Asked)'
    <3> SUFFICES ASSUME NEW o \in Object, File[o] = u, Kind[o] \in objectFlags \ {"FORMULA"}
                 PROVE  Has(o)' \/ Pending(o)'
      BY <2>1 DEF HasOrComes, Asked
    <3>1. Kind[o] \in ObjectKind \ {"FORMULA"}  BY ContentAssumption
    <3>2. Kind[o] \in libraries' \/ Kind[o] \in ParsedOnce \intersect parsedFlags
      BY <2>1, <3>1, AskedAreParsed
    <3> QED  BY <2>5, <2>6, <3>2
  <2> QED  BY <2>7, <2>8 DEF FileInv
<1>7. CASE EndFile
  <2>1. /\ phase = "parsing" /\ remaining = {} /\ phase' = "files"
        /\ UNCHANGED <<objectFlags, parsedFlags, stored, written, refused, uriFileId>>
    BY <1>7 DEF EndFile, CloseFile
  <2>2. ~ interrupted  BY <1>7 DEF EndFile, CloseFile, Stopped
  <2>3. FileInv(u)  BY <2>1, <2>2 DEF SInv, OnlyFile
  <2>4. \A o \in Object : (Has(o)' <=> Has(o)) /\ ~ Pending(o)  BY <2>1 DEF Has, Pending
  <2>5. HasOrComes(u, ParsedOnce \intersect parsedFlags)'
    BY <2>1, <2>3, <2>4 DEF FileInv, HasOrComes
  <2>6. HasOrComes(u, Asked)'  BY <2>1, <2>3, <2>4 DEF FileInv, HasOrComes, Asked
  <2> QED  BY <2>5, <2>6 DEF FileInv
<1>8. ASSUME NEW o \in Object, NEW ok \in BOOLEAN, ParseObject(o, ok) PROVE FileInv(u)'
  <2>1. ok  BY <1>8 DEF ParseObject, CloseFile, Stopped
  <2>2. ParseObject(o, TRUE)  BY <1>8, <2>1
  <2>3. /\ phase = "parsing" /\ o \in remaining
        /\ UNCHANGED <<interrupted, refused, objectFlags, parsedFlags>>
    BY <1>8, <2>1 DEF ParseObject
  <2>4. DOMAIN uriFileId \subseteq DOMAIN uriFileId'
    <3>1. CASE Kind[o] \in libraries
      <4>1. GetUniqueIds(o)  BY <1>8, <3>1 DEF ParseObject
      <4> QED  BY <2>3, <4>1, GettingUniqueIds DEF IInv, KeepsIds
    <3>2. CASE Kind[o] \notin libraries  BY <1>8, <3>2 DEF ParseObject
    <3> QED  BY <3>1, <3>2
  <2>5. FileInv(u)  BY <2>3, <2>4 DEF SInv, OnlyFile
  <2>6. HasOrComes(u, ParsedOnce \intersect parsedFlags)'
    <3>1. HasOrComes(u, ParsedOnce \intersect parsedFlags)  BY <2>5 DEF FileInv
    <3>2. \A p \in Object : File[p] = u /\ Kind[p] \in ParsedOnce \intersect parsedFlags
                                => Has(p)' \/ Pending(p)'
      BY <2>2, <3>1, ObjectIsThere
    <3> QED  BY <2>3, <3>2 DEF HasOrComes
  <2>7. HasOrComes(u, Asked)'
    <3>1. HasOrComes(u, Asked)  BY <2>3, <2>5 DEF FileInv
    <3>2. Asked \subseteq objectFlags \union ParsedOnce  BY DEF Asked
    <3>3. \A p \in Object : File[p] = u /\ Kind[p] \in Asked => Has(p)' \/ Pending(p)'
      BY <2>2, <3>1, <3>2, ObjectIsThere
    <3>4. Asked' = Asked  BY <2>3 DEF Asked
    <3> QED  BY <3>3, <3>4 DEF HasOrComes
  <2> QED  BY <2>6, <2>7 DEF FileInv
<1>9. CASE Finish
  <2>1. /\ phase = "files" /\ phase' = "idle"
        /\ UNCHANGED <<interrupted, refused, uriFileId, stored>>
        /\ parsedFlags' = parsedFlags \union objectFlags
    BY <1>9 DEF Finish, ids, history
  <2>2. FileInv(u)  BY <2>1 DEF SInv, OnlyFile
  <2>3. currentFileId = nextFileId  BY <1>9, <2>1 DEF Finish, OInv, Uninterrupted
  <2>4. \A o \in Object : Kind[o] \in ParsedOnce => (Has(o)' <=> Has(o))
    BY <2>1, ParsedOnceAreStored DEF Has
  <2>5. \A o \in Object : ~ Pending(o)  BY <2>1 DEF Pending
  <2>6. ParsedOnce \intersect parsedFlags' \subseteq (ParsedOnce \intersect parsedFlags) \union Asked
    BY <2>1, ParsedOnceAreStored DEF Asked
  <2>7. HasOrComes(u, ParsedOnce \intersect parsedFlags)'
    BY <2>1, <2>2, <2>3, <2>4, <2>5, <2>6 DEF FileInv, HasOrComes
  <2> QED  BY <2>1, <2>7 DEF FileInv
<1>10. CASE UNCHANGED vars
  <2>1. FileInv(u)  BY <1>10 DEF vars, ids, history, SInv, OnlyFile
  <2> QED  BY <1>10, <2>1 DEF vars, ids, FileInv, HasOrComes, Has, Pending, Asked
<1> QED  BY <1>2, <1>3, <1>4, <1>5, <1>6, <1>7, <1>8, <1>9, <1>10 DEF Next, LoadStep

LEMMA OneFileIsKnown ==
    ASSUME IInv, Cardinality(DOMAIN uriFileId) = 1
    PROVE  \E u \in Uri : DOMAIN uriFileId = {u}
<1> DEFINE D == DOMAIN uriFileId
<1>1. D \in SUBSET Uri /\ uriFileId \in [D -> FileIds] /\ fileIdUri \in [FileIds -> Uri]
      /\ nextFileId \in Nat
  BY PartialElim DEF IInv, FileMaps
<1>2. IsFiniteSet(FileIds)
  <2>1. 0 \in Int /\ nextFileId - 1 \in Int  BY <1>1
  <2>2. IsFiniteSet(0 .. nextFileId - 1)  BY ONLY <2>1, FS_Interval
  <2> QED  BY <2>2 DEF FileIds
<1>3. IsFiniteSet(D)
  <2>1. IsFiniteSet({fileIdUri[i] : i \in FileIds})
    <3> DEFINE f == [i \in FileIds |-> fileIdUri[i]]
    <3>1. f \in Surjection(FileIds, {fileIdUri[i] : i \in FileIds})
      BY DEF Surjection
    <3> QED  BY <1>2, <3>1, FS_Surjection
  <2>2. D \subseteq {fileIdUri[i] : i \in FileIds}
    BY <1>1 DEF IInv, FileMaps
  <2> QED  BY <2>1, <2>2, FS_Subset
<1>4. \E u : D = {u}  BY <1>3, FS_Singleton
<1> QED  BY <1>1, <1>4

\* With one file, and without formulas, a pass writes all that it was asked for, however the flags
\* are divided among passes, and what the function map leaves out.
THEOREM PassesAreComplete == Spec => SinglePassesComplete
<1>1. Init => SInv
  BY DEF Init, SInv, FileInv, HasOrComes
<1>2. IInv /\ OInv /\ SInv /\ [Next]_vars => SInv'
  <2> SUFFICES ASSUME IInv, OInv, SInv, [Next]_vars, ~ interrupted', NEW u \in Uri, OnlyFile(u)'
               PROVE  FileInv(u)'
    BY DEF SInv
  <2> QED  BY PassStep
<1>3. ASSUME IInv, OInv, SInv, Finish, result', ~ interrupted, Cardinality(DOMAIN uriFileId) = 1
      PROVE  WritesWhatIsRequested
  <2>1. phase = "files" /\ ~ abortLoading /\ currentFileId = nextFileId /\ PostProcess
    BY <1>3 DEF Finish
  <2>2. PICK u \in Uri : DOMAIN uriFileId = {u}  BY <1>3, OneFileIsKnown
  <2> SUFFICES ASSUME NEW o \in Object, Kind[o] \in Asked, File[o] \in loaded \ refused
               PROVE  written'[o] > 0
    BY DEF WritesWhatIsRequested, Asked
  <2>3. File[o] = u
    <3>1. nextFileId \in Nat /\ currentFileId \in 0 .. nextFileId
      BY <1>3 DEF IInv, FileMaps, Current
    <3>2. PICK s \in Nat : OnceSince(s)  BY <1>3 DEF OInv, Uninterrupted
    <3>3. PICK i \in s .. currentFileId : i < currentFileId /\ fileIdUri[i] = File[o]
      BY <2>1, <3>2 DEF OnceSince
    <3>4. i \in FileIds  BY <3>1, <3>3 DEF FileIds
    <3>5. fileIdUri[i] \in DOMAIN uriFileId  BY <1>3, <3>4 DEF IInv, FileMaps
    <3> QED  BY <2>2, <3>3, <3>5
  <2>4. HasOrComes(u, Asked)  BY <1>3, <2>1, <2>2, <2>3 DEF SInv, OnlyFile, FileInv
  <2>5. Has(o)  BY <2>1, <2>3, <2>4 DEF HasOrComes, Pending
  <2>6. Kind[o] \in objectFlags  BY DEF Asked
  <2>7. written'[o] = IF Kind[o] \in KindsStored THEN written[o] + stored[o] ELSE written[o]
    BY <2>1, <2>6 DEF PostProcess, KindsStored
  <2>8. stored[o] \in Nat /\ written[o] \in Nat  BY <1>3 DEF IInv, Rest
  <2> QED  BY <2>5, <2>7, <2>8 DEF Has
<1>4. IInv /\ OInv /\ SInv /\ [Next]_vars =>
        [Finish /\ result' /\ ~ interrupted /\ Cardinality(DOMAIN uriFileId) = 1
            => WritesWhatIsRequested]_vars
  BY <1>3
<1> QED  BY Invariant, OnceInvariant, <1>1, <1>2, <1>4, PTL DEF Spec, SinglePassesComplete
=============================================================================

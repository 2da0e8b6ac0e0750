-------------------------- MODULE SkinControllers ---------------------------
(***************************************************************************)
(* The skin controllers that COLLADASaxFWL makes: DocumentProcessor, with  *)
(* what NodeLoader and LibraryControllersLoader give it.                   *)
(*                                                                         *)
(* A skin names its joints, and an instance_controller the roots below     *)
(* which they are looked for, in the sid tree (SidTree).  The instances    *)
(* that precede the skin get their controllers when its joints are read,   *)
(* from the tree as it is then; those that fail, and later ones, get them  *)
(* in postProcess().                                                       *)
(*                                                                         *)
(* There is one skin, and CONTROLLER_FLAG is set.  The names of joints     *)
(* are sids or ids.                                                        *)
(***************************************************************************)
EXTENDS SidTree

CONSTANTS
    JointLists,       \* contents of Name_array and IDREF_array: [areIds, names]
    RootLists,        \* the <skeleton> elements of an instance_controller: sequences of ids
    MaxInstances,     \* bound: instances of the skin
    MaxJointTree      \* bound: nodes of the tree, if the files have skins or <node> elements

ASSUME SkinAssumption ==
    /\ JointLists \subseteq [areIds : BOOLEAN, names : Seq(Id \union Sid)]
    /\ RootLists \subseteq Seq(Id)

VARIABLES
    objects,          \* nodes of the tree whose target is a COLLADAFW::Node
    source,           \* whether the skin was read, and the geometry that it is for known before
    joints,           \* what mSkinDataJointSidsMap has for the skin
    instances,        \* mInstanceControllerDataListMap, with the entries that were removed
    controllers,      \* mSkinControllerSet, in the order of writing, by their joints
    loading           \* "files", "aborted" or what createAndWriteSkinControllers() returned

skinVars == <<objects, source, joints, instances, controllers, loading>>
allVars == <<vars, skinVars>>

NoController == 0
EmptyJoints == [areIds |-> TRUE, names |-> << >>]     \* EMPTY_JOINTSIDSORIDS

SkinInit == /\ Init
            /\ objects = {} /\ source = "none" /\ joints = EmptyJoints
            /\ instances = << >> /\ controllers = << >> /\ loading = "files"

-----------------------------------------------------------------------------
(* Resolving the joints of an instance.                                    *)

\* addValidatedJoint() for what was found below each root, in the order of the roots
FirstJoint(found) == LET nodes == {r \in DOMAIN found : found[r] \in objects}
                     IN  IF nodes = {} THEN NoNode ELSE found[Min(nodes)]

\* The node that a name of the list means for an instance with these roots.  Without roots it is
\* taken for an address, and that has an id only.
Joint(list, roots, name) ==
    IF list.areIds \/ roots = << >>
    THEN FirstJoint(IF name \in Id THEN <<ResolveSid(name, << >>)>> ELSE << >>)
    ELSE FirstJoint([r \in DOMAIN roots |->
                        IF name \in Sid THEN ResolveSid(roots[r], <<name>>) ELSE NoNode])

\* Mutant of Joints: names that mean no node are not left out.
JointsWithGaps(list, roots) == [k \in DOMAIN list.names |-> Joint(list, roots, list.names[k])]
\* The joints of the controller: names that mean no node are left out.
Joints(list, roots) ==
    LET upTo[k \in 0 .. Len(list.names)] ==
            IF k = 0 THEN << >>
            ELSE LET joint == Joint(list, roots, list.names[k])
                 IN  IF joint = NoNode THEN upTo[k - 1] ELSE Append(upTo[k - 1], joint)
    IN  upTo[Len(list.names)]

\* Mutant of Alike: the joints are compared by their number.
AsMany(c, ofJoints) == Len(c) = Len(ofJoints)
\* Loader::compare() finds no difference; skin data and source are the same.
Alike(c, ofJoints) == c = ofJoints

\* createAndWriteSkinController() for instance i; s is what it changes, with the result.  These are
\* the outcomes: the error handler may stop it when a name means no node, and the writer may fail.
CreateAndWriteSkinController(s, list, i) ==
    LET ofJoints == Joints(list, s.instances[i].roots)
        known == {c \in DOMAIN s.controllers : Alike(s.controllers[c], ofJoints)}
        With(c) == [s.instances EXCEPT ![i].controller = c]
        made == Append(s.controllers, ofJoints)
    IN  (IF Len(ofJoints) < Len(list.names) THEN {[s EXCEPT !.success = FALSE]} ELSE {})
        \union IF known # {}
               THEN {[s EXCEPT !.instances = With(c), !.success = TRUE] : c \in known}
               ELSE {[instances |-> With(Len(made)), controllers |-> made, success |-> written] :
                        written \in BOOLEAN}

\* Mutant of WithoutDone: the entry is removed in any case.
WithoutTried(s, i) == [s EXCEPT !.instances[i].listed = FALSE]
\* "on success we need to remove this controller instance"
WithoutDone(s, i) == [s EXCEPT !.instances[i].listed = ~s.success]

\* One round of a loop over the list of instances: of the one when joints are read, or of the last
\* one, which ends with the first failure.
Round(s, list, i, isLast) ==
    IF ~isLast THEN {WithoutDone(t, i) : t \in CreateAndWriteSkinController(s, list, i)}
    ELSE IF s.success /\ s.instances[i].listed THEN CreateAndWriteSkinController(s, list, i)
    ELSE {s}

\* All outcomes of the loop
Outcomes(list, isLast) ==
    LET after[i \in 0 .. Len(instances)] ==
            IF i = 0
            THEN {[instances |-> instances, controllers |-> controllers, success |-> TRUE]}
            ELSE UNION {Round(s, list, i, isLast) : s \in after[i - 1]}
    IN  after[Len(instances)]
Becomes(s) == instances' = s.instances /\ controllers' = s.controllers

-----------------------------------------------------------------------------
(* Reading the files.                                                      *)

Reading == loading = "files"

\* Elements with an id or sid; a <node> has an object as target, an instance of kinematics a url.
ReadElement(id, s, url, isNode) ==
    /\ Reading
    /\ isNode => url = None
    /\ source # "none" \/ objects # {} \/ isNode => Len(tree) < MaxJointTree
    /\ AddToSidTree(id, s, url)
    /\ objects' = IF isNode THEN objects \union {current'} ELSE objects
    /\ UNCHANGED <<source, joints, instances, controllers, loading>>

EndElement == Reading /\ MoveUpInSidTree /\ UNCHANGED skinVars

\* begin__instance_controller(), and data__skeleton() for each <skeleton> in it
BeginInstanceController(roots) ==
    /\ Reading /\ current \in objects /\ Len(instances) < MaxInstances /\ Len(tree) <= MaxJointTree
    /\ instances' = Append(instances, [roots |-> roots, controller |-> NoController, listed |-> TRUE])
    /\ UNCHANGED <<vars, objects, source, joints, controllers, loading>>

\* begin__skin() and, for the input with semantic JOINT, begin__input____InputLocal().  If the
\* geometry has got a unique id before, the instances so far get their controllers.  The elements
\* around the skin have neither id nor sid that matters: they are left out of the tree.
BeginInputJoint(list, isKnown) ==
    /\ Reading /\ source = "none" /\ current = Root /\ Len(tree) <= MaxJointTree
    /\ source' = IF isKnown THEN "known" ELSE "unknown"
    /\ joints' = list
    /\ IF isKnown
       THEN \E s \in Outcomes(list, FALSE) : Becomes(s)
       ELSE UNCHANGED <<instances, controllers>>
    /\ UNCHANGED <<vars, objects, loading>>

\* The same if there is no array with the id: loading stops unless the error handler says to stop.
BeginInputJointMissing ==
    /\ Reading /\ source = "none" /\ current = Root /\ Len(tree) <= MaxJointTree
    /\ \E isKnown, stop \in BOOLEAN :
          /\ source' = IF isKnown THEN "known" ELSE "unknown"
          /\ loading' = IF stop THEN "files" ELSE "aborted"
    /\ UNCHANGED <<vars, objects, joints, instances, controllers>>

-----------------------------------------------------------------------------
(* postProcess()                                                           *)

\* createAndWriteSkinControllers(): the first failure ends it.  The geometry may have got a unique
\* id since the skin was read.
CreateAndWriteSkinControllers ==
    /\ Reading /\ current = Root
    /\ \E isKnown \in BOOLEAN :
          /\ source = "known" => isKnown
          /\ IF source # "none" /\ isKnown
             THEN \E s \in Outcomes(joints, TRUE) :
                      Becomes(s) /\ loading' = IF s.success THEN "done" ELSE "failed"
             ELSE loading' = "no source" /\ UNCHANGED <<instances, controllers>>
    /\ UNCHANGED <<vars, objects, source, joints>>

SkinNext ==
    \/ \E id \in Id \union {None}, s \in Sid \union {None}, url \in Id \union {None}, isNode \in BOOLEAN :
          ReadElement(id, s, url, isNode)
    \/ EndElement
    \/ \E roots \in RootLists : BeginInstanceController(roots)
    \/ \E list \in JointLists, isKnown \in BOOLEAN : BeginInputJoint(list, isKnown)
    \/ BeginInputJointMissing
    \/ CreateAndWriteSkinControllers

SkinSpec == SkinInit /\ [][SkinNext]_allVars

-----------------------------------------------------------------------------
(* Properties                                                              *)

\* The variables have their types: joints of controllers are nodes of the scene, as many as the skin
\* names at most, and what instances have is a controller that was made.
SkinTypeOK ==
    /\ objects \subseteq Node /\ \A n \in objects : tree[n].url = None
    /\ source \in {"none", "unknown", "known"} /\ joints \in JointLists \union {EmptyJoints}
    /\ \A i \in DOMAIN instances : /\ instances[i].roots \in RootLists
                                   /\ instances[i].controller \in DOMAIN controllers \union {NoController}
    /\ \A c \in DOMAIN controllers : /\ controllers[c] \in Seq(objects)
                                     /\ Len(controllers[c]) <= Len(joints.names)
    /\ loading \in {"files", "aborted", "done", "failed", "no source"}

\* If createAndWriteSkinControllers() says that all went well, every instance of the skin has a
\* controller: also those for which the error handler or the writer failed when the joints were
\* read, and those that were read after the skin.
EveryInstanceHasAController ==
    loading = "done" => \A i \in DOMAIN instances : instances[i].controller # NoController

\* The nodes that a name may mean below a root: the root itself if it has the sid, or nodes below
Candidates(root, name) ==
    IF root \notin DOMAIN nodeOf THEN {}
    ELSE {n \in Below(nodeOf[root]) \union {nodeOf[root]} : tree[n].sid = name}
Meanings(list, roots, name) ==
    IF list.areIds \/ roots = << >> THEN {nodeOf[i] : i \in {name} \intersect DOMAIN nodeOf}
    ELSE UNION {Candidates(roots[r], name) : r \in DOMAIN roots}
\* The name means one node below one of the roots, and that is a <node>.
Found(list, roots, name) ==
    IF list.areIds \/ roots = << >> THEN Meanings(list, roots, name) \intersect objects # {}
    ELSE \E r \in DOMAIN roots : \E n \in objects : Candidates(roots[r], name) = {n}

\* The controller that an instance gets, be it its own or one made for another instance, has the
\* joints that the skin's names mean below the roots of this instance, in the order of the names,
\* and none is missing that can only be one node: the indices of the skin count on both.
JointsAreMeant(instance, list, controller) ==
    \E kept \in SUBSET DOMAIN list.names :
        /\ Cardinality(kept) = Len(controller)
        /\ \A k \in kept :
              controller[Cardinality({l \in kept : l <= k})]
                  \in objects \intersect Meanings(list, instance.roots, list.names[k])
        /\ \A k \in DOMAIN list.names : Found(list, instance.roots, list.names[k]) => k \in kept

InstancesGetTheirJoints ==
    [][\A i \in DOMAIN instances :
          instances'[i].controller # instances[i].controller =>
              JointsAreMeant(instances[i], joints', controllers'[instances'[i].controller])]_allVars
=============================================================================

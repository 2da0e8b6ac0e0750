SPECIFICATION SkinSpec
CONSTANTS
    Id = {i1, i2}
    Sid = {s1, s2}
    MaxNodes = 5
    MaxSids = 3
    JointLists <- MCJointLists
    RootLists <- MCRootLists
    MaxInstances = 2
    MaxJointTree = 3
SYMMETRY Symmetry
CHECK_DEADLOCK FALSE
INVARIANTS
    TypeOK
    FindsWhatIsBelow
    FindsNearest
    ResolvesWhatIsMeant
    SkinTypeOK
    EveryInstanceHasAController
PROPERTIES
    InstancesGetTheirJoints

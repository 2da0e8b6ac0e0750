SPECIFICATION Spec
CONSTANTS
  MaxFrames = 3
  Factor = 2
  FrameSize <- Doubling
  WordSize = 1
  Data = {a}
  Sizes = {0, 1, 2, 8}
INVARIANTS
  TypeOK
  LiveObjectsDisjoint
  TopIsLastPushed
  Layout
PROPERTIES
  ImplementsObjectStack

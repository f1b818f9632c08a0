SPECIFICATION Spec
CONSTANTS
  Nodes = 3
  Links <- Triangle
  Anchors = {1}
  Impatient = {2}
  MaxRefs = 1
  MaxAnchorSeq = 2
  MaxMessageSeq <- AnchorTwo
  PayloadCapacity = 2
INVARIANTS FibLoopFree
CHECK_DEADLOCK FALSE

SPECIFICATION Spec
CONSTANTS
  Nodes = 3
  Links <- Line
  Anchors = {1}
  Impatient = {3}
  MaxRefs = 2
  MaxAnchorSeq = 2
  MaxMessageSeq <- AnchorTwo
  PayloadCapacity = 2
INVARIANTS RibLoopFree DistanceIsHonest AdvertsBehind TimerForEveryRow ReachableIsForwarded
PROPERTIES Implements
CHECK_DEADLOCK FALSE

SPECIFICATION StableSpec
CONSTANTS
  Nodes = 4
  Links <- Square
  Anchors = {1}
  Impatient = {}
  MaxRefs = 1
  MaxAnchorSeq = 1
  MaxMessageSeq <- Plenty
  PayloadCapacity = 2
PROPERTIES Converges
CHECK_DEADLOCK FALSE

SPECIFICATION MCSpec
CONSTANTS
  Links = {l1, l2}
  HelloInterval = 2
  Jitter = 1
  WorkDelays = {1}
  NeighborTimeout = 6
  Lifetime = 1
  MaxDelay = 1
  FirstSeqnums = {65534}
  MaxWork = 1
  MaxFaults = 2
  Routers = 2
  Pairs = {p}
  RouteTimeout = 4
INVARIANTS
  Heard
  OneTimerPerRow
  SaidInTime
  LapsesAreShort
PROPERTIES
  HandledInOrder
VIEW Shifted

SPECIFICATION FairSpec
CONSTANTS
  Servers = 3
  MaxItems = 6
  MaxReentrant = 1
INVARIANTS
  BacklogExact
  WorkConserving
  NoOverlappingService
  ServiceStartsInOrder
PROPERTY
  EventuallyDelivered
\* all items pushed and delivered: there is nothing left to do
CHECK_DEADLOCK FALSE

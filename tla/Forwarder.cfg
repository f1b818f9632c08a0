SPECIFICATION Spec
CONSTANTS
  a = a
  b = b
  c = c
  h1 = h1
  Connections = {app, net}
  Portals = {app}
  NoConnection = NoConnection
  Names <- OneName
  NoName <- NoSegments
  Hashes = {h1}
  NullHash = NullHash
  Packets <- OneObject
  NoPacket = NoPacket
  Interests <- TwoKeys
  NoInterest = NoInterest
  RoutePrefixes <- AllPrefixes
  HasContentStore = TRUE
  Capacity = 1
  Servers = 1
  MaxTime = 1
  MaxPackets = 3
  FibRoutes <- OneRoute
  MaxRouteChanges = 2
INVARIANTS
  TypeOK
  NeverOverpaid
  PendingIsPursued
  LaterInterestsHit
  LongestMatch
  PacketsConserved
CHECK_DEADLOCK FALSE

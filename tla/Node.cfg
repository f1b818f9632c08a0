SPECIFICATION FairSpec
CONSTANTS
  a = a
  b = b
  Connections = {consumer, producer, net}
  Portals = {consumer, producer}
  Consumer = consumer
  Producer = producer
  NoConnection = NoConnection
  Names <- OneName
  NoName <- NoSegments
  Hashes = {}
  NullHash = NullHash
  Packets <- Objects
  Repository <- Objects
  NoPacket = NoPacket
  Interests <- OneRequest
  NoInterest = NoInterest
  RoutePrefixes <- OnePrefix
  RepositoryPrefix <- Prefix
  HasContentStore = TRUE
  Capacity = 1
  Servers = 1
  MaxTime = 0
  MaxPackets = 8
  FibRoutes = {}
  MaxRouteChanges = 2
  MaxRequests = 2
  MaxHeard = 2
INVARIANTS
  ReceivedWithinSent
  OutstandingIsTracked
PROPERTIES
  RequestsHonored
CHECK_DEADLOCK FALSE

SPECIFICATION Spec
CONSTANTS
  n1 = n1
  n2 = n2
  h1 = h1
  h2 = h2
  h3 = h3
  Names = {n1, n2}
  NoName = NoName
  Hashes = {h1, h2, h3}
  NullHash = NullHash
  NoPacket = NoPacket
  Packets <- MixedPackets
  Capacity = 2
  MaxTime = 2
  MaxEntries = 5
INVARIANTS
  CapacityRespected

SPECIFICATION Spec
CONSTANTS
  Names = {n1, n2}
  Hashes = {h1}
  KeyIdNames = {n2}
  Connections = {c1, c2}
  NoConnection = NoConnection
  NullHash = NullHash
  NoName = NoName
  Lifetimes = {1, 2}
  MaxTime = 1
INVARIANTS
  LiveInterestsRecorded
  RoutesBehindForwarded
PROPERTIES
  OneAnswerPerInterest
  LiveInterestsAnswered

SPECIFICATION StackSpec
CONSTANTS
  Hops = 2
  Loads <- MCLoads
  Answer <- MCAnswer
  Router = 2
  RouterName <- MCRouterName
  NfpPrefix <- MCNfpPrefix
  Mtu <- MCMtu
  MinFrame = 80
CHECK_DEADLOCK FALSE
INVARIANTS AssertionsHold DecodedAsMade AnswersFindInterests NeighborsHearTheQueue EndsOnlyIfMisused NfpKnowsTheInterfaces
PROPERTIES StartsAsPath

SPECIFICATION FairSpec
CONSTANTS
  Configurations <- AllPolicies
  PSEL_BITS = 2
  LEADER_PERIOD = 4
  MaxCount = 3
INVARIANTS
  RecencyVictim
  TreeVictimIsOld
  PselSaturates
PROPERTIES
  SearchEnds

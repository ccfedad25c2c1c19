\* Three peers, the scripts of which are stopped and fail anywhere.
SPECIFICATION FairSpec
CONSTANTS
  Replicas = 3
  MaxKills = 2
  MaxFailures = 1
INVARIANTS
  TypeOK
  LacksSettingsOnlyIfCut
  OpensAddresses
PROPERTIES
  ComesUp
CHECK_DEADLOCK FALSE

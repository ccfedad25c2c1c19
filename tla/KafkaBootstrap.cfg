\* Three pods, two possible ids, two containers killed.
SPECIFICATION FairSpec
CONSTANTS
  Nodes = {0, 1, 2}
  Ids = {a, b}
  NoId = NoId
  Missing = Missing
  MaxFaults = 2
INVARIANTS
  SameClusterId
  BootstrapInv
PROPERTIES
  AgreementSpec
  JoinsOnceWritten
  BootsUndisturbed
CHECK_DEADLOCK FALSE

\* The password is edited.
SPECIFICATION FairSpec
CONSTANTS
  e1 = e1
  e2 = e2
  e3 = e3
  s1 = s1
  s2 = s2
  Envs = {e1}
  NameOf <- MCNameOf
  NamespaceOf <- MCNamespaceOf
  Kinds = {"VscodeSecret", "VscodeDeployment"}
  Specs = {s1, s2}
  NoDatabase = {}
  None = None
  ListMayLag = FALSE
  MaxEdits = 2
  MaxFaults = 0
  MaxTampers = 0
  MaxLag = 1
PROPERTIES
  SecretFollowsSpec
CHECK_DEADLOCK FALSE

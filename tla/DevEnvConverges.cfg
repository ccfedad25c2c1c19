\* Under fairness, with objects that others delete or change.
SPECIFICATION FairSpec
CONSTANTS
  e1 = e1
  e2 = e2
  e3 = e3
  s1 = s1
  s2 = s2
  Envs = {e1}
  NameOf <- MCNameOf
  NamespaceOf <- MCNamespaceOf
  Kinds = {"WorkspacePVC", "VscodeDeployment"}
  Specs = {s1, s2}
  NoDatabase = {}
  None = None
  ListMayLag = FALSE
  MaxEdits = 3
  MaxFaults = 1
  MaxTampers = 1
  MaxLag = 1
PROPERTIES
  DeletionCompletes
  Converges
CHECK_DEADLOCK FALSE

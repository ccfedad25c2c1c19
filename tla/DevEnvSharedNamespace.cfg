\* Under fairness, two environments of one name share a Namespace that goes
\* slowly: the finalization of one deletes it under the other.
SPECIFICATION FairSpec
CONSTANTS
  e1 = e1
  e2 = e2
  e3 = e3
  s1 = s1
  s2 = s2
  Envs = {e1, e3}
  NameOf <- MCNameOf
  NamespaceOf <- MCNamespaceOf
  Kinds = {"Namespace", "VscodeDeployment"}
  Specs = {s1}
  NoDatabase = {}
  None = None
  ListMayLag = FALSE
  MaxEdits = 3
  MaxFaults = 0
  MaxTampers = 0
  MaxLag = 1
INVARIANTS
  NoOrphans
PROPERTIES
  DeletionCompletes
  Converges
CHECK_DEADLOCK FALSE

\* Two environments of one namespace share an Issuer.
SPECIFICATION Spec
CONSTANTS
  e1 = e1
  e2 = e2
  e3 = e3
  s1 = s1
  s2 = s2
  Envs = {e1, e2}
  NameOf <- MCNameOf
  NamespaceOf <- MCNamespaceOf
  Kinds = {"Issuer", "VscodeDeployment"}
  Specs = {s1}
  NoDatabase = {}
  None = None
  ListMayLag = FALSE
  MaxEdits = 4
  MaxFaults = 1
  MaxTampers = 0
  MaxLag = 1
SYMMETRY MCSwapEnvs
INVARIANTS
  NoOrphans
PROPERTIES
  NeverDeletesFromLive
  OwnershipSpec
CHECK_DEADLOCK FALSE

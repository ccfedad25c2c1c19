\* An environment without a database.
SPECIFICATION FairSpec
CONSTANTS
  e1 = e1
  e2 = e2
  e3 = e3
  s1 = s1
  s2 = s2
  Envs = {e1}
  NameOf <- MCNameOf
  NamespaceOf <- MCNamespaceOf
  Kinds = {"WorkspacePVC", "VscodeDeployment", "DbService"}
  Specs = {s1}
  NoDatabase = {s1}
  None = None
  ListMayLag = FALSE
  MaxEdits = 1
  MaxFaults = 0
  MaxTampers = 0
  MaxLag = 1
PROPERTIES
  DatabaseIsOptional
CHECK_DEADLOCK FALSE

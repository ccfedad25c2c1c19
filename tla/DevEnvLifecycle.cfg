\* One environment with all of its objects: users create, edit and delete it
\* while one call fails, loses its answer or the operator restarts.
SPECIFICATION Spec
CONSTANTS
  e1 = e1
  e2 = e2
  e3 = e3
  s1 = s1
  s2 = s2
  Envs = {e1}
  NameOf <- MCNameOf
  NamespaceOf <- MCNamespaceOf
  Kinds = {"Namespace", "Issuer", "Certificate", "ToolsConfigMap", "WorkspacePVC", "VscodeDeployment", "VscodeService", "VscodeSecret", "VscodeIngress", "DbPVC", "DbDeployment", "DbService"}
  Specs = {s1, s2}
  NoDatabase = {}
  None = None
  ListMayLag = FALSE
  MaxEdits = 3
  MaxFaults = 1
  MaxTampers = 0
  MaxLag = 1
SYMMETRY MCSwapSpecs
INVARIANTS
  TypeOK
  WritesOneSnapshot
PROPERTIES
  NoLostEdit
CHECK_DEADLOCK FALSE

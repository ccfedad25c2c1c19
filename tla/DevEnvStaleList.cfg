\* A restarted operator may be given an old list, an environment may be deleted
\* and created again under its name, and the database section may be missing.
SPECIFICATION Spec
CONSTANTS
  e1 = e1
  e2 = e2
  e3 = e3
  s1 = s1
  s2 = s2
  Envs = {e1}
  NameOf <- MCNameOf
  NamespaceOf <- MCNamespaceOf
  Kinds = {"VscodeDeployment", "DbService"}
  Specs = {s1, s2}
  NoDatabase = {s2}
  None = None
  ListMayLag = TRUE
  MaxEdits = 4
  MaxFaults = 1
  MaxTampers = 0
  MaxLag = 2
INVARIANTS
  NoOrphansInv
  WritesOneSnapshot
PROPERTIES
  GoesWhenAsked
CHECK_DEADLOCK FALSE

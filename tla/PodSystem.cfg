\* Pods of two names pass the webhook, come and go, while the watch expires,
\* the controller is restarted and given old lists, and the broker stops.
SPECIFICATION Spec
CONSTANTS
  n1 = n1
  n2 = n2
  Names = {n1, n2}
  Manifests <- MCManifests
  MaxPods = 2
  MaxCrashes = 1
  MaxOutages = 1
  MaxExpiries = 1
INVARIANTS
  TypeOK
  NoFalseAlarm
  OptedInHaveLimits
PROPERTIES
  ValidNotRefused
  DeletionsAnnounced
CHECK_DEADLOCK FALSE

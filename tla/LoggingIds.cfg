\* The ids of one request.
SPECIFICATION Spec
CONSTANTS
  Conns = {c1, c2}
  Routes = {"home", "health", "users", "process", "error", "unclean"}
  MaxRequests = 1
  ReadTimeout = 3
  WriteTimeout = 3
  NewGrace = 1
  ShutdownTimeout = 6
  GracePeriod = 6
INVARIANTS
  OneIdPerRequest
CHECK_DEADLOCK FALSE

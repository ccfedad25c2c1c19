\* Two connections, slow clients, SIGTERM at any time.  A tick is five seconds,
\* the timeouts are the code's.
SPECIFICATION FairSpec
CONSTANTS
  Conns = {c1, c2}
  Routes = {"unclean", "error"}
  MaxRequests = 2
  ReadTimeout = 3
  WriteTimeout = 3
  NewGrace = 1
  ShutdownTimeout = 6
  GracePeriod = 6
INVARIANTS
  TypeOK
  StopsGracefully
  LogMatchesAnswers
PROPERTIES
  WholeRequestsAnswered
CHECK_DEADLOCK FALSE

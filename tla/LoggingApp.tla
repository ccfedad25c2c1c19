------------------------------ MODULE LoggingApp ------------------------------
(***************************************************************************)
(* The logging application: one process that serves HTTP requests, logs    *)
(* each of them in a middleware and in its handler, and shuts down on      *)
(* SIGTERM.  Connections are kept alive; net/http's Shutdown is modelled   *)
(* from how main uses it (Go 1.21, as go.mod says).                        *)
(*                                                                         *)
(* Time goes in ticks; timers count down.  What the process does on its    *)
(* own takes no time next to a tick, except that the sleep of a handler    *)
(* may last into the next one.                                             *)
(***************************************************************************)
EXTENDS Naturals, FiniteSets

CONSTANTS
  Conns,            \* the clients' connections
  Routes,           \* the routes that clients ask for
  MaxRequests,      \* bound: requests in a behaviour
  ReadTimeout,      \* ticks a client has for a request, header and body
  WriteTimeout,     \* ticks from the header to the end of the answer
  NewGrace,         \* ticks after which Shutdown takes a new connection as idle
  ShutdownTimeout,  \* ticks main gives Shutdown
  GracePeriod       \* ticks the kubelet gives the container

ASSUME LoggingAssumption ==
  /\ Routes \subseteq {"home", "health", "users", "process", "error", "unclean"}
  /\ {MaxRequests, ReadTimeout, WriteTimeout, NewGrace,
      ShutdownTimeout, GracePeriod} \subseteq Nat \ {0}
  /\ ReadTimeout <= WriteTimeout
  /\ ReadTimeout < ShutdownTimeout /\ ReadTimeout < GracePeriod

VARIABLES
  main,      \* what main is at
  ended,     \* how the process ended
  conns,     \* the server's side of each connection
  log,       \* the lines on stdout
  answers,   \* what clients have been answered
  requests,  \* bound: the requests so far
  ids,       \* the request ids generated so far
  timers     \* what is left to Shutdown, and to the container

vars == << main, ended, conns, log, answers, requests, ids, timers >>

-----------------------------------------------------------------------------
(* A connection is new, or idle after a request, until the header of the   *)
(* next one has been read, and then active; closed is one that Shutdown    *)
(* has closed under a request.                                             *)
ConnStates == {"none", "new", "active", "idle", "closed"}

(* How far the goroutine of a connection is with a request. *)
Stages == {"none", "read", "entered", "asleep", "replied", "completed"}

(* "unclean" is a path that ServeMux redirects. *)
Statuses == {200, 301, 500}

Connections ==
  [state : ConnStates, stage : Stages, route : Routes \cup {"none"},
   req : Nat, id : Nat, handlerId : Nat, status : {0} \cup Statuses,
   body : BOOLEAN,         \* has the client sent the whole request?
   overslept : BOOLEAN,    \* the sleep has lasted into the next tick
   seen : BOOLEAN,         \* has Shutdown found it idle, and not closed it yet?
   age : 0..(NewGrace + 1), readLeft : Nat, writeLeft : Nat]

NoConn ==
  [state |-> "none", stage |-> "none", route |-> "none", req |-> 0, id |-> 0,
   handlerId |-> 0, status |-> 0, body |-> FALSE, overslept |-> FALSE,
   seen |-> FALSE, age |-> 0, readLeft |-> 0, writeLeft |-> 0]

(* A line with a request id; 0 where the line has none. *)
Lines == [req : Nat, id : Nat, status : {0} \cup Statuses,
          event : {"incoming_request", "request_completed", "handler"}]

TypeOK ==
  /\ main \in {"starting", "waiting", "draining", "exited"}
  /\ ended \in {"no", "gracefully", "timedOut", "signalled", "failed"}
  /\ (main = "exited") <=> (ended # "no")
  /\ conns \in [Conns -> Connections]
  /\ log \subseteq Lines
  /\ answers \subseteq [req : Nat, id : Nat, status : Statuses]
  /\ requests \in Nat /\ ids \in Nat
  /\ timers \in [shutdown : 0..ShutdownTimeout, kill : 0..GracePeriod]

Init ==
  /\ main = "starting" /\ ended = "no"
  /\ conns = [c \in Conns |-> NoConn]
  /\ log = {} /\ answers = {}
  /\ requests = 0 /\ ids = 0
  /\ timers = [shutdown |-> ShutdownTimeout, kill |-> GracePeriod]

Running == main # "exited"

(* ListenAndServe runs in a goroutine of its own from the start. *)
Listening == main \in {"starting", "waiting"}

(* A line about the request of a connection.                               *)
Line(c, event, id, status) ==
  [req |-> conns[c].req, event |-> event, id |-> id, status |-> status]

(* Mutant of Timeouts: slow clients have all the time they want.           *)
TimeoutsUnread == [read |-> ShutdownTimeout + GracePeriod,
                   write |-> ShutdownTimeout + GracePeriod]

(* The timeouts that main gives the server. *)
Timeouts == [read |-> ReadTimeout, write |-> WriteTimeout]

-----------------------------------------------------------------------------
(* Clients. *)

(* A connection is accepted; the client has until the read timeout.        *)
Accepted ==
  [state |-> "new", stage |-> "none", route |-> "none", req |-> 0, id |-> 0,
   handlerId |-> 0, status |-> 0, body |-> FALSE, overslept |-> FALSE,
   seen |-> FALSE, age |-> 0, readLeft |-> Timeouts.read, writeLeft |-> 0]

Connect(c) ==
  /\ Listening /\ conns[c].state = "none"
  /\ conns' = [conns EXCEPT ![c] = Accepted]
  /\ UNCHANGED << main, ended, log, answers, requests, ids, timers >>

(* The client hangs up between two requests, or the idle timeout is over.  *)
HangUp(c) ==
  /\ Running /\ conns[c].state \in {"new", "idle"} /\ conns[c].stage = "none"
  /\ conns' = [conns EXCEPT ![c] = NoConn]
  /\ UNCHANGED << main, ended, log, answers, requests, ids, timers >>

(* The whole request has come.                                             *)
Whole(conn) == [conn EXCEPT !.body = TRUE]

(* A slow client sends the rest of its request in time.                    *)
SendBody(c) ==
  /\ Running /\ conns[c].state \notin {"none", "closed"}
  /\ conns[c].stage # "none" /\ ~conns[c].body /\ conns[c].readLeft > 0
  /\ conns' = [conns EXCEPT ![c] = Whole(@)]
  /\ UNCHANGED << main, ended, log, answers, requests, ids, timers >>

(* A request whose header has been read.  A connection that was kept has   *)
(* the read timeout from now on: its client sends the header at once.      *)
Header(conn, n, route, body) ==
  [conn EXCEPT !.stage = "read", !.req = n, !.route = route, !.body = body,
               !.readLeft = IF conn.state = "new" THEN @ ELSE Timeouts.read,
               !.writeLeft = Timeouts.write]

(* readRequest returns; for Shutdown the connection is still new, or idle. *)
(* The client may be slow with the body.                                   *)
ReadHeader(c, route, body) ==
  /\ Running /\ conns[c].stage = "none"
  /\ \/ conns[c].state = "new" /\ conns[c].readLeft > 0
     \/ conns[c].state = "idle"
  /\ requests < MaxRequests /\ requests' = requests + 1
  /\ conns' = [conns EXCEPT ![c] = Header(@, requests + 1, route, body)]
  /\ UNCHANGED << main, ended, log, answers, ids, timers >>

-----------------------------------------------------------------------------
(* The middleware and the handlers. *)

(* The request as the middleware has it; the status is 200 until the       *)
(* handler sets another one.  The connection is active, if it is open.     *)
Entered(conn, id) ==
  [conn EXCEPT !.state = IF conn.state = "closed" THEN @ ELSE "active",
               !.stage = "entered", !.id = id, !.status = 200, !.age = 0]

(* The middleware is entered: it generates an id and logs it.              *)
Enter(c) ==
  /\ Running /\ conns[c].stage = "read"
  /\ ids' = ids + 1
  /\ conns' = [conns EXCEPT ![c] = Entered(@, ids + 1)]
  /\ log' = log \cup {Line(c, "incoming_request", ids + 1, 0)}
  /\ UNCHANGED << main, ended, answers, requests, timers >>

(* The handler, with an id of its own or none, simulates its work.         *)
Asleep(conn, id) == [conn EXCEPT !.stage = "asleep", !.handlerId = id]

(* The handlers of /api generate an id of their own, for their lines and,  *)
(* but for users, for the answer; home logs without an id, health not at   *)
(* the level that is on, and ServeMux redirects without a line.            *)
Handle(c) ==
  /\ Running /\ conns[c].stage = "entered"
  /\ LET own == conns[c].route \in {"users", "process", "error"}
         id == IF own THEN ids + 1 ELSE 0
     IN /\ ids' = IF own THEN ids + 1 ELSE ids
        /\ conns' = [conns EXCEPT ![c] = Asleep(@, id)]
        /\ log' = IF conns[c].route \in {"health", "unclean"} THEN log
                  ELSE log \cup {Line(c, "handler", id, 0)}
  /\ UNCHANGED << main, ended, answers, requests, timers >>

(* Mutant of WriteHeader: the embedded ResponseWriter's is called. *)
WriteHeaderUnseen(conn, status) == conn

(* responseWriter.WriteHeader keeps the status for the middleware. *)
WriteHeader(conn, status) == [conn EXCEPT !.status = status]

(* Mutant of StatusOf. *)
StatusUnavailable(route) == IF route = "error" THEN 503 ELSE 200

(* The status that a route answers. *)
StatusOf(route) ==
  CASE route = "error" -> 500 [] route = "unclean" -> 301 [] OTHER -> 200

(* Only health, error and ServeMux's redirect call WriteHeader: for the    *)
(* others the status stays the 200 it was set to.                          *)
Replied(conn) ==
  LET awake == [conn EXCEPT !.stage = "replied"]
  IN IF conn.route \in {"health", "error", "unclean"}
     THEN WriteHeader(awake, StatusOf(conn.route)) ELSE awake

(* The handler wakes up and writes its answer.                             *)
Reply(c) ==
  /\ Running /\ conns[c].stage = "asleep"
  /\ conns' = [conns EXCEPT ![c] = Replied(@)]
  /\ UNCHANGED << main, ended, log, answers, requests, ids, timers >>

(* The middleware has logged the request.                                  *)
Completed(conn) == [conn EXCEPT !.stage = "completed"]

(* Back in the middleware. *)
Complete(c) ==
  /\ Running /\ conns[c].stage = "replied"
  /\ conns' = [conns EXCEPT ![c] = Completed(@)]
  /\ log' = log \cup {Line(c, "request_completed", conns[c].id,
                           conns[c].status)}
  /\ UNCHANGED << main, ended, answers, requests, ids, timers >>

-----------------------------------------------------------------------------
(* net/http. *)

(* A connection that is kept for the next request.                         *)
Kept ==
  [state |-> "idle", stage |-> "none", route |-> "none", req |-> 0, id |-> 0,
   handlerId |-> 0, status |-> 0, body |-> FALSE, overslept |-> FALSE,
   seen |-> FALSE, age |-> 0, readLeft |-> 0, writeLeft |-> 0]

(* The answer is still in the server's buffer.  The server first reads     *)
(* what is left of the request, until the read deadline; it answers if the *)
(* write deadline has not passed and the connection is still open, and     *)
(* keeps it if the request was whole and it is not shutting down.          *)
Flush(c) ==
  /\ Running /\ conns[c].stage = "completed"
  /\ conns[c].body \/ conns[c].readLeft = 0 \/ conns[c].state = "closed"
  /\ \/ /\ conns[c].state # "closed"
        /\ conns[c].writeLeft > 0
             \/ ~conns[c].body    \* both deadlines at once: either may win
        /\ answers' = answers \cup
             {[req |-> conns[c].req, status |-> StatusOf(conns[c].route),
               id |-> IF conns[c].route = "users" THEN 0
                      ELSE conns[c].handlerId]}
     \/ /\ conns[c].state = "closed" \/ conns[c].writeLeft = 0
        /\ UNCHANGED answers
  /\ conns' = [conns EXCEPT
       ![c] = IF /\ conns[c].body /\ conns[c].writeLeft > 0
                 /\ conns[c].state # "closed" /\ main # "draining"
              THEN Kept ELSE NoConn]
  /\ UNCHANGED << main, ended, log, requests, ids, timers >>

(* No header in time. *)
ReadTimesOut(c) ==
  /\ Running /\ conns[c].state = "new" /\ conns[c].stage = "none"
  /\ conns[c].readLeft = 0
  /\ conns' = [conns EXCEPT ![c] = NoConn]
  /\ UNCHANGED << main, ended, log, answers, requests, ids, timers >>

(* The process ends and takes its connections with it. *)
Exit(how) ==
  /\ main' = "exited" /\ ended' = how
  /\ conns' = [c \in Conns |-> NoConn]
  /\ UNCHANGED << log, answers, requests, ids, timers >>

(* ListenAndServe cannot listen, the port is taken say: logger.Fatal.      *)
ListenFails ==
  /\ Listening /\ requests = 0 /\ \A c \in Conns : conns[c].state = "none"
  /\ Exit("failed")

(* Shutdown closes the connections that are idle, and those that have been *)
(* new for more than five seconds.                                         *)
Closable(c) ==
  \/ conns[c].state = "idle"
  \/ conns[c].state = "new" /\ conns[c].age > NewGrace

Seen(conn) == [conn EXCEPT !.seen = TRUE]

(* One connection after the other: Shutdown reads its state ...            *)
SeeIdle(c) ==
  /\ main = "draining" /\ Closable(c) /\ \A d \in Conns : ~conns[d].seen
  /\ conns' = [conns EXCEPT ![c] = Seen(@)]
  /\ UNCHANGED << main, ended, log, answers, requests, ids, timers >>

Closed(conn) == [conn EXCEPT !.state = "closed", !.seen = FALSE]

(* ... and closes it, although a request may have come by now: the request *)
(* is served, but nobody waits for it and nothing can be answered.         *)
CloseSeen(c) ==
  /\ main = "draining" /\ conns[c].seen
  /\ conns' = [conns EXCEPT ![c] = IF @.stage = "none" THEN NoConn ELSE Closed(@)]
  /\ UNCHANGED << main, ended, log, answers, requests, ids, timers >>

(* Shutdown has nothing left to wait for.                                  *)
Quiescent == \A c \in Conns : conns[c].state \in {"none", "closed"}

-----------------------------------------------------------------------------
(* main. *)

(* signal.Notify, after the server has been started. *)
Notify ==
  /\ main = "starting" /\ main' = "waiting"
  /\ UNCHANGED << ended, conns, log, answers, requests, ids, timers >>

(* SIGTERM: before Notify it ends the process; then Shutdown closes the    *)
(* listener.                                                               *)
Terminate ==
  \/ main = "starting" /\ Exit("signalled")
  \/ /\ main = "waiting" /\ main' = "draining"
     /\ UNCHANGED << ended, conns, log, answers, requests, ids, timers >>

(* Mutant of ShutdownReturns: Shutdown is not waited for. *)
ShutdownUnawaited == main = "draining" /\ Exit("gracefully")

(* Shutdown returns when it is quiescent, or with an error when its time   *)
(* is over.  The error is logged, and in either case that the server       *)
(* stopped gracefully; main ends, and the process with it.                 *)
ShutdownReturns ==
  /\ main = "draining"
  /\ \/ Quiescent
     \/ timers.shutdown = 0
  /\ Exit(IF Quiescent THEN "gracefully" ELSE "timedOut")

-----------------------------------------------------------------------------
(* Time. *)

Less(left) == IF left = 0 THEN 0 ELSE left - 1

(* No handler sleeps for more than 300 ms. *)
MayWait(c) ==
  /\ ~conns[c].seen
  /\ CASE conns[c].stage = "asleep" -> ~conns[c].overslept
       [] conns[c].stage = "completed" ->
            /\ ~conns[c].body /\ conns[c].readLeft > 0
            /\ conns[c].state # "closed"
       [] conns[c].stage = "none" ->
            conns[c].state # "new" \/ conns[c].readLeft > 0
       [] OTHER -> FALSE

(* A tick for one connection.                                              *)
Aged(conn) ==
  IF conn.state = "none" THEN conn
  ELSE LET age == IF conn.state = "new" /\ conn.age <= NewGrace
                  THEN conn.age + 1 ELSE conn.age
       IN [conn EXCEPT !.age = age, !.readLeft = Less(conn.readLeft),
                       !.writeLeft = Less(conn.writeLeft),
                       !.overslept = conn.stage = "asleep"]

Tick ==
  /\ Running /\ main # "starting"
  /\ \A c \in Conns : MayWait(c)
  /\ main = "draining" =>
       /\ ~Quiescent /\ \A c \in Conns : ~Closable(c)
       /\ timers.shutdown > 0 /\ timers.kill > 0
  /\ conns' = [c \in Conns |-> Aged(conns[c])]
  /\ timers' = IF main = "draining"
               THEN [shutdown |-> Less(timers.shutdown),
                     kill |-> Less(timers.kill)]
               ELSE timers
  /\ UNCHANGED << main, ended, log, answers, requests, ids >>

-----------------------------------------------------------------------------
Serve(c) ==
  \/ Enter(c) \/ Handle(c) \/ Reply(c) \/ Complete(c)
  \/ Flush(c) \/ ReadTimesOut(c)

Shutdown ==
  (\E c \in Conns : SeeIdle(c) \/ CloseSeen(c)) \/ ShutdownReturns

Next ==
  \/ \E c \in Conns :
       \/ Connect(c) \/ HangUp(c) \/ SendBody(c) \/ Serve(c)
       \/ \E route \in Routes : \E body \in BOOLEAN :
            ReadHeader(c, route, body)
  \/ ListenFails \/ Notify \/ Terminate \/ Shutdown \/ Tick

Spec == Init /\ [][Next]_vars

(* Goroutines run, main goes on, and time passes. *)
Fairness ==
  /\ \A c \in Conns : WF_vars(Serve(c))
  /\ WF_vars(Notify) /\ WF_vars(Shutdown) /\ WF_vars(Tick)

FairSpec == Spec /\ Fairness

-----------------------------------------------------------------------------
(* What the application promises. *)

(* "Server stopped gracefully" is true when it is logged: Shutdown never   *)
(* runs into its deadline, nor the container into the kubelet's, with      *)
(* somebody's request still being served.  Slow clients are cut off by     *)
(* then.                                                                   *)
StopsGracefully ==
  /\ ended # "timedOut"
  /\ main = "draining" => timers.kill > 0

Answered(n) == \E a \in answers : a.req = n

(* A whole request on an active connection is answered, however its        *)
(* handler, other requests and the end of the process come: what Shutdown  *)
(* can see it waits for.  Lost may be a request that has just been read on *)
(* a connection that Shutdown has found idle, and any request before main  *)
(* listens to signals.                                                     *)
WholeRequestsAnswered ==
  \A c \in Conns : \A n \in 1..MaxRequests :
    conns[c].req = n /\ conns[c].body /\ conns[c].state = "active"
                     /\ ~conns[c].seen
      ~> Answered(n) \/ ended = "signalled"

(* The log tells what clients saw: to each answer, and to each line of a   *)
(* completed request, belongs one line of the request coming in with the   *)
(* same id, and the status logged is the status answered.                  *)
LogMatchesAnswers ==
  /\ \A line \in log : line.event = "request_completed" =>
       /\ Cardinality({ in \in log : in.event = "incoming_request"
                                    /\ in.id = line.id }) = 1
       /\ \A a \in answers : a.req = line.req => a.status = line.status
  /\ \A a \in answers : \E line \in log :
       line.event = "request_completed" /\ line.req = a.req

-----------------------------------------------------------------------------
(* What the documentation says and the code does not do. *)

(* Each request gets a unique id for tracing: all of its lines, and the    *)
(* answer, carry the same.                                                 *)
OneIdPerRequest ==
  \A a, b \in log \cup answers :
    a.req = b.req /\ a.id # 0 /\ b.id # 0 => a.id = b.id

-----------------------------------------------------------------------------
(* Why StopsGracefully holds. *)

(* How a connection is goes with how far its goroutine is; a handler that  *)
(* has not slept into the next tick still has time left to read.           *)
StagesInv ==
  \A c \in Conns :
    /\ conns[c].state = "none" => conns[c].stage = "none"
    /\ conns[c].state \in {"new", "idle"} => conns[c].stage \in {"none", "read"}
    /\ conns[c].state = "active" => conns[c].stage \notin {"none", "read"}
    /\ conns[c].state = "closed" => conns[c].stage # "none"
    /\ conns[c].stage \in {"none", "read", "entered"} => ~conns[c].overslept
    /\ conns[c].stage \in {"read", "entered", "asleep"} /\ ~conns[c].overslept
         => conns[c].readLeft > 0
    /\ conns[c].readLeft <= ReadTimeout

(* What is left to Shutdown and to the container is ahead of what is left  *)
(* to every client.                                                        *)
AheadOfClients ==
  /\ main \in {"starting", "waiting"} =>
       timers = [shutdown |-> ShutdownTimeout, kill |-> GracePeriod]
  /\ timers.shutdown > 0 /\ timers.kill > 0
  /\ main = "draining" => \A c \in Conns : conns[c].state # "none" =>
       /\ conns[c].readLeft + ShutdownTimeout <= timers.shutdown + ReadTimeout
       /\ conns[c].readLeft + GracePeriod <= timers.kill + ReadTimeout
       /\ conns[c].state = "idle" =>
            timers = [shutdown |-> ShutdownTimeout, kill |-> GracePeriod]

StopsInv == TypeOK /\ StagesInv /\ AheadOfClients /\ StopsGracefully
=============================================================================

--------------------------- MODULE LoggingAppProofs ---------------------------
(***************************************************************************)
(* Proofs about LoggingApp, for any number of clients and requests and for *)
(* all timeouts with which clients have less time than Shutdown and than   *)
(* the container: a shutdown is never cut off, and the log tells what the   *)
(* clients saw.                                                            *)
(***************************************************************************)
EXTENDS LoggingApp, FiniteSetTheorems, TLAPS

-----------------------------------------------------------------------------
(* What each step makes of a connection. *)

LEMMA FreshConnections ==
  /\ NoConn \in Connections /\ Accepted \in Connections
  /\ Kept \in Connections
  /\ NoConn.state = "none" /\ NoConn.stage = "none" /\ NoConn.readLeft = 0
  /\ Accepted.state = "new" /\ Accepted.stage = "none"
  /\ Accepted.readLeft = ReadTimeout
  /\ Kept.state = "idle" /\ Kept.stage = "none" /\ Kept.readLeft = 0
  /\ ~NoConn.overslept /\ ~Accepted.overslept /\ ~Kept.overslept
BY LoggingAssumption DEF NoConn, Accepted, Kept, Timeouts, Connections, ConnStates, Stages, Statuses

(* The header of a request is read on a connection that is new or idle.    *)
LEMMA HeaderConnection ==
  ASSUME NEW k \in Connections, NEW n \in Nat, NEW route \in Routes,
         NEW body \in BOOLEAN
  PROVE  LET new == Header(k, n, route, body)
         IN /\ new \in Connections /\ new.state = k.state
            /\ new.stage = "read" /\ new.overslept = k.overslept
            /\ new.readLeft = IF k.state = "new" THEN k.readLeft
                              ELSE ReadTimeout
            /\ new.req = n
<1> DEFINE left == IF k.state = "new" THEN k.readLeft ELSE ReadTimeout
           write == Timeouts.write
           new == [k EXCEPT !.stage = "read", !.req = n, !.route = route,
                            !.body = body, !.readLeft = left,
                            !.writeLeft = write]
<1>1. left \in Nat /\ write \in Nat /\ "read" \in Stages
  BY LoggingAssumption DEF Connections, Timeouts, Stages
<1>2. Header(k, n, route, body) = new
  BY DEF Header, Timeouts, Connections
<1> HIDE DEF left, write
<1>3. new \in Connections
  BY <1>1 DEF Connections
<1>4. new.state = k.state /\ new.stage = "read" /\ new.overslept = k.overslept
  BY DEF Connections
<1>5. new.readLeft = left /\ new.req = n
  BY DEF Connections
<1> HIDE DEF new
<1>6. QED
  BY <1>2, <1>3, <1>4, <1>5 DEF left

(* The middleware is entered: the connection is active, if still open.     *)
LEMMA EnteredConnection ==
  ASSUME NEW k \in Connections, NEW id \in Nat
  PROVE  /\ Entered(k, id) \in Connections
         /\ Entered(k, id).stage = "entered"
         /\ Entered(k, id).state \in {"active", "closed"}
         /\ Entered(k, id).readLeft = k.readLeft
         /\ Entered(k, id).overslept = k.overslept
<1> DEFINE state == IF k.state = "closed" THEN k.state ELSE "active"
           new == [k EXCEPT !.state = state, !.stage = "entered", !.id = id,
                            !.status = 200, !.age = 0]
<1>1. /\ state \in ConnStates /\ state \in {"active", "closed"}
      /\ "entered" \in Stages /\ 200 \in {0} \cup Statuses
      /\ 0 \in 0..(NewGrace + 1)
  BY LoggingAssumption DEF ConnStates, Stages, Statuses
<1>2. Entered(k, id) = new
  BY DEF Entered
<1> HIDE DEF state
<1>3. new \in Connections
  BY <1>1 DEF Connections
<1>4. /\ new.state = state /\ new.stage = "entered"
      /\ new.readLeft = k.readLeft /\ new.overslept = k.overslept
  BY DEF Connections
<1> HIDE DEF new
<1>5. QED
  BY <1>1, <1>2, <1>3, <1>4

LEMMA EnteredRequest ==
  ASSUME NEW k \in Connections, NEW id \in Nat
  PROVE  /\ Entered(k, id).req = k.req /\ Entered(k, id).id = id
         /\ Entered(k, id).status = 200 /\ Entered(k, id).stage = "entered"
BY DEF Entered, Connections

(* Shutdown looks at a connection, and closes it under a request.          *)
LEMMA SeenConnection ==
  ASSUME NEW k \in Connections
  PROVE  /\ Seen(k) \in Connections /\ Seen(k).state = k.state
         /\ Seen(k).stage = k.stage /\ Seen(k).readLeft = k.readLeft
         /\ Seen(k).overslept = k.overslept
<1>1. Seen(k) \in Connections
  BY DEF Seen, Connections
<1>2. QED
  BY <1>1 DEF Seen, Connections

LEMMA ClosedConnection ==
  ASSUME NEW k \in Connections
  PROVE  /\ Closed(k) \in Connections /\ Closed(k).state = "closed"
         /\ Closed(k).stage = k.stage /\ Closed(k).readLeft = k.readLeft
         /\ Closed(k).overslept = k.overslept
<1>1. "closed" \in ConnStates
  BY DEF ConnStates
<1>2. Closed(k) \in Connections
  BY <1>1 DEF Closed, Connections
<1>3. QED
  BY <1>2 DEF Closed, Connections

(* What stays of a connection while a request is served on it. *)
Same(new, k) ==
  /\ new \in Connections
  /\ new.state = k.state /\ new.readLeft = k.readLeft
  /\ new.overslept = k.overslept

LEMMA WholeConnection ==
  ASSUME NEW k \in Connections
  PROVE  Same(Whole(k), k) /\ Whole(k).stage = k.stage
<1>1. Whole(k) \in Connections
  BY DEF Whole, Connections
<1>2. /\ Whole(k).state = k.state /\ Whole(k).readLeft = k.readLeft
      /\ Whole(k).overslept = k.overslept /\ Whole(k).stage = k.stage
  BY DEF Whole, Connections
<1>3. QED
  BY <1>1, <1>2 DEF Same

LEMMA AsleepConnection ==
  ASSUME NEW k \in Connections, NEW id \in Nat
  PROVE  Same(Asleep(k, id), k) /\ Asleep(k, id).stage = "asleep"
<1>1. "asleep" \in Stages
  BY DEF Stages
<1>2. Asleep(k, id) \in Connections
  BY <1>1 DEF Asleep, Connections
<1>3. /\ Asleep(k, id).state = k.state /\ Asleep(k, id).readLeft = k.readLeft
      /\ Asleep(k, id).stage = "asleep"
  BY DEF Asleep, Connections
<1>4. Asleep(k, id).overslept = k.overslept
  BY DEF Asleep, Connections
<1>5. QED
  BY <1>2, <1>3, <1>4 DEF Same

LEMMA CompletedConnection ==
  ASSUME NEW k \in Connections
  PROVE  Same(Completed(k), k) /\ Completed(k).stage = "completed"
<1>1. "completed" \in Stages
  BY DEF Stages
<1>2. Completed(k) \in Connections
  BY <1>1 DEF Completed, Connections
<1>3. /\ Completed(k).state = k.state /\ Completed(k).readLeft = k.readLeft
      /\ Completed(k).overslept = k.overslept
      /\ Completed(k).stage = "completed"
  BY DEF Completed, Connections
<1>4. QED
  BY <1>2, <1>3 DEF Same

LEMMA WriteHeaderConnection ==
  ASSUME NEW k \in Connections, NEW status \in Statuses
  PROVE  /\ Same(WriteHeader(k, status), k)
         /\ WriteHeader(k, status).stage = k.stage
<1>1. WriteHeader(k, status) \in Connections
  BY DEF WriteHeader, Connections
<1>2. /\ WriteHeader(k, status).state = k.state
      /\ WriteHeader(k, status).readLeft = k.readLeft
      /\ WriteHeader(k, status).overslept = k.overslept
      /\ WriteHeader(k, status).stage = k.stage
  BY DEF WriteHeader, Connections
<1>3. QED
  BY <1>1, <1>2 DEF Same

LEMMA RepliedConnection ==
  ASSUME NEW k \in Connections
  PROVE  Same(Replied(k), k) /\ Replied(k).stage = "replied"
<1> DEFINE awake == [k EXCEPT !.stage = "replied"]
<1>1. "replied" \in Stages
  BY DEF Stages
<1>2. awake \in Connections
  BY <1>1 DEF Connections
<1>3. /\ awake.state = k.state /\ awake.readLeft = k.readLeft
      /\ awake.overslept = k.overslept /\ awake.stage = "replied"
  BY DEF Connections
<1>4. StatusOf(k.route) \in Statuses
  BY DEF StatusOf, Statuses
<1>5. Replied(k) \in {awake, WriteHeader(awake, StatusOf(k.route))}
  BY DEF Replied
<1> HIDE DEF awake
<1>6. QED
  BY <1>2, <1>3, <1>4, <1>5, WriteHeaderConnection DEF Same

Timed(k, age, left, write, asleep) ==
  [k EXCEPT !.age = age, !.readLeft = left, !.writeLeft = write,
            !.overslept = asleep]

LEMMA TimedConnection ==
  ASSUME NEW k \in Connections, NEW age \in 0..(NewGrace + 1),
         NEW left \in Nat, NEW write \in Nat, NEW asleep \in BOOLEAN
  PROVE  /\ Timed(k, age, left, write, asleep) \in Connections
         /\ Timed(k, age, left, write, asleep).state = k.state
         /\ Timed(k, age, left, write, asleep).stage = k.stage
         /\ Timed(k, age, left, write, asleep).readLeft = left
         /\ Timed(k, age, left, write, asleep).overslept = asleep
<1> DEFINE new == Timed(k, age, left, write, asleep)
<1>1. new \in Connections
  BY DEF Timed, Connections
<1>2. new.state = k.state /\ new.stage = k.stage /\ new.readLeft = left
  BY DEF Timed, Connections
<1>3. new.overslept = asleep
  BY DEF Timed, Connections
<1>4. QED
  BY <1>1, <1>2, <1>3

LEMMA AgedConnection ==
  ASSUME NEW k \in Connections
  PROVE  /\ Aged(k) \in Connections
         /\ Aged(k).state = k.state /\ Aged(k).stage = k.stage
         /\ k.state # "none" =>
              /\ Aged(k).readLeft = Less(k.readLeft)
              /\ Aged(k).overslept = (k.stage = "asleep")
         /\ k.state = "none" => Aged(k) = k
<1> DEFINE age == IF k.state = "new" /\ k.age <= NewGrace
                  THEN k.age + 1 ELSE k.age
           left == Less(k.readLeft)
           write == Less(k.writeLeft)
           asleep == k.stage = "asleep"
           new == Timed(k, age, left, write, asleep)
<1>1. NewGrace \in Nat
  BY LoggingAssumption
<1>2. k.age \in 0..(NewGrace + 1) /\ k.readLeft \in Nat /\ k.writeLeft \in Nat
  BY DEF Connections
<1>3. age \in 0..(NewGrace + 1)
  BY <1>1, <1>2
<1>4. left \in Nat /\ write \in Nat
  BY <1>2 DEF Less
<1>5. asleep \in BOOLEAN
  OBVIOUS
<1>6. k.state # "none" => Aged(k) = new
  BY DEF Aged, Timed
<1>7. k.state = "none" => Aged(k) = k
  BY DEF Aged
<1> HIDE DEF age, left, write, asleep
<1>8. /\ new \in Connections /\ new.state = k.state /\ new.stage = k.stage
      /\ new.readLeft = left /\ new.overslept = asleep
  BY <1>3, <1>4, <1>5, TimedConnection
<1> HIDE DEF new
<1>9. QED
  BY <1>6, <1>7, <1>8 DEF left, asleep

-----------------------------------------------------------------------------
(* Types. *)

USE LoggingAssumption

LEMMA ConnectionType ==
  ASSUME TypeOK, NEW c \in Conns, NEW k \in Connections,
         conns' = [conns EXCEPT ![c] = k]
  PROVE  conns' \in [Conns -> Connections]
BY DEF TypeOK

LEMMA ClientsType ==
  ASSUME TypeOK, NEW c \in Conns, Connect(c) \/ HangUp(c) \/ SendBody(c)
  PROVE  TypeOK'
<1>1. conns[c] \in Connections
  BY DEF TypeOK
<1>2. conns' \in [Conns -> Connections]
  BY <1>1, FreshConnections, WholeConnection, ConnectionType
     DEF Connect, HangUp, SendBody, Same
<1>3. QED
  BY <1>2 DEF TypeOK, Connect, HangUp, SendBody

LEMMA HeaderType ==
  ASSUME TypeOK, NEW c \in Conns, NEW route \in Routes, NEW body \in BOOLEAN,
         ReadHeader(c, route, body)
  PROVE  TypeOK'
<1>1. conns[c] \in Connections /\ requests + 1 \in Nat
  BY DEF TypeOK
<1>2. Header(conns[c], requests + 1, route, body) \in Connections
  BY <1>1, HeaderConnection
<1>3. conns' \in [Conns -> Connections]
  BY <1>2, ConnectionType DEF ReadHeader
<1>4. QED
  BY <1>1, <1>3 DEF TypeOK, ReadHeader

LEMMA EnterType ==
  ASSUME TypeOK, NEW c \in Conns, Enter(c)
  PROVE  TypeOK'
<1>1. conns[c] \in Connections /\ ids + 1 \in Nat
  BY DEF TypeOK
<1>2. Entered(conns[c], ids + 1) \in Connections
  BY <1>1, EnteredConnection
<1>3. conns' \in [Conns -> Connections]
  BY <1>2, ConnectionType DEF Enter
<1>4. Line(c, "incoming_request", ids + 1, 0) \in Lines
  BY <1>1 DEF Line, Lines, Connections
<1>5. QED
  BY <1>1, <1>3, <1>4 DEF TypeOK, Enter

LEMMA HandlerType ==
  ASSUME TypeOK, NEW c \in Conns, Handle(c) \/ Reply(c) \/ Complete(c)
  PROVE  TypeOK'
<1> DEFINE own == conns[c].route \in {"users", "process", "error"}
           id == IF own THEN ids + 1 ELSE 0
<1>1. conns[c] \in Connections /\ ids \in Nat /\ id \in Nat
  BY DEF TypeOK
<1>2. conns' \in [Conns -> Connections] /\ ids' \in Nat
  <2>1. /\ Asleep(conns[c], id) \in Connections
        /\ Replied(conns[c]) \in Connections
        /\ Completed(conns[c]) \in Connections
    BY <1>1, AsleepConnection, RepliedConnection, CompletedConnection DEF Same
  <2>2. CASE Handle(c)
    BY <1>1, <2>1, <2>2, ConnectionType DEF Handle
  <2>3. CASE Reply(c) \/ Complete(c)
    BY <1>1, <2>1, <2>3, ConnectionType DEF Reply, Complete
  <2>4. QED
    BY <2>2, <2>3
<1>3. Line(c, "handler", id, 0) \in Lines
  BY <1>1 DEF Line, Lines, Connections
<1>4. Line(c, "request_completed", conns[c].id, conns[c].status) \in Lines
  BY <1>1 DEF Line, Lines, Connections
<1>5. log' \subseteq Lines
  BY <1>3, <1>4 DEF TypeOK, Handle, Reply, Complete
<1>6. QED
  BY <1>2, <1>5 DEF TypeOK, Handle, Reply, Complete

LEMMA FlushType ==
  ASSUME TypeOK, NEW c \in Conns, Flush(c) \/ ReadTimesOut(c)
  PROVE  TypeOK'
<1>1. conns' \in [Conns -> Connections]
  BY FreshConnections, ConnectionType DEF Flush, ReadTimesOut
<1>2. conns[c] \in Connections
  BY DEF TypeOK
<1>3. answers' \subseteq [req : Nat, id : Nat, status : Statuses]
  BY <1>2 DEF TypeOK, Flush, ReadTimesOut, StatusOf, Statuses, Connections
<1>4. QED
  BY <1>1, <1>3 DEF TypeOK, Flush, ReadTimesOut

LEMMA MainType ==
  ASSUME TypeOK, ListenFails \/ Notify \/ Terminate \/ ShutdownReturns
  PROVE  TypeOK'
BY FreshConnections DEF TypeOK, ListenFails, Listening, Notify, Terminate,
   ShutdownReturns, Exit

LEMMA CloseType ==
  ASSUME TypeOK, NEW c \in Conns, SeeIdle(c) \/ CloseSeen(c)
  PROVE  TypeOK'
<1>1. conns[c] \in Connections
  BY DEF TypeOK
<1>2. PICK k \in Connections : conns' = [conns EXCEPT ![c] = k]
  BY <1>1, FreshConnections, SeenConnection, ClosedConnection
     DEF SeeIdle, CloseSeen
<1>3. conns' \in [Conns -> Connections]
  BY <1>2, ConnectionType
<1>4. QED
  BY <1>3 DEF TypeOK, SeeIdle, CloseSeen

LEMMA TickType ==
  ASSUME TypeOK, Tick
  PROVE  TypeOK'
<1>1. conns' \in [Conns -> Connections]
  BY AgedConnection DEF TypeOK, Tick
<1>2. timers' \in [shutdown : 0..ShutdownTimeout, kill : 0..GracePeriod]
  BY DEF TypeOK, Tick, Less
<1>3. QED
  BY <1>1, <1>2 DEF TypeOK, Tick

LEMMA TypePreserved == TypeOK /\ [Next]_vars => TypeOK'
<1> SUFFICES ASSUME TypeOK, [Next]_vars PROVE TypeOK'
  OBVIOUS
<1>1. CASE UNCHANGED vars
  BY <1>1 DEF vars, TypeOK
<1>2. QED
  BY <1>1, ClientsType, HeaderType, EnterType, HandlerType, FlushType,
     MainType, CloseType, TickType DEF Next, Serve, Shutdown

LEMMA InitInv == Init => StopsInv
<1> SUFFICES ASSUME Init PROVE StopsInv
  OBVIOUS
<1>1. TypeOK
  BY FreshConnections DEF Init, TypeOK
<1>2. StagesInv /\ AheadOfClients /\ StopsGracefully
  BY FreshConnections DEF Init, StagesInv, AheadOfClients, StopsGracefully
<1>3. QED
  BY <1>1, <1>2 DEF StopsInv

(* The variables keep their types. *)
THEOREM LoggingTypeCorrect == Spec => []TypeOK
<1>1. Init => TypeOK
  BY InitInv DEF StopsInv
<1>2. QED
  BY <1>1, TypePreserved, PTL DEF Spec

-----------------------------------------------------------------------------
(* A shutdown is never cut off. *)

(* StagesInv, one connection at a time. *)
StageOK(k) ==
  /\ k.state = "none" => k.stage = "none"
  /\ k.state \in {"new", "idle"} => k.stage \in {"none", "read"}
  /\ k.state = "active" => k.stage \notin {"none", "read"}
  /\ k.state = "closed" => k.stage # "none"
  /\ k.stage \in {"none", "read", "entered"} => ~k.overslept
  /\ k.stage \in {"read", "entered", "asleep"} /\ ~k.overslept
       => k.readLeft > 0
  /\ k.readLeft <= ReadTimeout

LEMMA StagesByConnection == StagesInv <=> \A c \in Conns : StageOK(conns[c])
BY DEF StagesInv, StageOK

LEMMA FreshStages == StageOK(NoConn) /\ StageOK(Accepted) /\ StageOK(Kept)
BY FreshConnections DEF StageOK

LEMMA OneStageChanges ==
  ASSUME TypeOK, StagesInv, NEW c \in Conns, NEW k, StageOK(k),
         conns' = [conns EXCEPT ![c] = k]
  PROVE  StagesInv'
<1>1. \A d \in Conns : StageOK(conns'[d])
  BY StagesByConnection DEF TypeOK
<1>2. QED
  BY <1>1 DEF StagesInv, StageOK

LEMMA HeaderStages ==
  ASSUME TypeOK, StagesInv, NEW c \in Conns, NEW route \in Routes,
         NEW body \in BOOLEAN, ReadHeader(c, route, body)
  PROVE  StagesInv'
<1>1. /\ conns[c] \in Connections /\ requests + 1 \in Nat
      /\ StageOK(conns[c])
  BY StagesByConnection DEF TypeOK
<1>2. PICK k : /\ k = Header(conns[c], requests + 1, route, body)
               /\ conns' = [conns EXCEPT ![c] = k]
  BY DEF ReadHeader
<1>3. /\ k.state = conns[c].state /\ k.stage = "read"
      /\ k.overslept = conns[c].overslept
      /\ k.readLeft = IF conns[c].state = "new" THEN conns[c].readLeft
                      ELSE ReadTimeout
  BY <1>1, <1>2, HeaderConnection
<1>4. /\ conns[c].stage = "none" /\ conns[c].state \in {"new", "idle"}
      /\ conns[c].state = "new" => conns[c].readLeft > 0
  BY DEF ReadHeader
<1>5. StageOK(k)
  BY <1>1, <1>3, <1>4 DEF StageOK
<1>6. QED
  BY <1>2, <1>5, OneStageChanges

LEMMA EnterStages ==
  ASSUME TypeOK, StagesInv, NEW c \in Conns, Enter(c)
  PROVE  StagesInv'
<1>1. /\ conns[c] \in Connections /\ ids + 1 \in Nat /\ StageOK(conns[c])
  BY StagesByConnection DEF TypeOK
<1>2. PICK k : /\ k = Entered(conns[c], ids + 1)
               /\ conns' = [conns EXCEPT ![c] = k]
  BY DEF Enter
<1>3. /\ k.state \in {"active", "closed"} /\ k.stage = "entered"
      /\ k.overslept = conns[c].overslept /\ k.readLeft = conns[c].readLeft
  <2>1. k.state \in {"active", "closed"} /\ k.stage = "entered"
    BY <1>1, <1>2, EnteredConnection
  <2>2. k.overslept = conns[c].overslept
    BY <1>1, <1>2, EnteredConnection
  <2>3. k.readLeft = conns[c].readLeft
    BY <1>1, <1>2, EnteredConnection
  <2>4. QED
    BY <2>1, <2>2, <2>3
<1>4. conns[c].stage = "read"
  BY DEF Enter
<1>5. StageOK(k)
  BY <1>1, <1>3, <1>4 DEF StageOK
<1>6. QED
  BY <1>2, <1>5, OneStageChanges

(* Shutdown closes a connection under what is going on on it.              *)
LEMMA CloseStages ==
  ASSUME TypeOK, StagesInv, NEW c \in Conns, SeeIdle(c) \/ CloseSeen(c)
  PROVE  StagesInv'
<1>1. conns[c] \in Connections /\ StageOK(conns[c])
  BY StagesByConnection DEF TypeOK
<1>2. CASE SeeIdle(c)
  <2>1. StageOK(Seen(conns[c]))
    BY <1>1, SeenConnection DEF StageOK
  <2>2. QED
    BY <1>2, <2>1, OneStageChanges DEF SeeIdle
<1>3. CASE CloseSeen(c) /\ conns[c].stage = "none"
  BY <1>3, FreshStages, OneStageChanges DEF CloseSeen
<1>4. CASE CloseSeen(c) /\ conns[c].stage # "none"
  <2>1. StageOK(Closed(conns[c]))
    BY <1>1, <1>4, ClosedConnection DEF StageOK
  <2>2. QED
    BY <1>4, <2>1, OneStageChanges DEF CloseSeen
<1>5. QED
  BY <1>2, <1>3, <1>4

LEMMA StagesPreserved == TypeOK /\ StagesInv /\ [Next]_vars => StagesInv'
<1> SUFFICES ASSUME TypeOK, StagesInv, [Next]_vars PROVE StagesInv'
  OBVIOUS
<1> USE DEF TypeOK
<1>1. ASSUME NEW c \in Conns, Connect(c) \/ HangUp(c) \/ Flush(c) \/ ReadTimesOut(c)
      PROVE  StagesInv'
  BY <1>1, FreshStages, OneStageChanges
     DEF Connect, HangUp, Flush, ReadTimesOut
<1>2. ASSUME NEW c \in Conns, NEW route \in Routes, NEW body \in BOOLEAN,
             ReadHeader(c, route, body)
      PROVE  StagesInv'
  BY <1>2, HeaderStages
<1>3. ASSUME NEW c \in Conns, SendBody(c) \/ Handle(c) \/ Reply(c) \/ Complete(c)
      PROVE  StagesInv'
  <2> DEFINE id == IF conns[c].route \in {"users", "process", "error"}
                   THEN ids + 1 ELSE 0
  <2>1. conns[c] \in Connections /\ id \in Nat /\ StageOK(conns[c])
    BY StagesByConnection
  <2>2. CASE SendBody(c)
    <3>1. StageOK(Whole(conns[c]))
      BY <2>1, <2>2, WholeConnection DEF SendBody, StageOK, Same
    <3>2. QED
      BY <2>2, <3>1, OneStageChanges DEF SendBody
  <2>3. CASE Handle(c)
    <3>1. StageOK(Asleep(conns[c], id))
      <4>1. conns[c].stage = "entered"
        BY <2>3 DEF Handle
      <4> HIDE DEF id
      <4>2. Same(Asleep(conns[c], id), conns[c])
            /\ Asleep(conns[c], id).stage = "asleep"
        BY <2>1, AsleepConnection
      <4>3. QED
        BY <2>1, <4>1, <4>2 DEF StageOK, Same
    <3>2. QED
      BY <2>3, <3>1, OneStageChanges DEF Handle
  <2>4. CASE Reply(c)
    <3>1. StageOK(Replied(conns[c]))
      BY <2>1, <2>4, RepliedConnection DEF Reply, StageOK, Same
    <3>2. QED
      BY <2>4, <3>1, OneStageChanges DEF Reply
  <2>5. CASE Complete(c)
    <3>1. StageOK(Completed(conns[c]))
      BY <2>1, <2>5, CompletedConnection DEF Complete, StageOK, Same
    <3>2. QED
      BY <2>5, <3>1, OneStageChanges DEF Complete
  <2>6. QED
    BY <1>3, <2>2, <2>3, <2>4, <2>5
<1>4. CASE ListenFails \/ Notify \/ Terminate \/ ShutdownReturns
  <2>1. \A c \in Conns : conns'[c] \in {conns[c], NoConn}
    BY <1>4 DEF ListenFails, Notify, Terminate, ShutdownReturns, Exit
  <2>2. \A c \in Conns : StageOK(conns'[c])
    BY <2>1, FreshStages, StagesByConnection
  <2>3. QED
    BY <2>2 DEF StagesInv, StageOK
<1>5. CASE Tick
  <2>1. ASSUME NEW c \in Conns PROVE StageOK(conns'[c])
    <3>1. /\ conns[c] \in Connections /\ conns'[c] = Aged(conns[c])
          /\ MayWait(c) /\ StageOK(conns[c])
      BY <1>5, StagesByConnection DEF Tick
    <3>2. conns[c].stage \notin {"read", "entered"} /\ conns[c].readLeft \in Nat
      BY <3>1 DEF MayWait, Connections
    <3>3. CASE conns[c].state = "none"
      BY <3>1, <3>3, AgedConnection
    <3>4. CASE conns[c].state # "none"
      <4>1. /\ conns'[c].state = conns[c].state
            /\ conns'[c].stage = conns[c].stage
            /\ conns'[c].readLeft = Less(conns[c].readLeft)
            /\ conns'[c].overslept = (conns[c].stage = "asleep")
        BY <3>1, <3>4, AgedConnection
      <4>2. Less(conns[c].readLeft) <= ReadTimeout
        BY <3>1, <3>2 DEF StageOK, Less
      <4>3. QED
        BY <3>1, <3>2, <4>1, <4>2 DEF StageOK
    <3>5. QED
      BY <3>3, <3>4
  <2>2. QED
    BY <2>1 DEF StagesInv, StageOK
<1>6. CASE UNCHANGED vars
  BY <1>6 DEF vars, StagesInv
<1>7. QED
  BY <1>1, <1>2, <1>3, <1>4, <1>5, <1>6, EnterStages, CloseStages
     DEF Next, Serve, Shutdown

-----------------------------------------------------------------------------
(* AheadOfClients, one connection at a time: what is left to a client can  *)
(* be used up before what is left to Shutdown and to the container.        *)
Full == [shutdown |-> ShutdownTimeout, kill |-> GracePeriod]

InTime(k, t) ==
  k.state # "none" =>
    /\ k.readLeft + ShutdownTimeout <= t.shutdown + ReadTimeout
    /\ k.readLeft + GracePeriod <= t.kill + ReadTimeout
    /\ k.state = "idle" => t = Full

LEMMA AheadByConnection ==
  AheadOfClients <=>
    /\ main \in {"starting", "waiting"} => timers = Full
    /\ timers.shutdown > 0 /\ timers.kill > 0
    /\ main = "draining" => \A c \in Conns : InTime(conns[c], timers)
BY DEF AheadOfClients, InTime, Full

LEMMA ClosedInTime ==
  ASSUME NEW t PROVE InTime(NoConn, t)
BY FreshConnections DEF InTime

LEMMA SameInTime ==
  ASSUME NEW t, NEW k, NEW new, Same(new, k), InTime(k, t)
  PROVE  InTime(new, t)
BY DEF Same, InTime

(* One connection becomes k, and main and its timers stay. *)
LEMMA OneInTime ==
  ASSUME TypeOK, AheadOfClients, main' = main, timers' = timers,
         NEW c \in Conns, NEW k, conns' = [conns EXCEPT ![c] = k],
         main = "draining" => InTime(k, timers)
  PROVE  AheadOfClients'
<1>1. main = "draining" => \A d \in Conns : InTime(conns'[d], timers)
  BY AheadByConnection DEF TypeOK
<1>2. QED
  BY <1>1, AheadByConnection DEF AheadOfClients, InTime, Full

LEMMA HeaderInTime ==
  ASSUME TypeOK, StagesInv, AheadOfClients, NEW c \in Conns,
         NEW route \in Routes, NEW body \in BOOLEAN,
         ReadHeader(c, route, body)
  PROVE  AheadOfClients'
<1>1. PICK k : /\ k = Header(conns[c], requests + 1, route, body)
               /\ conns' = [conns EXCEPT ![c] = k]
  BY DEF ReadHeader
<1>2. /\ main' = main /\ timers' = timers
      /\ conns[c].state \in {"new", "idle"}
  BY DEF ReadHeader
<1>3. /\ k.state = conns[c].state
      /\ k.readLeft = IF conns[c].state = "new" THEN conns[c].readLeft
                      ELSE ReadTimeout
  <2>1. conns[c] \in Connections /\ requests + 1 \in Nat
    BY DEF TypeOK
  <2>2. QED
    BY <1>1, <2>1, HeaderConnection
<1>4. ASSUME main = "draining" PROVE InTime(k, timers)
  <2>1. InTime(conns[c], timers)
    BY <1>4, AheadByConnection
  <2>2. CASE conns[c].state = "new"
    BY <1>3, <2>1, <2>2 DEF InTime
  <2>3. CASE conns[c].state = "idle"
    <3>1. timers = Full
      BY <2>1, <2>3 DEF InTime
    <3>2. QED
      BY <1>3, <2>3, <3>1 DEF InTime, Full
  <2>4. QED
    BY <1>2, <2>2, <2>3
<1>5. QED
  BY <1>1, <1>2, <1>4, OneInTime

(* A connection that is not idle afterwards has the time it had.           *)
LEMMA NoMoreTime ==
  ASSUME NEW t, NEW k, NEW new, InTime(k, t), new.readLeft = k.readLeft,
         k.state # "none", new.state = "idle" => k.state = "idle"
  PROVE  InTime(new, t)
BY DEF InTime

LEMMA EnterInTime ==
  ASSUME TypeOK, StagesInv, AheadOfClients, NEW c \in Conns, Enter(c)
  PROVE  AheadOfClients'
<1>1. PICK k : /\ k = Entered(conns[c], ids + 1)
               /\ conns' = [conns EXCEPT ![c] = k]
  BY DEF Enter
<1>2. k.state \in {"active", "closed"} /\ k.readLeft = conns[c].readLeft
  <2>1. conns[c] \in Connections /\ ids + 1 \in Nat
    BY DEF TypeOK
  <2>2. k.state \in {"active", "closed"}
    BY <1>1, <2>1, EnteredConnection
  <2>3. k.readLeft = conns[c].readLeft
    BY <1>1, <2>1, EnteredConnection
  <2>4. QED
    BY <2>2, <2>3
<1>3. conns[c].state # "none" /\ main' = main /\ timers' = timers
  BY DEF Enter, StagesInv
<1>4. main = "draining" => InTime(k, timers)
  <2>1. main = "draining" => InTime(conns[c], timers)
    BY AheadByConnection
  <2>2. k.state # "idle"
    BY <1>2
  <2>3. QED
    BY <1>2, <1>3, <2>1, <2>2, NoMoreTime
<1>5. QED
  BY <1>1, <1>3, <1>4, OneInTime

LEMMA CloseInTime ==
  ASSUME TypeOK, StagesInv, AheadOfClients, NEW c \in Conns,
         SeeIdle(c) \/ CloseSeen(c)
  PROVE  AheadOfClients'
<1>1. /\ main = "draining" /\ main' = main /\ timers' = timers
      /\ conns[c] \in Connections /\ InTime(conns[c], timers)
  BY AheadByConnection DEF SeeIdle, CloseSeen, TypeOK
<1>2. CASE SeeIdle(c)
  <2>1. conns[c].state # "none"
    BY <1>2 DEF SeeIdle, Closable
  <2>2. InTime(Seen(conns[c]), timers)
    BY <1>1, <2>1, SeenConnection, NoMoreTime
  <2>3. QED
    BY <1>1, <1>2, <2>2, OneInTime DEF SeeIdle
<1>3. CASE CloseSeen(c) /\ conns[c].stage = "none"
  BY <1>1, <1>3, ClosedInTime, OneInTime DEF CloseSeen
<1>4. CASE CloseSeen(c) /\ conns[c].stage # "none"
  <2>1. conns[c].state # "none"
    BY <1>4 DEF StagesInv
  <2>2. InTime(Closed(conns[c]), timers)
    BY <1>1, <2>1, ClosedConnection, NoMoreTime
  <2>3. QED
    BY <1>1, <1>4, <2>2, OneInTime DEF CloseSeen
<1>5. QED
  BY <1>2, <1>3, <1>4

LEMMA TickInTime ==
  ASSUME TypeOK, StagesInv, AheadOfClients, Tick
  PROVE  AheadOfClients'
<1>1. CASE main # "draining"
  BY <1>1 DEF Tick, AheadOfClients
<1>2. CASE main = "draining"
  <2>1. /\ timers' = [shutdown |-> Less(timers.shutdown),
                      kill |-> Less(timers.kill)]
        /\ timers.shutdown \in Nat /\ timers.kill \in Nat
        /\ timers.shutdown > 0 /\ timers.kill > 0 /\ main' = main
        /\ timers'.shutdown = timers.shutdown - 1
        /\ timers'.kill = timers.kill - 1
    BY <1>2 DEF Tick, TypeOK, Less
  <2>2. ASSUME NEW c \in Conns, conns[c].state # "none"
        PROVE  /\ conns'[c].state = conns[c].state /\ conns[c].state # "idle"
               /\ conns'[c].readLeft + ShutdownTimeout
                    <= timers'.shutdown + ReadTimeout
               /\ conns'[c].readLeft + GracePeriod
                    <= timers'.kill + ReadTimeout
               /\ conns'[c].readLeft \in Nat
    <3>1. /\ conns'[c] = Aged(conns[c]) /\ conns[c] \in Connections
          /\ MayWait(c) /\ ~Closable(c)
      BY <1>2 DEF Tick, TypeOK
    <3>2. /\ conns'[c].state = conns[c].state
          /\ conns'[c].readLeft = Less(conns[c].readLeft)
      BY <2>2, <3>1, AgedConnection
    <3>3. /\ conns[c].state \in {"new", "active", "closed"}
          /\ conns[c].readLeft \in Nat
      BY <2>2, <3>1 DEF Closable, Connections, ConnStates
    <3>4. conns[c].readLeft > 0
      BY <3>1, <3>3 DEF MayWait, StagesInv
    <3>5. /\ conns[c].readLeft + ShutdownTimeout
                <= timers.shutdown + ReadTimeout
          /\ conns[c].readLeft + GracePeriod <= timers.kill + ReadTimeout
      BY <1>2, <2>2 DEF AheadOfClients
    <3>6. conns'[c].readLeft = conns[c].readLeft - 1
      BY <3>2, <3>3, <3>4 DEF Less
    <3>7. QED
      BY <2>1, <3>2, <3>3, <3>4, <3>5, <3>6
  <2>3. PICK d \in Conns : conns[d].state \notin {"none", "closed"}
    BY <1>2 DEF Tick, Quiescent
  <2>4. timers'.shutdown > 0 /\ timers'.kill > 0
    BY <2>1, <2>2, <2>3
  <2>5. \A c \in Conns : InTime(conns'[c], timers')
    <3>1. ASSUME NEW c \in Conns, conns[c].state = "none"
          PROVE  conns'[c].state = "none"
      BY <1>2, <3>1 DEF Tick, Aged
    <3>2. QED
      BY <2>2, <3>1 DEF InTime
  <2>6. QED
    BY <1>2, <2>1, <2>4, <2>5 DEF AheadOfClients, InTime, Full
<1>3. QED
  BY <1>1, <1>2

LEMMA MainInTime ==
  ASSUME TypeOK, StagesInv, AheadOfClients,
         ListenFails \/ Notify \/ Terminate \/ ShutdownReturns
  PROVE  AheadOfClients'
<1>1. timers' = timers
  BY DEF ListenFails, Notify, Terminate, ShutdownReturns, Exit
<1>2. CASE main' # "draining"
  BY <1>1, <1>2 DEF AheadOfClients, ListenFails, Listening, Notify, Terminate,
     ShutdownReturns, Exit
<1>3. CASE main' = "draining"
  <2>1. main = "waiting" /\ conns' = conns /\ timers = Full
    BY <1>3 DEF ListenFails, Notify, Terminate, ShutdownReturns, Exit,
       AheadOfClients, Full
  <2>2. \A c \in Conns :
          conns[c].readLeft \in Nat /\ conns[c].readLeft <= ReadTimeout
    BY DEF TypeOK, StagesInv, Connections
  <2>3. QED
    BY <1>1, <1>3, <2>1, <2>2 DEF AheadOfClients, Full
<1>4. QED
  BY <1>2, <1>3

LEMMA ServedInTime ==
  ASSUME TypeOK, AheadOfClients, NEW c \in Conns,
         SendBody(c) \/ Handle(c) \/ Reply(c) \/ Complete(c)
  PROVE  AheadOfClients'
<1> DEFINE id == IF conns[c].route \in {"users", "process", "error"}
                 THEN ids + 1 ELSE 0
<1>1. conns[c] \in Connections /\ id \in Nat
  BY DEF TypeOK
<1>2. /\ Same(Whole(conns[c]), conns[c]) /\ Same(Asleep(conns[c], id), conns[c])
      /\ Same(Replied(conns[c]), conns[c])
      /\ Same(Completed(conns[c]), conns[c])
  BY <1>1, WholeConnection, AsleepConnection, RepliedConnection,
     CompletedConnection
<1>3. main = "draining" => InTime(conns[c], timers)
  BY AheadByConnection
<1>4. PICK k : Same(k, conns[c]) /\ conns' = [conns EXCEPT ![c] = k]
  BY <1>2 DEF SendBody, Handle, Reply, Complete
<1>5. main' = main /\ timers' = timers
  BY DEF SendBody, Handle, Reply, Complete
<1>6. QED
  BY <1>3, <1>4, <1>5, SameInTime, OneInTime

LEMMA AheadPreserved ==
  TypeOK /\ StagesInv /\ AheadOfClients /\ [Next]_vars => AheadOfClients'
<1> SUFFICES ASSUME TypeOK, StagesInv, AheadOfClients, [Next]_vars
             PROVE  AheadOfClients'
  OBVIOUS
<1>1. ASSUME NEW c \in Conns, Connect(c) \/ HangUp(c) \/ Flush(c) \/ ReadTimesOut(c)
      PROVE  AheadOfClients'
  <2>1. main' = main /\ timers' = timers
    BY <1>1 DEF Connect, HangUp, Flush, ReadTimesOut
  <2>2. PICK k : /\ conns' = [conns EXCEPT ![c] = k]
                 /\ main = "draining" => k = NoConn
    BY <1>1 DEF Connect, Listening, HangUp, Flush, ReadTimesOut
  <2>3. QED
    BY <2>1, <2>2, ClosedInTime, OneInTime
<1>2. CASE UNCHANGED vars
  BY <1>2 DEF vars, AheadOfClients
<1>3. QED
  BY <1>1, <1>2, ServedInTime, HeaderInTime, EnterInTime, MainInTime,
     CloseInTime, TickInTime DEF Next, Serve, Shutdown

(* Nothing cuts Shutdown off while it waits. *)
LEMMA StopsPreserved ==
  AheadOfClients /\ AheadOfClients' /\ StopsGracefully /\ [Next]_vars
    => StopsGracefully'
<1> SUFFICES ASSUME AheadOfClients, AheadOfClients', StopsGracefully, [Next]_vars
             PROVE  ended' \in {ended, "gracefully", "signalled", "failed"}
  BY DEF StopsGracefully, AheadOfClients
<1>1. timers.shutdown # 0
  BY DEF AheadOfClients
<1>2. QED
  BY <1>1 DEF Next, vars, Connect, HangUp, SendBody, Serve, Handle, Reply,
     Complete, Flush, ReadTimesOut, ReadHeader, Enter, ListenFails, Notify,
     Terminate, Shutdown, SeeIdle, CloseSeen, ShutdownReturns, Tick, Exit

(* The inductive invariant. *)
THEOREM StopsInvCorrect == Spec => []StopsInv
<1>1. StopsInv /\ [Next]_vars => StopsInv'
  BY TypePreserved, StagesPreserved, AheadPreserved, StopsPreserved
     DEF StopsInv
<1>2. QED
  BY InitInv, <1>1, PTL DEF Spec

(* With timeouts like the code's the process never gives up on a request:  *)
(* neither main nor the kubelet cuts a shutdown off, whatever the clients  *)
(* do and however many they are.                                           *)
THEOREM StopsGracefullyCorrect == Spec => []StopsGracefully
<1>1. StopsInv => StopsGracefully
  BY DEF StopsInv
<1>2. QED
  BY <1>1, StopsInvCorrect, PTL

-----------------------------------------------------------------------------
(* The log tells what clients saw. *)

Incoming(n, i) ==
  [req |-> n, event |-> "incoming_request", id |-> i, status |-> 0]

Finished(n, i, status) ==
  [req |-> n, event |-> "request_completed", id |-> i, status |-> status]

(* What the log and the answers have of the request on connection k: it    *)
(* has come in, with its id, when the middleware has it; nobody has        *)
(* answered it; it is only logged as completed at the end, and then with   *)
(* the status that its answer has.                                         *)
RequestOK(k, lines, given, n) ==
  k.stage # "none" =>
    /\ k.req \in 1..n
    /\ k.stage # "read" => Incoming(k.req, k.id) \in lines
    /\ k.stage \in {"entered", "asleep"} => k.status = 200
    /\ k.stage \in {"replied", "completed"} => k.status = StatusOf(k.route)
    /\ k.stage = "completed" => Finished(k.req, k.id, k.status) \in lines
    /\ k.stage # "completed" =>
         \A line \in lines : line.event = "request_completed" => line.req # k.req
    /\ \A a \in given : a.req # k.req

(* A request is on one connection. *)
OneConnection ==
  \A c, d \in Conns :
    conns[c].stage # "none" /\ conns[d].stage # "none"
      /\ conns[c].req = conns[d].req => c = d

(* An id is logged as coming in once.  A completed line has a line of the  *)
(* request coming in, an answer has a completed line of its status, and    *)
(* the completed lines of a request agree.                                 *)
LinesMatch ==
  /\ \A line \in log : line.event = "incoming_request" => line.id \in 1..ids
  /\ \A l, m \in log :
       l.event = "incoming_request" /\ m.event = "incoming_request"
         /\ l.id = m.id => l = m
  /\ \A line \in log : line.event = "request_completed" =>
       line.req \in 1..requests /\ Incoming(line.req, line.id) \in log
  /\ \A l, m \in log :
       l.event = "request_completed" /\ m.event = "request_completed"
         /\ l.req = m.req => l.status = m.status
  /\ \A a \in answers : \E line \in log :
       /\ line.event = "request_completed"
       /\ line.req = a.req /\ line.status = a.status

LogInv ==
  /\ TypeOK /\ OneConnection /\ LinesMatch
  /\ \A c \in Conns : RequestOK(conns[c], log, answers, requests)

(* What stays of the request itself while it is served. *)
SameRequest(new, k) ==
  new.req = k.req /\ new.id = k.id /\ new.route = k.route

LEMMA RequestStays ==
  ASSUME NEW k \in Connections, NEW id \in Nat
  PROVE  /\ SameRequest(Whole(k), k) /\ Whole(k).status = k.status
         /\ SameRequest(Asleep(k, id), k) /\ Asleep(k, id).status = k.status
         /\ SameRequest(Completed(k), k) /\ Completed(k).status = k.status
         /\ SameRequest(Aged(k), k) /\ Aged(k).status = k.status
<1>1. SameRequest(Whole(k), k) /\ Whole(k).status = k.status
  BY DEF Whole, SameRequest, Connections
<1>2. SameRequest(Asleep(k, id), k) /\ Asleep(k, id).status = k.status
  BY DEF Asleep, SameRequest, Connections
<1>3. SameRequest(Completed(k), k) /\ Completed(k).status = k.status
  BY DEF Completed, SameRequest, Connections
<1>4. SameRequest(Aged(k), k) /\ Aged(k).status = k.status
  <2>1. CASE k.state = "none"
    BY <2>1 DEF Aged, SameRequest
  <2>2. CASE k.state # "none"
    <3> DEFINE age == IF k.state = "new" /\ k.age <= NewGrace
                      THEN k.age + 1 ELSE k.age
               left == Less(k.readLeft)
               write == Less(k.writeLeft)
               asleep == k.stage = "asleep"
    <3>1. Aged(k) = Timed(k, age, left, write, asleep)
      BY <2>2 DEF Aged, Timed
    <3> HIDE DEF age, left, write, asleep
    <3>2. QED
      BY <3>1 DEF Timed, SameRequest, Connections
  <2>3. QED
    BY <2>1, <2>2
<1>5. QED
  BY <1>1, <1>2, <1>3, <1>4

(* The handler's status is the one its route answers: those that set it,   *)
(* and the others leave the 200 that the middleware starts with.           *)
LEMMA RepliedStatus ==
  ASSUME NEW k \in Connections, k.status = 200
  PROVE  SameRequest(Replied(k), k) /\ Replied(k).status = StatusOf(k.route)
<1> DEFINE awake == [k EXCEPT !.stage = "replied"]
           status == StatusOf(k.route)
<1>1. awake \in Connections
  BY DEF Connections, Stages
<1>2. SameRequest(awake, k) /\ awake.status = 200
  BY DEF SameRequest, Connections
<1>3. Replied(k) = IF k.route \in {"health", "error", "unclean"}
                   THEN WriteHeader(awake, status) ELSE awake
  BY DEF Replied
<1>4. k.route \notin {"health", "error", "unclean"} => status = 200
  BY DEF StatusOf
<1> HIDE DEF awake, status
<1>5. /\ SameRequest(WriteHeader(awake, status), awake)
      /\ WriteHeader(awake, status).status = status
  BY <1>1 DEF WriteHeader, SameRequest, Connections
<1>6. SameRequest(Replied(k), k) /\ Replied(k).status = status
  BY <1>2, <1>3, <1>4, <1>5 DEF SameRequest
<1>7. QED
  BY <1>6 DEF status

(* Where nothing is served nothing is claimed. *)
LEMMA NothingServed ==
  ASSUME NEW lines, NEW given, NEW n
  PROVE  /\ RequestOK(NoConn, lines, given, n)
         /\ RequestOK(Accepted, lines, given, n)
         /\ RequestOK(Kept, lines, given, n)
BY FreshConnections DEF RequestOK

(* Lines and answers of other requests do not disturb a request. *)
LEMMA OthersLogged ==
  ASSUME NEW k, NEW lines, NEW lines2, NEW given, NEW given2,
         NEW n \in Nat, NEW n2 \in Nat, n <= n2, lines \subseteq lines2,
         \A line \in lines2 \ lines :
           line.event = "request_completed" => line.req # k.req,
         \A a \in given2 \ given : a.req # k.req,
         RequestOK(k, lines, given, n)
  PROVE  RequestOK(k, lines2, given2, n2)
BY DEF RequestOK

(* A connection that changes without its request and stage.                *)
LEMMA Unserved ==
  ASSUME NEW k, NEW new, NEW lines, NEW given, NEW n,
         SameRequest(new, k), new.stage = k.stage, new.status = k.status,
         RequestOK(k, lines, given, n)
  PROVE  RequestOK(new, lines, given, n)
BY DEF RequestOK, SameRequest

(* No request begins on a connection, and no id. *)
Continues(c) ==
  conns'[c].stage # "none" =>
    conns[c].stage # "none" /\ conns'[c].req = conns[c].req

LEMMA StillOneConnection ==
  ASSUME OneConnection, \A c \in Conns : Continues(c)
  PROVE  OneConnection'
BY DEF OneConnection, Continues

(* Only connections change. *)
LEMMA ConnectionsOnly ==
  ASSUME LogInv, TypeOK', UNCHANGED << log, answers, requests, ids >>,
         \A c \in Conns :
           Continues(c) /\ RequestOK(conns'[c], log, answers, requests)
  PROVE  LogInv'
<1>1. OneConnection'
  BY StillOneConnection DEF LogInv
<1>2. LinesMatch'
  BY DEF LogInv, LinesMatch
<1>3. QED
  BY <1>1, <1>2 DEF LogInv

LEMMA QuietLog ==
  ASSUME LogInv, TypeOK', NEW c \in Conns,
         Connect(c) \/ HangUp(c) \/ SendBody(c) \/ Reply(c) \/ ReadTimesOut(c)
  PROVE  LogInv'
<1> DEFINE k == conns'[c]
<1>1. conns[c] \in Connections /\ RequestOK(conns[c], log, answers, requests)
  BY DEF LogInv, TypeOK
<1>2. /\ UNCHANGED << log, answers, requests, ids >>
      /\ \A d \in Conns : d # c => conns'[d] = conns[d]
  BY DEF Connect, HangUp, SendBody, Reply, ReadTimesOut, LogInv, TypeOK
<1>3. Continues(c) /\ RequestOK(k, log, answers, requests)
  <2>1. CASE Connect(c) \/ HangUp(c) \/ ReadTimesOut(c)
    <3>1. k \in {NoConn, Accepted}
      BY <2>1 DEF Connect, HangUp, ReadTimesOut, LogInv, TypeOK
    <3>2. QED
      BY <3>1, FreshConnections, NothingServed DEF Continues
  <2>2. CASE SendBody(c)
    <3>1. k = Whole(conns[c])
      BY <2>2 DEF SendBody, LogInv, TypeOK
    <3>2. /\ SameRequest(k, conns[c]) /\ k.stage = conns[c].stage
          /\ k.status = conns[c].status
      BY <1>1, <3>1, RequestStays, WholeConnection
    <3>3. QED
      BY <1>1, <3>2, Unserved DEF Continues, SameRequest
  <2>3. CASE Reply(c)
    <3>1. k = Replied(conns[c]) /\ conns[c].stage = "asleep"
      BY <2>3 DEF Reply, LogInv, TypeOK
    <3>2. conns[c].status = 200
      BY <1>1, <3>1 DEF RequestOK
    <3>3. /\ SameRequest(k, conns[c]) /\ k.stage = "replied"
          /\ k.status = StatusOf(k.route)
      BY <1>1, <3>1, <3>2, RepliedStatus, RepliedConnection DEF SameRequest
    <3> HIDE DEF k
    <3>4. RequestOK(k, log, answers, requests)
      BY <1>1, <3>1, <3>3 DEF RequestOK, SameRequest
    <3>5. QED
      BY <3>1, <3>3, <3>4 DEF Continues, SameRequest, k
  <2>4. QED
    BY <2>1, <2>2, <2>3
<1>4. \A d \in Conns :
        Continues(d) /\ RequestOK(conns'[d], log, answers, requests)
  BY <1>2, <1>3 DEF Continues, LogInv
<1>5. QED
  BY <1>2, <1>4, ConnectionsOnly

(* A new request has a number of its own. *)
LEMMA HeaderLog ==
  ASSUME LogInv, TypeOK', NEW c \in Conns, NEW route \in Routes,
         NEW body \in BOOLEAN, ReadHeader(c, route, body)
  PROVE  LogInv'
<1>1. PICK n : n = requests + 1
  OBVIOUS
<1>2. requests \in Nat /\ n \in Nat /\ conns[c] \in Connections
  BY <1>1 DEF LogInv, TypeOK
<1>3. PICK k : k = Header(conns[c], n, route, body)
  OBVIOUS
<1>4. /\ UNCHANGED << log, answers, ids >> /\ requests' = n
      /\ conns'[c] = k /\ \A d \in Conns : d # c => conns'[d] = conns[d]
  BY <1>1, <1>3 DEF ReadHeader, LogInv, TypeOK
<1>5. k.stage = "read" /\ k.req = n
  BY <1>2, <1>3, HeaderConnection
<1>6. OneConnection'
  <2>1. \A d \in Conns : conns[d].stage # "none" => conns[d].req # n
    BY <1>1, <1>2 DEF LogInv, RequestOK
  <2>2. QED
    BY <1>4, <1>5, <2>1 DEF OneConnection, LogInv
<1>7. LinesMatch'
  <2>1. \A j \in 1..requests : j \in 1..requests'
    BY <1>1, <1>2, <1>4
  <2>2. QED
    BY <1>4, <2>1 DEF LogInv, LinesMatch
<1>8. RequestOK(k, log, answers, n)
  <2>1. \A line \in log : line.event = "request_completed" => line.req # n
    BY <1>1, <1>2 DEF LogInv, LinesMatch
  <2>2. \A a \in answers : a.req # n
    BY <1>1, <1>2 DEF LogInv, LinesMatch
  <2>3. n \in 1..n
    BY <1>1, <1>2
  <2>4. QED
    BY <1>5, <2>1, <2>2, <2>3 DEF RequestOK
<1>9. \A d \in Conns : d # c => RequestOK(conns'[d], log, answers, n)
  <2>1. n >= requests
    BY <1>1, <1>2
  <2>2. QED
    BY <1>2, <1>4, <2>1, OthersLogged DEF LogInv
<1>10. QED
  BY <1>4, <1>6, <1>7, <1>8, <1>9 DEF LogInv

(* The middleware gives a request an id of its own. *)
LEMMA EnterLog ==
  ASSUME LogInv, TypeOK', NEW c \in Conns, Enter(c)
  PROVE  LogInv'
<1>1. PICK i : i = ids + 1
  OBVIOUS
<1>2. PICK n : n = conns[c].req
  OBVIOUS
<1>3. PICK k : k = Entered(conns[c], i)
  OBVIOUS
<1>4. PICK line : line = Incoming(n, i)
  OBVIOUS
<1>5. /\ ids \in Nat /\ i \in Nat /\ conns[c] \in Connections
      /\ requests \in Nat
  BY <1>1 DEF LogInv, TypeOK
<1>6. /\ UNCHANGED << requests, answers >> /\ ids' = i
      /\ log' = log \cup {line} /\ conns[c].stage = "read"
      /\ conns'[c] = k /\ \A d \in Conns : d # c => conns'[d] = conns[d]
  BY <1>1, <1>2, <1>3, <1>4 DEF Enter, LogInv, TypeOK, Line, Incoming
<1>7. /\ k.req = n /\ k.id = i /\ k.status = 200 /\ k.stage = "entered"
  <2>1. k.req = n /\ k.id = i
    BY <1>2, <1>3, <1>5, EnteredRequest
  <2>2. k.status = 200
    BY <1>2, <1>3, <1>5, EnteredRequest
  <2>3. k.stage = "entered"
    BY <1>2, <1>3, <1>5, EnteredRequest
  <2>4. QED
    BY <2>1, <2>2, <2>3
<1>8. line.req = n /\ line.id = i /\ line.event = "incoming_request"
  BY <1>4 DEF Incoming
<1>9. OneConnection'
  <2>1. \A d \in Conns : Continues(d)
    BY <1>2, <1>6, <1>7 DEF Continues
  <2>2. QED
    BY <2>1, StillOneConnection DEF LogInv
<1>10. LinesMatch'
  <2>1. \A l \in log' : l.event = "incoming_request" => l.id \in 1..ids'
    <3>1. \A j \in 1..ids : j \in 1..i
      BY <1>1, <1>5
    <3>2. i \in 1..i
      BY <1>1, <1>5
    <3>3. QED
      BY <1>6, <1>8, <3>1, <3>2 DEF LogInv, LinesMatch
  <2>2. \A l, m \in log' :
          l.event = "incoming_request" /\ m.event = "incoming_request"
            /\ l.id = m.id => l = m
    <3>1. \A l \in log : l.event = "incoming_request" => l.id # i
      BY <1>1, <1>5 DEF LogInv, LinesMatch
    <3>2. QED
      BY <1>6, <1>8, <3>1 DEF LogInv, LinesMatch
  <2>3. \A l \in log' : l.event = "request_completed" =>
          l \in log /\ l.req \in 1..requests' /\ Incoming(l.req, l.id) \in log'
    BY <1>6, <1>8 DEF LogInv, LinesMatch
  <2>4. \A l, m \in log' :
          l.event = "request_completed" /\ m.event = "request_completed"
            /\ l.req = m.req => l.status = m.status
    BY <2>3 DEF LogInv, LinesMatch
  <2>5. \A a \in answers' : \E l \in log' :
          /\ l.event = "request_completed"
          /\ l.req = a.req /\ l.status = a.status
    BY <1>6 DEF LogInv, LinesMatch
  <2>6. QED
    BY <2>1, <2>2, <2>3, <2>4, <2>5 DEF LinesMatch
<1>11. RequestOK(k, log', answers, requests)
  <2>1. /\ n \in 1..requests /\ \A a \in answers : a.req # n
        /\ \A l \in log : l.event = "request_completed" => l.req # n
    BY <1>2, <1>6 DEF LogInv, RequestOK
  <2>2. \A l \in log' : l.event = "request_completed" => l.req # n
    BY <1>6, <1>8, <2>1
  <2>3. Incoming(n, i) \in log'
    BY <1>4, <1>6
  <2>4. QED
    BY <1>7, <2>1, <2>2, <2>3 DEF RequestOK
<1>12. ASSUME NEW d \in Conns, d # c
       PROVE  RequestOK(conns'[d], log', answers, requests)
  <2>1. RequestOK(conns[d], log, answers, requests) /\ conns'[d] = conns[d]
    BY <1>6, <1>12 DEF LogInv
  <2>2. log \subseteq log' /\ requests <= requests
    BY <1>5, <1>6
  <2>3. \A l \in log' \ log :
          l.event = "request_completed" => l.req # conns[d].req
    BY <1>6, <1>8
  <2>4. QED
    BY <1>5, <2>1, <2>2, <2>3, OthersLogged
<1>13. QED
  BY <1>6, <1>9, <1>10, <1>11, <1>12 DEF LogInv

LEMMA HandleLog ==
  ASSUME LogInv, TypeOK', NEW c \in Conns, Handle(c)
  PROVE  LogInv'
<1> DEFINE id == IF conns[c].route \in {"users", "process", "error"}
                 THEN ids + 1 ELSE 0
           line == Line(c, "handler", id, 0)
           k == conns'[c]
<1>1. /\ conns[c] \in Connections /\ id \in Nat /\ ids \in Nat
      /\ requests \in Nat
  BY DEF LogInv, TypeOK
<1>2. /\ conns[c].stage = "entered" /\ k = Asleep(conns[c], id)
      /\ requests' = requests /\ answers' = answers
      /\ ids' \in {ids, ids + 1} /\ log' \in {log, log \cup {line}}
      /\ \A d \in Conns : d # c => conns'[d] = conns[d]
  BY DEF Handle, LogInv, TypeOK
<1>3. line.event = "handler"
  BY DEF Line
<1> HIDE DEF id, line
<1>4. /\ SameRequest(k, conns[c]) /\ k.status = conns[c].status
      /\ k.stage = "asleep"
  BY <1>1, <1>2, RequestStays, AsleepConnection
<1> HIDE DEF k
<1>5. OneConnection'
  <2>1. \A d \in Conns : Continues(d)
    BY <1>2, <1>4 DEF Continues, SameRequest, k
  <2>2. QED
    BY <2>1, StillOneConnection DEF LogInv
<1>6. LinesMatch'
  <2>1. \A l \in log' : l \in log \/ l.event = "handler"
    BY <1>2, <1>3
  <2>2. log \subseteq log' /\ \A j \in 1..ids : j \in 1..ids'
    BY <1>1, <1>2
  <2>3. QED
    BY <1>2, <2>1, <2>2 DEF LogInv, LinesMatch
<1>7. ASSUME NEW d \in Conns
      PROVE  RequestOK(conns'[d], log', answers', requests')
  <2>1. RequestOK(conns[d], log', answers', requests')
    <3>1. RequestOK(conns[d], log, answers, requests)
      BY DEF LogInv
    <3>2. log \subseteq log' /\ requests <= requests' /\ requests' \in Nat
      BY <1>1, <1>2
    <3>3. /\ \A l \in log' \ log :
               l.event = "request_completed" => l.req # conns[d].req
          /\ \A a \in answers' \ answers : a.req # conns[d].req
      BY <1>2, <1>3
    <3>4. QED
      BY <1>1, <3>1, <3>2, <3>3, OthersLogged
  <2>2. CASE d # c
    BY <1>2, <2>1, <2>2
  <2>3. CASE d = c
    <3>1. RequestOK(k, log', answers', requests')
      BY <1>2, <1>4, <2>1, <2>3 DEF RequestOK, SameRequest
    <3>2. QED
      BY <2>3, <3>1 DEF k
  <2>4. QED
    BY <2>2, <2>3
<1>8. QED
  BY <1>5, <1>6, <1>7 DEF LogInv

(* The completed line has the id and the status that the middleware kept.  *)
LEMMA CompleteLog ==
  ASSUME LogInv, TypeOK', NEW c \in Conns, Complete(c)
  PROVE  LogInv'
<1> DEFINE n == conns[c].req
           line == Finished(n, conns[c].id, conns[c].status)
           k == conns'[c]
<1>1. conns[c] \in Connections /\ RequestOK(conns[c], log, answers, requests)
  BY DEF LogInv, TypeOK
<1>2. /\ conns[c].stage = "replied" /\ k = Completed(conns[c])
      /\ requests' = requests /\ ids' = ids /\ answers' = answers
      /\ log' = log \cup {line}
      /\ \A d \in Conns : d # c => conns'[d] = conns[d]
  BY DEF Complete, LogInv, TypeOK, Line, Finished
<1>3. /\ line.event = "request_completed" /\ line.req = n
      /\ line.id = conns[c].id /\ line.status = conns[c].status
  BY DEF Finished
<1>4. /\ SameRequest(k, conns[c]) /\ k.status = conns[c].status
      /\ k.stage = "completed"
  BY <1>1, <1>2, RequestStays, CompletedConnection
<1>5. /\ n \in 1..requests /\ Incoming(n, conns[c].id) \in log
      /\ conns[c].status = StatusOf(conns[c].route)
      /\ \A l \in log : l.event = "request_completed" => l.req # n
      /\ \A a \in answers : a.req # n
  BY <1>1, <1>2 DEF RequestOK
<1>6. OneConnection'
  <2>1. \A d \in Conns : Continues(d)
    BY <1>2, <1>4 DEF Continues, SameRequest
  <2>2. QED
    BY <2>1, StillOneConnection DEF LogInv
<1>7. RequestOK(k, log', answers', requests')
  <2>1. Finished(k.req, k.id, k.status) \in log'
    BY <1>2, <1>4 DEF SameRequest
  <2> HIDE DEF line, k
  <2>2. QED
    BY <1>2, <1>4, <1>5, <2>1 DEF RequestOK, SameRequest
<1> HIDE DEF line, k, n
<1>8. LinesMatch'
  <2>1. \A l \in log' : l.event = "incoming_request" => l \in log
    BY <1>2, <1>3
  <2>2. \A l \in log' : l.event = "request_completed" =>
          l.req \in 1..requests' /\ Incoming(l.req, l.id) \in log'
    BY <1>2, <1>3, <1>5 DEF LogInv, LinesMatch
  <2>3. \A l, m \in log' :
          l.event = "request_completed" /\ m.event = "request_completed"
            /\ l.req = m.req => l.status = m.status
    BY <1>2, <1>3, <1>5 DEF LogInv, LinesMatch
  <2>4. QED
    BY <1>2, <2>1, <2>2, <2>3 DEF LogInv, LinesMatch
<1>9. ASSUME NEW d \in Conns, d # c
      PROVE  RequestOK(conns'[d], log', answers', requests')
  <2>1. CASE conns[d].stage = "none"
    BY <1>2, <1>9, <2>1 DEF RequestOK
  <2>2. CASE conns[d].stage # "none"
    <3>1. conns[d].req # n
      BY <1>2, <1>9, <2>2 DEF LogInv, OneConnection, n
    <3>2. /\ RequestOK(conns[d], log, answers, requests)
          /\ conns'[d] = conns[d] /\ requests \in Nat
      BY <1>2, <1>9 DEF LogInv, TypeOK
    <3>3. QED
      BY <1>2, <1>3, <3>1, <3>2, OthersLogged
  <2>3. QED
    BY <2>1, <2>2
<1>10. QED
  BY <1>6, <1>7, <1>8, <1>9 DEF LogInv, k

(* An answer is given once, with the status of the completed line. *)
LEMMA FlushLog ==
  ASSUME LogInv, TypeOK', NEW c \in Conns, Flush(c)
  PROVE  LogInv'
<1> DEFINE n == conns[c].req
           status == StatusOf(conns[c].route)
           line == Finished(n, conns[c].id, status)
<1>1. /\ conns[c].stage = "completed" /\ conns'[c] \in {Kept, NoConn}
      /\ requests' = requests /\ ids' = ids /\ log' = log
      /\ \A d \in Conns : d # c => conns'[d] = conns[d]
  BY DEF Flush, LogInv, TypeOK
<1>2. answers \subseteq answers' /\ \A a \in answers' \ answers :
        a.req = n /\ a.status = status
  BY DEF Flush
<1>3. n \in 1..requests /\ line \in log
  BY <1>1 DEF LogInv, RequestOK
<1>4. /\ line.event = "request_completed" /\ line.req = n
      /\ line.status = status
  BY DEF Finished
<1>5. OneConnection'
  <2>1. \A d \in Conns : Continues(d)
    BY <1>1, FreshConnections DEF Continues
  <2>2. QED
    BY <2>1, StillOneConnection DEF LogInv
<1> HIDE DEF line, status
<1>6. LinesMatch'
  <2>1. \A a \in answers' : \E l \in log :
          /\ l.event = "request_completed"
          /\ l.req = a.req /\ l.status = a.status
    BY <1>2, <1>3, <1>4 DEF LogInv, LinesMatch
  <2>2. QED
    BY <1>1, <2>1 DEF LogInv, LinesMatch
<1>7. ASSUME NEW d \in Conns, d # c
      PROVE  RequestOK(conns'[d], log', answers', requests')
  <2>1. CASE conns[d].stage = "none"
    BY <1>1, <1>7, <2>1 DEF RequestOK
  <2>2. CASE conns[d].stage # "none"
    <3>1. conns[d].req # n
      BY <1>1, <1>7, <2>2 DEF LogInv, OneConnection
    <3>2. /\ RequestOK(conns[d], log, answers, requests)
          /\ conns'[d] = conns[d] /\ requests \in Nat
      BY <1>1, <1>7 DEF LogInv, TypeOK
    <3>3. QED
      BY <1>1, <1>2, <3>1, <3>2, OthersLogged
  <2>3. QED
    BY <2>1, <2>2
<1>8. RequestOK(conns'[c], log', answers', requests')
  BY <1>1, NothingServed
<1>9. QED
  BY <1>5, <1>6, <1>7, <1>8 DEF LogInv

LEMMA MainLog ==
  ASSUME LogInv, TypeOK', ListenFails \/ Notify \/ Terminate \/ ShutdownReturns
  PROVE  LogInv'
<1>1. /\ UNCHANGED << log, answers, requests, ids >>
      /\ \A c \in Conns : conns'[c] \in {conns[c], NoConn}
  BY DEF ListenFails, Notify, Terminate, ShutdownReturns, Exit
<1>2. \A c \in Conns :
        Continues(c) /\ RequestOK(conns'[c], log, answers, requests)
  BY <1>1, FreshConnections, NothingServed DEF Continues, LogInv
<1>3. QED
  BY <1>1, <1>2, ConnectionsOnly

(* Shutdown does nothing to a request.                                     *)
LEMMA CloseLog ==
  ASSUME LogInv, TypeOK', NEW c \in Conns, SeeIdle(c) \/ CloseSeen(c)
  PROVE  LogInv'
<1>1. /\ UNCHANGED << log, answers, requests, ids >>
      /\ conns[c] \in Connections
      /\ \A d \in Conns : d # c => conns'[d] = conns[d]
      /\ RequestOK(conns[c], log, answers, requests)
  BY DEF SeeIdle, CloseSeen, LogInv, TypeOK
<1>2. conns'[c] \in {NoConn, Seen(conns[c]), Closed(conns[c])}
  BY DEF SeeIdle, CloseSeen, LogInv, TypeOK
<1>3. /\ SameRequest(Seen(conns[c]), conns[c])
      /\ SameRequest(Closed(conns[c]), conns[c])
      /\ Seen(conns[c]).status = conns[c].status
      /\ Closed(conns[c]).status = conns[c].status
      /\ Seen(conns[c]).stage = conns[c].stage
      /\ Closed(conns[c]).stage = conns[c].stage
  BY <1>1 DEF Seen, Closed, SameRequest, Connections
<1>4. Continues(c) /\ RequestOK(conns'[c], log, answers, requests)
  <2>1. CASE conns'[c] = NoConn
    BY <2>1, FreshConnections, NothingServed DEF Continues
  <2>2. CASE conns'[c] = Seen(conns[c]) \/ conns'[c] = Closed(conns[c])
    <3>1. PICK k : /\ k = conns'[c] /\ SameRequest(k, conns[c])
                   /\ k.stage = conns[c].stage /\ k.status = conns[c].status
      BY <1>3, <2>2
    <3>2. QED
      BY <1>1, <3>1, Unserved DEF Continues, SameRequest
  <2>3. QED
    BY <1>2, <2>1, <2>2
<1>5. \A d \in Conns :
        Continues(d) /\ RequestOK(conns'[d], log, answers, requests)
  BY <1>1, <1>4 DEF Continues, LogInv
<1>6. QED
  BY <1>1, <1>5, ConnectionsOnly

LEMMA TickLog ==
  ASSUME LogInv, TypeOK', Tick
  PROVE  LogInv'
<1>1. UNCHANGED << log, answers, requests, ids >>
  BY DEF Tick
<1>2. ASSUME NEW c \in Conns
      PROVE  Continues(c) /\ RequestOK(conns'[c], log, answers, requests)
  <2>1. /\ conns[c] \in Connections /\ conns'[c] = Aged(conns[c])
        /\ RequestOK(conns[c], log, answers, requests)
    BY DEF Tick, LogInv, TypeOK
  <2>2. /\ SameRequest(conns'[c], conns[c])
        /\ conns'[c].stage = conns[c].stage
        /\ conns'[c].status = conns[c].status
    BY <2>1, RequestStays, AgedConnection
  <2>3. QED
    BY <2>1, <2>2, Unserved DEF Continues, SameRequest
<1>3. QED
  BY <1>1, <1>2, ConnectionsOnly

(* The inductive invariant of what is logged. *)
THEOREM LogInvCorrect == Spec => []LogInv
<1>1. Init => LogInv
  <2> SUFFICES ASSUME Init PROVE LogInv
    OBVIOUS
  <2>1. TypeOK
    BY InitInv DEF StopsInv
  <2>2. OneConnection /\ LinesMatch
    BY FreshConnections DEF Init, OneConnection, LinesMatch
  <2>3. \A c \in Conns : RequestOK(conns[c], log, answers, requests)
    BY NothingServed DEF Init
  <2>4. QED
    BY <2>1, <2>2, <2>3 DEF LogInv
<1>2. LogInv /\ [Next]_vars => LogInv'
  <2> SUFFICES ASSUME LogInv, [Next]_vars PROVE LogInv'
    OBVIOUS
  <2>1. TypeOK'
    BY TypePreserved DEF LogInv
  <2>2. CASE UNCHANGED vars
    <3>1. \A c \in Conns :
            Continues(c) /\ RequestOK(conns'[c], log, answers, requests)
      BY <2>2 DEF vars, Continues, LogInv
    <3>2. QED
      BY <2>1, <2>2, <3>1, ConnectionsOnly DEF vars
  <2>3. CASE Next
    BY <2>1, <2>3, QuietLog, HeaderLog, EnterLog, HandleLog, CompleteLog,
       FlushLog, MainLog, CloseLog, TickLog DEF Next, Serve, Shutdown
  <2>4. QED
    BY <2>2, <2>3
<1>3. QED
  BY <1>1, <1>2, PTL DEF Spec

(* However requests overlap on however many connections, and whenever the  *)
(* process is told to stop: an answer has its completed line, a completed  *)
(* line exactly one line of the request coming in with its id, and the     *)
(* status logged is the status that went out.                              *)
THEOREM LogMatchesAnswersCorrect == Spec => []LogMatchesAnswers
<1>1. LogInv => LogMatchesAnswers
  <2> SUFFICES ASSUME LogInv PROVE LogMatchesAnswers
    OBVIOUS
  <2>1. ASSUME NEW line \in log, line.event = "request_completed"
        PROVE  Cardinality({ in \in log : in.event = "incoming_request"
                                          /\ in.id = line.id }) = 1
    <3> DEFINE first == Incoming(line.req, line.id)
    <3>1. first \in log /\ first.event = "incoming_request"
          /\ first.id = line.id
      BY <2>1 DEF LogInv, LinesMatch, Incoming
    <3> HIDE DEF first
    <3>2. { in \in log : in.event = "incoming_request" /\ in.id = line.id }
            = {first}
      BY <3>1 DEF LogInv, LinesMatch
    <3>3. QED
      BY <3>2, FS_Singleton
  <2>2. \A line \in log : line.event = "request_completed" =>
          \A a \in answers : a.req = line.req => a.status = line.status
    BY DEF LogInv, LinesMatch
  <2>3. \A a \in answers : \E line \in log :
          line.event = "request_completed" /\ line.req = a.req
    BY DEF LogInv, LinesMatch
  <2>4. QED
    BY <2>1, <2>2, <2>3 DEF LogMatchesAnswers
<1>2. QED
  BY <1>1, LogInvCorrect, PTL
=============================================================================

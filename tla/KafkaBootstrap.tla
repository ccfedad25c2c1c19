--------------------------- MODULE KafkaBootstrap ----------------------------
(***************************************************************************)
(* The entrypoint of the Kafka containers: pods of one StatefulSet agree   *)
(* on a cluster id through the file cluster_id of a volume that they       *)
(* share, format their directory of it and start the server.  Node 0       *)
(* writes the file if it is missing; the others read it.  The script has   *)
(* no "set -e": it goes on after a command that failed, and the container  *)
(* is started again when the server exits.                                 *)
(***************************************************************************)
EXTENDS Naturals

CONSTANTS
  Nodes,     \* ordinals of the pods, 0 among them
  Ids,       \* what random-uuid may print
  NoId,      \* the empty string
  Missing,   \* there is no file
  MaxFaults  \* bound: containers killed, failures of random-uuid

ASSUME KafkaAssumption ==
  /\ Nodes \subseteq Nat /\ 0 \in Nodes
  /\ NoId \notin Ids /\ Missing \notin Ids /\ Missing # NoId
  /\ MaxFaults \in Nat

VARIABLES
  pc,        \* where the script of each pod is
  clusterId, \* its variable CLUSTER_ID
  file,      \* $SHARE_DIR/cluster_id
  disk,      \* the id in meta.properties of $SHARE_DIR/$NODE_ID
  faults

vars == << pc, clusterId, file, disk, faults >>

Steps == {"pending", "check", "generate", "open", "write", "read", "format",
          "start", "running"}

TypeOK ==
  /\ pc \in [Nodes -> Steps]
  /\ clusterId \in [Nodes -> Ids \cup {NoId}]
  /\ file \in Ids \cup {NoId, Missing}
  /\ disk \in [Nodes -> Ids \cup {NoId}]
  /\ faults \in Nat

Init ==
  /\ pc = [n \in Nodes |-> "pending"]
  /\ clusterId = [n \in Nodes |-> NoId]
  /\ file = Missing
  /\ disk = [n \in Nodes |-> NoId]
  /\ faults = 0

Goto(n, step) == pc' = [pc EXCEPT ![n] = step]

(* A StatefulSet creates a pod when those before it run; there is no       *)
(* readiness probe that would wait for their scripts.                      *)
CreatePod(n) ==
  /\ pc[n] = "pending"
  /\ \A m \in Nodes : m < n => pc[m] # "pending"
  /\ Goto(n, "check")
  /\ UNCHANGED << clusterId, file, disk, faults >>

(* Mutants of Check: the file is not looked for; every node may write it;  *)
(* the test is negated.                                                    *)
CheckNodeOnly(n) ==
  /\ pc[n] = "check"
  /\ Goto(n, IF n = 0 THEN "generate" ELSE "read")
  /\ UNCHANGED << clusterId, file, disk, faults >>

CheckFileOnly(n) ==
  /\ pc[n] = "check"
  /\ Goto(n, IF file = Missing THEN "generate" ELSE "read")
  /\ UNCHANGED << clusterId, file, disk, faults >>

CheckNegated(n) ==
  /\ pc[n] = "check"
  /\ Goto(n, IF file # Missing /\ n = 0 THEN "generate" ELSE "read")
  /\ UNCHANGED << clusterId, file, disk, faults >>

Check(n) ==
  /\ pc[n] = "check"
  /\ Goto(n, IF file = Missing /\ n = 0 THEN "generate" ELSE "read")
  /\ UNCHANGED << clusterId, file, disk, faults >>

(* Node 0: CLUSTER_ID=$(kafka-storage.sh random-uuid), empty if it fails. *)
Generate(n) ==
  /\ pc[n] = "generate"
  /\ \/ /\ \E i \in Ids : clusterId' = [clusterId EXCEPT ![n] = i]
        /\ UNCHANGED faults
     \/ /\ faults < MaxFaults /\ faults' = faults + 1
        /\ clusterId' = [clusterId EXCEPT ![n] = NoId]
  /\ Goto(n, "open")
  /\ UNCHANGED << file, disk >>

(* Node 0: the redirection creates or truncates the file ... *)
OpenFile(n) ==
  /\ pc[n] = "open"
  /\ file' = NoId
  /\ Goto(n, "write")
  /\ UNCHANGED << clusterId, disk, faults >>

(* ... and echo writes to it. *)
WriteFile(n) ==
  /\ pc[n] = "write"
  /\ file' = clusterId[n]
  /\ Goto(n, "format")
  /\ UNCHANGED << clusterId, disk, faults >>

(* CLUSTER_ID=$(cat $SHARE_DIR/cluster_id), empty if there is no file. *)
ReadFile(n) ==
  /\ pc[n] = "read"
  /\ clusterId' = [clusterId EXCEPT ![n] = IF file = Missing THEN NoId ELSE file]
  /\ Goto(n, "format")
  /\ UNCHANGED << file, disk, faults >>

(* kafka-storage.sh format: without an id the unquoted -t $CLUSTER_ID -c   *)
(* has no argument for -t, and a formatted directory is not formatted      *)
(* again; either is an error that the script ignores.                      *)
Format(n) ==
  /\ pc[n] = "format"
  /\ disk' = IF clusterId[n] # NoId /\ disk[n] = NoId
             THEN [disk EXCEPT ![n] = clusterId[n]] ELSE disk
  /\ Goto(n, "start")
  /\ UNCHANGED << clusterId, file, faults >>

(* Mutant of StartServer: the container stays although the server has gone. *)
StartAnyway(n) ==
  /\ pc[n] = "start"
  /\ Goto(n, "running")
  /\ UNCHANGED << clusterId, file, disk, faults >>

(* exec kafka-server-start.sh: the server exits if its directory is not    *)
(* formatted, and the container starts the script again.                   *)
StartServer(n) ==
  /\ pc[n] = "start"
  /\ Goto(n, IF disk[n] = NoId THEN "check" ELSE "running")
  /\ UNCHANGED << clusterId, file, disk, faults >>

(* The container is killed; the volume stays. *)
Kill(n) ==
  /\ pc[n] \notin {"pending", "check"}
  /\ faults < MaxFaults /\ faults' = faults + 1
  /\ clusterId' = [clusterId EXCEPT ![n] = NoId]
  /\ Goto(n, "check")
  /\ UNCHANGED << file, disk >>

Script(n) ==
  \/ CreatePod(n) \/ Check(n) \/ Generate(n) \/ OpenFile(n) \/ WriteFile(n)
  \/ ReadFile(n) \/ Format(n) \/ StartServer(n)

Next == \E n \in Nodes : Script(n) \/ Kill(n)

Spec == Init /\ [][Next]_vars

(* Every pod is created and its script goes on. *)
FairSpec == Spec /\ \A n \in Nodes : WF_vars(Script(n))

-----------------------------------------------------------------------------
(* However the pods start, read and fail, no two directories are formatted *)
(* with different cluster ids.                                             *)
SameClusterId ==
  \A m, n \in Nodes : disk[m] # NoId /\ disk[n] # NoId => disk[m] = disk[n]

(* Once the id is in the file, every node ends up running: those that came *)
(* too early and found no file, or an empty one, come back to it.          *)
JoinsOnceWritten ==
  file \in Ids ~> \A n \in Nodes : pc[n] = "running" /\ disk[n] = file

(* If nothing fails, the cluster comes up. *)
BootsUndisturbed ==
  <>(faults > 0 \/ \A n \in Nodes : pc[n] = "running" /\ disk[n] = file)

(* The bootstrap implements the choice of one cluster id. *)
Agreement == INSTANCE ClusterIdAgreement
             WITH chosen <- IF file = Missing THEN NoId ELSE file,
                  adopted <- disk

AgreementSpec == Agreement!Spec

-----------------------------------------------------------------------------
(* Why there is one id: node 0 alone writes the file, once.                *)

(* Only node 0 is where the file is written. *)
OneWriter ==
  \A n \in Nodes : pc[n] \in {"generate", "open", "write"} => n = 0

(* Node 0 is on its way to create the file, or has created it and is about *)
(* to write the id.                                                        *)
WriteOnce ==
  /\ pc[0] \in {"generate", "open"} => file = Missing
  /\ pc[0] = "write" => file = NoId

(* What nodes are about to format with, and what they have formatted with, *)
(* is the id in the file.                                                  *)
FromFile ==
  \A n \in Nodes :
    /\ pc[n] = "format" /\ clusterId[n] # NoId => clusterId[n] = file
    /\ disk[n] # NoId => disk[n] = file

BootstrapInv == TypeOK /\ OneWriter /\ WriteOnce /\ FromFile
=============================================================================

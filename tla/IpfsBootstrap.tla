---------------------------- MODULE IpfsBootstrap -----------------------------
(***************************************************************************)
(* The two scripts that bring up a peer of the IPFS cluster: the init      *)
(* container configures the IPFS node on one volume, the entrypoint of     *)
(* ipfs-cluster its service on another.  Containers are killed and pods    *)
(* evicted between any two commands; the volumes stay.                     *)
(***************************************************************************)
EXTENDS Integers, FiniteSets

CONSTANTS
  Replicas,      \* the replicas of the StatefulSet
  MaxKills,      \* bound: containers killed and pods evicted
  MaxFailures    \* bound: commands that fail

ASSUME IpfsAssumption == Replicas \in Nat \ {0} /\ {MaxKills, MaxFailures} \subseteq Nat

VARIABLES
  repo,       \* the commands of configure-ipfs.sh the ipfs volume shows
  service,    \* what there is of service.json on the cluster volume
  pod,        \* the pod of each peer: none, in its init container, or past it
  command,    \* the command of configure-ipfs.sh that is next
  entry,      \* the run of entrypoint.sh: where it is, the edits it missed
  cut,        \* has a run of configure-ipfs.sh stopped after ipfs init?
  kills, failures

volumes == << repo, service >>
vars == << volumes, pod, command, entry, cut, kills, failures >>

-----------------------------------------------------------------------------
Peers == 0..(Replicas - 1)

(* configure-ipfs.sh: the test for a config file, ipfs init, five settings.*)
Test == 0
InitRepo == 1
Commands == InitRepo..6
Done == 7

(* entrypoint.sh: ipfs-cluster-service init, an edit for each of two       *)
(* addresses, the exec of the daemon.                                      *)
Addresses == {"proxy", "api"}
After(at) ==
  CASE at = "init" -> "proxy" [] at = "proxy" -> "api" [] at = "api" -> "exec"

Off == [at |-> "off", missed |-> {}]
Started == [at |-> "init", missed |-> {}]

(* The pod's containers run; there is no probe.  The ipfs container, whose *)
(* command is its image's, is taken to run when the init container is done.*)
Ready(p) == pod[p] = "main" /\ entry[p].at = "daemon"

TypeOK ==
  /\ repo \in [Peers -> SUBSET Commands]
  /\ service \in [Peers -> SUBSET (Addresses \cup {"file"})]
  /\ pod \in [Peers -> {"none", "init", "main"}]
  /\ command \in [Peers -> Test..Done]
  /\ entry \in [Peers -> [at : {"off", "init", "exec", "daemon"} \cup Addresses,
                          missed : SUBSET Addresses]]
  /\ \A p \in Peers :
       /\ pod[p] = "main" => InitRepo \in repo[p]
       /\ entry[p].at # "off" <=> pod[p] = "main"
  /\ cut \in [Peers -> BOOLEAN]
  /\ kills \in 0..MaxKills /\ failures \in 0..MaxFailures

Init ==
  /\ repo = [p \in Peers |-> {}] /\ service = [p \in Peers |-> {}]
  /\ pod = [p \in Peers |-> "none"] /\ command = [p \in Peers |-> Test]
  /\ entry = [p \in Peers |-> Off] /\ cut = [p \in Peers |-> FALSE]
  /\ kills = 0 /\ failures = 0

-----------------------------------------------------------------------------
(* The StatefulSet creates a pod when those before it are ready.           *)
CreatePod(p) ==
  /\ pod[p] = "none" /\ \A q \in 0..(p - 1) : Ready(q)
  /\ pod' = [pod EXCEPT ![p] = "init"]
  /\ command' = [command EXCEPT ![p] = Test]
  /\ UNCHANGED << volumes, entry, cut, kills, failures >>

(* The other containers start when the init container has succeeded.       *)
InitContainerDone(p) ==
  /\ pod[p] = "init" /\ command[p] = Done
  /\ pod' = [pod EXCEPT ![p] = "main"]
  /\ entry' = [entry EXCEPT ![p] = Started]
  /\ UNCHANGED << volumes, command, cut, kills, failures >>

-----------------------------------------------------------------------------
(* configure-ipfs.sh *)

Cut(p) == cut' = [cut EXCEPT ![p] = @ \/ command[p] \in Commands \ {InitRepo}]

(* Mutants of FindConfig: the file is looked for elsewhere; the test is of *)
(* the directory that mkdir has just made.                                 *)
FindNothing(p) ==
  /\ pod[p] = "init" /\ command[p] = Test
  /\ command' = [command EXCEPT ![p] = InitRepo]
  /\ UNCHANGED << volumes, pod, entry, cut, kills, failures >>

FindDirectory(p) ==
  /\ pod[p] = "init" /\ command[p] = Test
  /\ command' = [command EXCEPT ![p] = Done]
  /\ UNCHANGED << volumes, pod, entry, cut, kills, failures >>

(* With a config file there is nothing left to do.  The chown before the   *)
(* test, or the rm of a lock after it, may fail and end the script.        *)
FindConfig(p) ==
  /\ pod[p] = "init" /\ command[p] = Test
  /\ \/ /\ command' = [command EXCEPT
             ![p] = IF InitRepo \in repo[p] THEN Done ELSE InitRepo]
        /\ UNCHANGED failures
     \/ /\ failures < MaxFailures /\ failures' = failures + 1
        /\ UNCHANGED command
  /\ UNCHANGED << volumes, pod, entry, cut, kills >>

(* Mutant of Fail: without set -e. *)
FailAndGoOn(p) ==
  /\ command' = [command EXCEPT ![p] = @ + 1]
  /\ UNCHANGED << repo, cut >>

(* set -e ends the script, and the kubelet runs it again.                  *)
Fail(p) ==
  /\ command' = [command EXCEPT ![p] = Test]
  /\ Cut(p)
  /\ UNCHANGED repo

(* The next command; ipfs init takes no repository that is there already.  *)
Configure(p) ==
  /\ pod[p] = "init" /\ command[p] \in Commands
  /\ ~(command[p] = InitRepo /\ InitRepo \in repo[p])
  /\ \/ /\ repo' = [repo EXCEPT ![p] = @ \cup {command[p]}]
        /\ command' = [command EXCEPT ![p] = @ + 1]
        /\ UNCHANGED << cut, failures >>
     \/ /\ failures < MaxFailures /\ failures' = failures + 1
        /\ Fail(p)
  /\ UNCHANGED << service, pod, entry, kills >>

-----------------------------------------------------------------------------
(* entrypoint.sh, which goes on after a command that fails. *)

(* Mutant of InitService: the addresses are edited when the file is made.  *)
InitServiceOnce(p) ==
  /\ entry[p].at = "init"
  /\ service' = [service EXCEPT ![p] = @ \cup {"file"}]
  /\ entry' = [entry EXCEPT
       ![p].at = IF "file" \in service[p] THEN "exec" ELSE After("init")]
  /\ UNCHANGED << repo, pod, command, cut, kills, failures >>

InitService(p) ==
  /\ entry[p].at = "init"
  /\ entry' = [entry EXCEPT ![p].at = After("init")]
  /\ \/ /\ service' = [service EXCEPT ![p] = @ \cup {"file"}]
        /\ UNCHANGED failures
     \/ /\ "file" \notin service[p]
        /\ failures < MaxFailures /\ failures' = failures + 1
        /\ UNCHANGED service
  /\ UNCHANGED << repo, pod, command, cut, kills >>

(* An edit opens an address to other hosts, also one that is open already. *)
EditAddress(p) ==
  LET address == entry[p].at
  IN /\ address \in Addresses
     /\ \/ /\ "file" \in service[p]
           /\ service' = [service EXCEPT ![p] = @ \cup {address}]
           /\ entry' = [entry EXCEPT ![p].at = After(address)]
           /\ UNCHANGED failures
        \/ /\ \/ "file" \notin service[p] /\ UNCHANGED failures
              \/ /\ "file" \in service[p]
                 /\ failures < MaxFailures /\ failures' = failures + 1
           /\ entry' = [entry EXCEPT ![p] =
                [at |-> After(address), missed |-> @.missed \cup {address}]]
           /\ UNCHANGED service
     /\ UNCHANGED << repo, pod, command, cut, kills >>

(* The script becomes the daemon, which without a file ends at once.       *)
RunDaemon(p) ==
  /\ entry[p].at = "exec"
  /\ entry' = [entry EXCEPT ![p] =
       IF "file" \in service[p] THEN [@ EXCEPT !.at = "daemon"] ELSE Started]
  /\ UNCHANGED << volumes, pod, command, cut, kills, failures >>

-----------------------------------------------------------------------------
(* A container is killed and starts again; only one of an evicted pod      *)
(* passes the init container again.                                        *)
KillContainer(p) ==
  /\ pod[p] # "none"
  /\ kills < MaxKills /\ kills' = kills + 1
  /\ \/ /\ pod[p] = "init" /\ Cut(p)
        /\ command' = [command EXCEPT ![p] = Test]
        /\ UNCHANGED entry
     \/ /\ pod[p] = "main"
        /\ entry' = [entry EXCEPT ![p] = Started]
        /\ UNCHANGED << command, cut >>
  /\ UNCHANGED << volumes, pod, failures >>

EvictPod(p) ==
  /\ pod[p] # "none" /\ pod' = [pod EXCEPT ![p] = "none"]
  /\ kills < MaxKills /\ kills' = kills + 1
  /\ IF pod[p] = "init" THEN Cut(p) ELSE UNCHANGED cut
  /\ entry' = [entry EXCEPT ![p] = Off]
  /\ UNCHANGED << volumes, command, failures >>

PeerStep(p) ==
  \/ CreatePod(p) \/ FindConfig(p) \/ Configure(p) \/ InitContainerDone(p)
  \/ InitService(p) \/ EditAddress(p) \/ RunDaemon(p)

Next == \E p \in Peers : PeerStep(p) \/ KillContainer(p) \/ EvictPod(p)

Spec == Init /\ [][Next]_vars

(* Kubernetes creates what the StatefulSet lacks, the scripts run.         *)
FairSpec == Spec /\ \A p \in Peers : WF_vars(PeerStep(p))

-----------------------------------------------------------------------------
(* A node lacks settings only when a run of its script was stopped between *)
(* ipfs init and the last of them: then it does so for good, for the next  *)
(* run finds the config file (configure-ipfs.sh, lines 50 to 55).          *)
LacksSettingsOnlyIfCut ==
  \A p \in Peers : pod[p] = "main" /\ repo[p] # Commands => cut[p]

(* A peer's addresses are open to the others while it runs, wherever the   *)
(* runs before were stopped and whatever failed in them.                   *)
OpensAddresses ==
  \A p \in Peers :
    entry[p].at = "daemon" =>
      "file" \in service[p] /\ Addresses \subseteq service[p] \cup entry[p].missed

(* What both rest on: settings are made in their order from an empty       *)
(* volume, and whoever finds a config file finds all of them or a cut run; *)
(* a run of entrypoint.sh has dealt with the addresses before the one it   *)
(* is at.                                                                  *)
RepoOK(p) ==
  IF pod[p] = "init" /\ command[p] \in Commands
  THEN repo[p] = InitRepo..(command[p] - 1)
  ELSE /\ repo[p] = {} \/ repo[p] = Commands \/ (InitRepo \in repo[p] /\ cut[p])
       /\ pod[p] = "main" \/ (pod[p] = "init" /\ command[p] = Done)
            => InitRepo \in repo[p]

AddressesOK(p) ==
  /\ entry[p].at \in {"api", "exec", "daemon"}
       => "proxy" \in service[p] \cup entry[p].missed
  /\ entry[p].at \in {"exec", "daemon"}
       => "api" \in service[p] \cup entry[p].missed
  /\ entry[p].at = "daemon" => "file" \in service[p]

RepoInv == \A p \in Peers : RepoOK(p)
AddressesInv == \A p \in Peers : AddressesOK(p)
IpfsInv == TypeOK /\ RepoInv /\ AddressesInv

(* The cluster comes up, whatever was killed or failed on the way.         *)
ComesUp == <>[](\A p \in Peers : Ready(p))
=============================================================================

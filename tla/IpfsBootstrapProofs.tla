------------------------- MODULE IpfsBootstrapProofs --------------------------
(***************************************************************************)
(* Proofs about IpfsBootstrap, for any number of replicas, kills and       *)
(* failures.                                                               *)
(***************************************************************************)
EXTENDS IpfsBootstrap, TLAPS

(* The commands in numbers. *)
LEMMA CommandFacts ==
  /\ Test = 0 /\ InitRepo = 1 /\ Done = 7
  /\ Commands = 1..6 /\ InitRepo \in Commands
  /\ Commands \subseteq Test..Done /\ Commands \subseteq Int
  /\ Test \notin Commands /\ Done \notin Commands
  BY DEF Test, InitRepo, Done, Commands

(* Before anything runs, the volumes are empty.                            *)
LEMMA InitEstablishes == Init => IpfsInv
<1> SUFFICES ASSUME Init PROVE IpfsInv
  OBVIOUS
<1>1. TypeOK
  BY CommandFacts, IpfsAssumption DEF Init, TypeOK, Off, Addresses
<1>2. RepoInv
  BY CommandFacts DEF Init, RepoInv, RepoOK
<1>3. AddressesInv
  BY DEF Init, AddressesInv, AddressesOK, Off
<1> QED BY <1>1, <1>2, <1>3 DEF IpfsInv

LEMMA CreatePodKeeps ==
  ASSUME IpfsInv, NEW p \in Peers, CreatePod(p) PROVE IpfsInv'
<1>1. TypeOK'
  BY CommandFacts DEF IpfsInv, TypeOK, CreatePod, volumes
<1>2. RepoInv'
  BY CommandFacts DEF IpfsInv, TypeOK, RepoInv, RepoOK, CreatePod, volumes
<1>3. AddressesInv'
  BY DEF IpfsInv, AddressesInv, AddressesOK, CreatePod, volumes
<1> QED BY <1>1, <1>2, <1>3 DEF IpfsInv

LEMMA InitContainerDoneKeeps ==
  ASSUME IpfsInv, NEW p \in Peers, InitContainerDone(p) PROVE IpfsInv'
<1>1. InitRepo \in repo[p]
  BY CommandFacts DEF IpfsInv, RepoInv, RepoOK, InitContainerDone
<1>2. TypeOK'
  BY CommandFacts, <1>1 DEF IpfsInv, TypeOK, InitContainerDone, volumes, Started
<1>3. RepoInv'
  BY CommandFacts, <1>1
  DEF IpfsInv, TypeOK, RepoInv, RepoOK, InitContainerDone, volumes
<1>4. AddressesInv'
  BY DEF IpfsInv, TypeOK, AddressesInv, AddressesOK, InitContainerDone,
         volumes, Started
<1> QED BY <1>2, <1>3, <1>4 DEF IpfsInv

LEMMA FindConfigKeeps ==
  ASSUME IpfsInv, NEW p \in Peers, FindConfig(p) PROVE IpfsInv'
<1>1. TypeOK'
  BY CommandFacts, IpfsAssumption DEF IpfsInv, TypeOK, FindConfig, volumes
<1>2. RepoInv'
  <2> SUFFICES ASSUME NEW q \in Peers PROVE RepoOK(q)'
    BY DEF RepoInv
  <2>1. RepoOK(q) /\ RepoOK(p)
    BY DEF IpfsInv, RepoInv
  <2>2. CASE q # p
    BY <2>1, <2>2 DEF IpfsInv, TypeOK, RepoOK, FindConfig, volumes
  <2>3. CASE command' # command /\ q = p /\ InitRepo \in repo[p]
    BY <2>1, <2>3, CommandFacts
    DEF IpfsInv, TypeOK, RepoOK, FindConfig, volumes
  <2>4. CASE command' # command /\ q = p /\ InitRepo \notin repo[p]
    <3>1. repo[p] = {}
      BY <2>1, <2>4, CommandFacts DEF FindConfig, RepoOK
    <3>2. command'[p] = 1 /\ repo' = repo /\ pod' = pod /\ pod[p] = "init"
      BY <2>4, CommandFacts DEF IpfsInv, TypeOK, FindConfig, volumes
    <3>3. InitRepo..(1 - 1) = {}
      BY CommandFacts
    <3> QED BY <2>4, <3>1, <3>2, <3>3, CommandFacts DEF RepoOK
  <2>5. CASE command' = command
    BY <2>5 DEF IpfsInv, RepoInv, RepoOK, FindConfig, volumes
  <2> QED BY <2>2, <2>3, <2>4, <2>5
<1>3. AddressesInv'
  BY DEF IpfsInv, AddressesInv, AddressesOK, FindConfig, volumes
<1> QED BY <1>1, <1>2, <1>3 DEF IpfsInv

(* A command that succeeds adds itself to those before it; one that fails  *)
(* leaves a cut run behind it, unless it is ipfs init.                     *)
LEMMA ConfigureKeeps ==
  ASSUME IpfsInv, NEW p \in Peers, Configure(p) PROVE IpfsInv'
<1> DEFINE c == command[p]
<1>1. /\ c \in Commands /\ pod[p] = "init" /\ repo[p] = 1..(c - 1)
      /\ pod' = pod /\ entry' = entry /\ service' = service /\ kills' = kills
      /\ repo \in [Peers -> SUBSET Commands] /\ command \in [Peers -> 0..7]
      /\ cut \in [Peers -> BOOLEAN]
  BY CommandFacts DEF IpfsInv, TypeOK, RepoInv, RepoOK, Configure
<1>2. CASE /\ repo' = [repo EXCEPT ![p] = @ \cup {c}]
           /\ command' = [command EXCEPT ![p] = @ + 1]
           /\ cut' = cut /\ failures' = failures
  <2>1. repo'[p] = 1..c /\ command'[p] = c + 1 /\ c \in 1..6
    BY <1>1, <1>2, CommandFacts
  <2>2. TypeOK'
    BY <1>1, <1>2, <2>1, CommandFacts DEF IpfsInv, TypeOK
  <2>3. RepoInv'
    <3> SUFFICES ASSUME NEW q \in Peers PROVE RepoOK(q)'
      BY DEF RepoInv
    <3>1. CASE q # p
      BY <1>1, <1>2, <3>1 DEF IpfsInv, RepoInv, RepoOK
    <3>2. CASE q = p /\ c = 6
      BY <1>1, <2>1, <3>2, CommandFacts DEF RepoOK
    <3>3. CASE q = p /\ c # 6
      BY <1>1, <2>1, <3>3, CommandFacts DEF RepoOK
    <3> QED BY <3>1, <3>2, <3>3
  <2>4. AddressesInv'
    BY <1>1 DEF IpfsInv, AddressesInv, AddressesOK
  <2> QED BY <2>2, <2>3, <2>4 DEF IpfsInv
<1>3. CASE failures < MaxFailures /\ failures' = failures + 1 /\ Fail(p)
  <2>1. command' = [command EXCEPT ![p] = 0] /\ repo' = repo
        /\ cut' = [cut EXCEPT ![p] = @ \/ c # 1]
    BY <1>1, <1>3, CommandFacts DEF Fail, Cut
  <2>2. TypeOK'
    BY <1>1, <1>3, <2>1, CommandFacts, IpfsAssumption DEF IpfsInv, TypeOK
  <2>3. RepoInv'
    <3> SUFFICES ASSUME NEW q \in Peers PROVE RepoOK(q)'
      BY DEF RepoInv
    <3>1. CASE q # p
      BY <1>1, <2>1, <3>1 DEF IpfsInv, RepoInv, RepoOK
    <3>2. CASE q = p /\ c = 1
      BY <1>1, <2>1, <3>2, CommandFacts DEF RepoOK
    <3>3. CASE q = p /\ c # 1
      <4>1. cut'[p]
        BY <1>1, <2>1, <3>3, Zenon
      <4>2. InitRepo \in repo'[p] /\ command'[p] = Test /\ pod'[p] = "init"
        BY <1>1, <2>1, <3>3, CommandFacts
      <4> QED BY <3>3, <4>1, <4>2, CommandFacts DEF RepoOK
    <3> QED BY <3>1, <3>2, <3>3
  <2>4. AddressesInv'
    BY <1>1 DEF IpfsInv, AddressesInv, AddressesOK
  <2> QED BY <2>2, <2>3, <2>4 DEF IpfsInv
<1> QED BY <1>2, <1>3 DEF Configure

-----------------------------------------------------------------------------
(* The steps of entrypoint.sh touch the cluster volume and their own place *)
(* only.                                                                   *)
LEMMA EntrypointKeeps ==
  ASSUME IpfsInv, NEW p \in Peers, InitService(p) \/ EditAddress(p) \/ RunDaemon(p)
  PROVE IpfsInv'
<1>1. TypeOK' /\ AddressesInv'
  <2>1. CASE InitService(p)
    BY <2>1, IpfsAssumption DEF IpfsInv, TypeOK, AddressesInv, AddressesOK,
         InitService, After, Addresses
  <2>2. CASE EditAddress(p)
    <3> DEFINE address == entry[p].at
    <3>1. \/ address = "proxy" /\ After(address) = "api"
          \/ address = "api" /\ After(address) = "exec"
      BY <2>2 DEF EditAddress, After, Addresses
    <3>2. CASE /\ service' = [service EXCEPT ![p] = @ \cup {address}]
               /\ entry' = [entry EXCEPT ![p].at = After(address)]
               /\ failures' = failures
      BY <2>2, <3>1, <3>2 DEF IpfsInv, TypeOK, AddressesInv, AddressesOK,
           EditAddress, Addresses
    <3>3. CASE /\ entry' = [entry EXCEPT ![p] =
                    [at |-> After(address), missed |-> @.missed \cup {address}]]
               /\ service' = service /\ failures' \in 0..MaxFailures
      BY <2>2, <3>1, <3>3 DEF IpfsInv, TypeOK, AddressesInv, AddressesOK,
           EditAddress, Addresses
    <3> QED BY <2>2, <3>2, <3>3, IpfsAssumption DEF EditAddress, IpfsInv, TypeOK
  <2>3. CASE RunDaemon(p)
    BY <2>3 DEF IpfsInv, TypeOK, AddressesInv, AddressesOK, RunDaemon,
         volumes, Started, Addresses
  <2> QED BY <2>1, <2>2, <2>3
<1>2. RepoInv'
  BY DEF IpfsInv, RepoInv, RepoOK, InitService, EditAddress, RunDaemon, volumes
<1> QED BY <1>1, <1>2 DEF IpfsInv

(* A kill in the middle of configure-ipfs.sh is what cut remembers.        *)
LEMMA KillKeeps ==
  ASSUME IpfsInv, NEW p \in Peers, KillContainer(p) \/ EvictPod(p) PROVE IpfsInv'
<1>1. TypeOK'
  <2>0. cut' \in [Peers -> BOOLEAN]
    <3>1. Cut(p) => cut' \in [Peers -> BOOLEAN]
      BY Zenon DEF IpfsInv, TypeOK, Cut
    <3> QED BY <3>1 DEF IpfsInv, TypeOK, KillContainer, EvictPod
  <2>1. CASE KillContainer(p)
    <3>1. /\ command' \in [Peers -> Test..Done]
          /\ kills' \in 0..MaxKills
          /\ UNCHANGED << repo, service, pod, failures >>
      BY <2>1, CommandFacts, IpfsAssumption
      DEF IpfsInv, TypeOK, KillContainer, volumes
    <3>2. \/ UNCHANGED entry
          \/ pod[p] = "main" /\ entry' = [entry EXCEPT ![p] = Started]
      BY <2>1 DEF KillContainer
    <3>3. CASE UNCHANGED entry
      BY <2>0, <3>1, <3>3 DEF IpfsInv, TypeOK
    <3>4. CASE pod[p] = "main" /\ entry' = [entry EXCEPT ![p] = Started]
      BY <2>0, <3>1, <3>4 DEF IpfsInv, TypeOK, Started
    <3> QED BY <3>2, <3>3, <3>4
  <2>2. CASE EvictPod(p)
    BY <2>0, <2>2, CommandFacts, IpfsAssumption
    DEF IpfsInv, TypeOK, EvictPod, volumes, Off
  <2> QED BY <2>1, <2>2
<1>2. RepoInv'
  <2> SUFFICES ASSUME NEW q \in Peers PROVE RepoOK(q)'
    BY DEF RepoInv
  <2>1. RepoOK(q) /\ repo' = repo
    BY DEF IpfsInv, RepoInv, KillContainer, EvictPod, volumes
  <2>2. CASE q # p
    BY <2>1, <2>2 DEF IpfsInv, TypeOK, RepoOK, KillContainer, EvictPod, Cut
  <2>3. CASE q = p /\ pod[p] = "main"
    BY <2>1, <2>3, CommandFacts
    DEF IpfsInv, TypeOK, RepoOK, KillContainer, EvictPod
  <2>4. CASE q = p /\ pod[p] = "init" /\ command[p] \in Commands \ {InitRepo}
    <3>1. cut'[p]
      BY <2>4, Zenon DEF IpfsInv, TypeOK, KillContainer, EvictPod, Cut
    <3>2. InitRepo \in repo'[p]
      BY <2>1, <2>4, CommandFacts DEF IpfsInv, TypeOK, RepoOK
    <3>3. pod'[p] = "none" \/ (pod'[p] = "init" /\ command'[p] = Test)
      BY <2>4 DEF IpfsInv, TypeOK, KillContainer, EvictPod
    <3> QED BY <2>4, <3>1, <3>2, <3>3, CommandFacts DEF RepoOK
  <2>5. CASE q = p /\ pod[p] = "init" /\ command[p] \notin Commands \ {InitRepo}
    <3>1. \/ repo[p] = {} \/ repo[p] = Commands
          \/ (InitRepo \in repo[p] /\ cut[p])
      BY <2>1, <2>5, CommandFacts DEF RepoOK
    <3>2. cut[p] => cut'[p]
      BY <2>5, Zenon DEF IpfsInv, TypeOK, KillContainer, EvictPod, Cut
    <3>3. pod'[p] = "none" \/ (pod'[p] = "init" /\ command'[p] = Test)
      BY <2>5 DEF IpfsInv, TypeOK, KillContainer, EvictPod
    <3> QED BY <2>1, <2>5, <3>1, <3>2, <3>3, CommandFacts DEF RepoOK
  <2> QED BY <2>2, <2>3, <2>4, <2>5 DEF IpfsInv, TypeOK, KillContainer, EvictPod
<1>3. AddressesInv'
  BY DEF IpfsInv, TypeOK, AddressesInv, AddressesOK, KillContainer, EvictPod,
         volumes, Started, Off
<1> QED BY <1>1, <1>2, <1>3 DEF IpfsInv

-----------------------------------------------------------------------------
(* Every reachable state has the inductive invariant.                      *)
THEOREM IpfsInvCorrect == Spec => []IpfsInv
<1>1. IpfsInv /\ [Next]_vars => IpfsInv'
  <2>1. ASSUME IpfsInv, UNCHANGED vars PROVE IpfsInv'
    BY <2>1 DEF vars, volumes, IpfsInv, TypeOK, RepoInv, RepoOK, AddressesInv,
         AddressesOK
  <2>2. ASSUME IpfsInv, Next PROVE IpfsInv'
    BY <2>2, CreatePodKeeps, InitContainerDoneKeeps, FindConfigKeeps,
       ConfigureKeeps, EntrypointKeeps, KillKeeps DEF Next, PeerStep
  <2> QED BY <2>1, <2>2
<1> QED BY InitEstablishes, <1>1, PTL DEF Spec

(* No node starts without a repository, and the rest of the types.         *)
THEOREM IpfsTypeCorrect == Spec => []TypeOK
<1>1. IpfsInv => TypeOK
  BY DEF IpfsInv
<1> QED BY IpfsInvCorrect, <1>1, PTL

(* A node lacks settings only after a cut run of its script, for any       *)
(* number of peers, kills and failing commands.                            *)
THEOREM LacksSettingsOnlyIfCutCorrect == Spec => []LacksSettingsOnlyIfCut
<1>1. IpfsInv => LacksSettingsOnlyIfCut
  BY CommandFacts DEF IpfsInv, TypeOK, RepoInv, RepoOK, LacksSettingsOnlyIfCut
<1> QED BY IpfsInvCorrect, <1>1, PTL

(* A running peer's addresses are open unless an edit of this very start   *)
(* failed.                                                                 *)
THEOREM OpensAddressesCorrect == Spec => []OpensAddresses
<1>1. IpfsInv => OpensAddresses
  BY DEF IpfsInv, AddressesInv, AddressesOK, OpensAddresses, Addresses
<1> QED BY IpfsInvCorrect, <1>1, PTL
=============================================================================

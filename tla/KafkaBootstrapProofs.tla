------------------------ MODULE KafkaBootstrapProofs -------------------------
(***************************************************************************)
(* Proofs about KafkaBootstrap, for any number of pods and of faults: one  *)
(* cluster id is chosen and every directory is formatted with it.          *)
(***************************************************************************)
EXTENDS KafkaBootstrap, TLAPS

USE KafkaAssumption

LEMMA InitInv == Init => BootstrapInv
BY DEF Init, BootstrapInv, TypeOK, Steps, OneWriter, WriteOnce, FromFile

(* Types and the single writer need no more than themselves. *)
LEMMA TypePreserved ==
  ASSUME TypeOK, OneWriter, [Next]_vars
  PROVE  TypeOK' /\ OneWriter'
<1>1. ASSUME NEW n \in Nodes,
             \/ CreatePod(n) \/ Check(n) \/ OpenFile(n) \/ StartServer(n)
             \/ Kill(n)
      PROVE  TypeOK' /\ OneWriter'
  BY <1>1 DEF CreatePod, Check, OpenFile, StartServer, Kill, Goto, TypeOK,
              Steps, OneWriter
<1>2. ASSUME NEW n \in Nodes, Generate(n)
      PROVE  TypeOK' /\ OneWriter'
  BY <1>2 DEF Generate, Goto, TypeOK, Steps, OneWriter
<1>3. ASSUME NEW n \in Nodes, WriteFile(n) \/ ReadFile(n) \/ Format(n)
      PROVE  TypeOK' /\ OneWriter'
  BY <1>3 DEF WriteFile, ReadFile, Format, Goto, TypeOK, Steps, OneWriter
<1>4. CASE UNCHANGED vars
  BY <1>4 DEF vars, TypeOK, OneWriter
<1>5. QED
  BY <1>1, <1>2, <1>3, <1>4 DEF Next, Script

(* As long as the file has no id, no node has formatted anything; and node *)
(* 0 writes only then.                                                     *)
LEMMA NothingFormatted ==
  ASSUME BootstrapInv, pc[0] \in {"generate", "open", "write"}
  PROVE  /\ file \in {Missing, NoId}
         /\ \A n \in Nodes : /\ disk[n] = NoId
                             /\ pc[n] = "format" => clusterId[n] = NoId
BY DEF BootstrapInv, TypeOK, WriteOnce, FromFile

LEMMA InvPreserved == BootstrapInv /\ [Next]_vars => BootstrapInv'
<1> SUFFICES ASSUME BootstrapInv, [Next]_vars
             PROVE  WriteOnce' /\ FromFile'
  BY TypePreserved DEF BootstrapInv
<1> USE DEF BootstrapInv, TypeOK, Goto
<1>1. ASSUME NEW n \in Nodes, CreatePod(n) \/ Check(n) \/ StartServer(n)
      PROVE  WriteOnce' /\ FromFile'
  BY <1>1 DEF CreatePod, Check, StartServer, WriteOnce, FromFile
<1>2. ASSUME NEW n \in Nodes, Generate(n) \/ Kill(n)
      PROVE  WriteOnce' /\ FromFile'
  BY <1>2 DEF Generate, Kill, WriteOnce, FromFile
<1>3. ASSUME NEW n \in Nodes, OpenFile(n) PROVE WriteOnce' /\ FromFile'
  <2>1. n = 0
    BY <1>3 DEF OpenFile, OneWriter
  <2>2. QED
    BY <1>3, <2>1, NothingFormatted DEF OpenFile, WriteOnce, FromFile
<1>4. ASSUME NEW n \in Nodes, WriteFile(n) PROVE WriteOnce' /\ FromFile'
  <2>1. n = 0
    BY <1>4 DEF WriteFile, OneWriter
  <2>2. QED
    BY <1>4, <2>1, NothingFormatted DEF WriteFile, WriteOnce, FromFile
<1>5. ASSUME NEW n \in Nodes, ReadFile(n) \/ Format(n)
      PROVE  WriteOnce' /\ FromFile'
  BY <1>5 DEF ReadFile, Format, WriteOnce, FromFile
<1>6. CASE UNCHANGED vars
  BY <1>6 DEF vars, WriteOnce, FromFile
<1>7. QED
  BY <1>1, <1>2, <1>3, <1>4, <1>5, <1>6 DEF Next, Script

(* The inductive invariant of the bootstrap. *)
THEOREM BootstrapInvCorrect == Spec => []BootstrapInv
<1>1. QED
  BY InitInv, InvPreserved, PTL DEF Spec

(* No two directories of the shared volume are formatted with different    *)
(* cluster ids, for any number of pods, restarts and failures.             *)
THEOREM SameClusterIdCorrect == Spec => []SameClusterId
<1>1. BootstrapInv => SameClusterId
  BY DEF BootstrapInv, FromFile, SameClusterId
<1>2. QED
  BY <1>1, BootstrapInvCorrect, PTL

-----------------------------------------------------------------------------
(* Every step of the scripts is a step of the agreement, or none.          *)

LEMMA InitAgrees == Init => Agreement!Init
BY DEF Init, Agreement!Init

LEMMA NextAgrees ==
  BootstrapInv /\ [Next]_vars
    => [Agreement!Next]_<< IF file = Missing THEN NoId ELSE file, disk >>
<1> DEFINE chosen == IF file = Missing THEN NoId ELSE file
<1> SUFFICES ASSUME BootstrapInv, [Next]_vars
             PROVE  Agreement!Next \/ UNCHANGED << chosen, disk >>
  OBVIOUS
<1>1. ASSUME NEW n \in Nodes, WriteFile(n)
      PROVE  Agreement!Next \/ UNCHANGED << chosen, disk >>
  <2>1. chosen = NoId /\ disk' = disk /\ chosen' = clusterId[n]
    BY <1>1, NothingFormatted
       DEF WriteFile, BootstrapInv, OneWriter, TypeOK
  <2>2. CASE clusterId[n] = NoId
    BY <2>1, <2>2
  <2>3. CASE clusterId[n] # NoId
    <3>1. clusterId[n] \in Ids
      BY <2>3 DEF BootstrapInv, TypeOK
    <3>2. Agreement!Choose(clusterId[n])
      BY <2>1 DEF Agreement!Choose
    <3>3. QED
      BY <3>1, <3>2 DEF Agreement!Next
  <2>4. QED
    BY <2>2, <2>3
<1>2. ASSUME NEW n \in Nodes, Format(n)
      PROVE  Agreement!Next \/ UNCHANGED << chosen, disk >>
  <2>1. CASE clusterId[n] # NoId /\ disk[n] = NoId
    <3>1. clusterId[n] = chosen /\ chosen' = chosen
      BY <1>2, <2>1 DEF Format, BootstrapInv, FromFile, TypeOK
    <3>2. Agreement!Adopt(n)
      BY <1>2, <2>1, <3>1 DEF Format, Agreement!Adopt
    <3>3. QED
      BY <3>2 DEF Agreement!Next
  <2>2. CASE ~(clusterId[n] # NoId /\ disk[n] = NoId)
    BY <1>2, <2>2 DEF Format
  <2>3. QED
    BY <2>1, <2>2
<1>3. ASSUME NEW n \in Nodes, OpenFile(n) PROVE UNCHANGED << chosen, disk >>
  BY <1>3, NothingFormatted DEF OpenFile, BootstrapInv, OneWriter
<1>4. ASSUME NEW n \in Nodes,
             \/ CreatePod(n) \/ Check(n) \/ Generate(n) \/ ReadFile(n)
             \/ StartServer(n) \/ Kill(n)
      PROVE  UNCHANGED << chosen, disk >>
  BY <1>4 DEF CreatePod, Check, Generate, ReadFile, StartServer, Kill
<1>5. CASE UNCHANGED vars
  BY <1>5 DEF vars
<1>6. QED
  BY <1>1, <1>2, <1>3, <1>4, <1>5 DEF Next, Script

(* The bootstrap implements the choice of one cluster id that every node   *)
(* adopts for good.                                                        *)
THEOREM ImplementsAgreement == Spec => AgreementSpec
<1>1. QED
  BY InitAgrees, NextAgrees, BootstrapInvCorrect, PTL
     DEF Spec, AgreementSpec, Agreement!Spec
=============================================================================

--------------------------- MODULE PodSystemProofs ----------------------------
(***************************************************************************)
(* Proofs about the admission of pods in PodSystem, for every set of names *)
(* and manifests and every bound: what the webhook promises.               *)
(***************************************************************************)
EXTENDS PodSystem, TLAPS

(* The requests and pods in the types that the proofs need. *)
AdmissionTypes ==
  /\ requests \in [Names -> Requests]
  /\ admitted \in Seq(Pods)
  /\ nameOf \in Seq(Names)

AdmissionIInv == AdmissionTypes /\ AdmissionInv

-----------------------------------------------------------------------------
(* The patch: a container without limits becomes the defaults, every other *)
(* stays as it is.                                                         *)
LEMMA PatchApplied ==
  ASSUME NEW containers \in Seq(Resources), NEW i \in DOMAIN containers
  PROVE  Apply(Patch(containers), containers)[i] =
           IF containers[i].limits = Unset THEN Defaults ELSE containers[i]
<1>1. CASE containers[i].limits = Unset
  <2>1. [path |-> i, value |-> Defaults] \in Patch(containers)
    BY <1>1 DEF Patch
  <2>2. \A op \in Patch(containers) : op.value = Defaults
    BY DEF Patch
  <2>3. \E op \in Patch(containers) : op.path = i
    BY <2>1
  <2>4. (CHOOSE op \in Patch(containers) : op.path = i) \in Patch(containers)
    BY <2>3
  <2> QED BY <1>1, <2>2, <2>3, <2>4 DEF Apply
<1>2. CASE containers[i].limits # Unset
  <2>1. ~ \E op \in Patch(containers) : op.path = i
    BY <1>2 DEF Patch
  <2> QED BY <1>2, <2>1 DEF Apply
<1> QED BY <1>1, <1>2

LEMMA PatchGives ==
  ASSUME NEW asked \in Seq(Resources)
  PROVE  LET patched == Apply(Patch(asked), asked)
         IN /\ patched \in Seq(Resources)
            /\ HaveLimits(asked, patched)
            /\ AllValid(asked) => AllValid(patched)
<1> DEFINE patched == Apply(Patch(asked), asked)
<1>1. /\ DOMAIN patched = DOMAIN asked
      /\ \E n \in Nat : DOMAIN asked = 1..n
      /\ patched = [i \in DOMAIN asked |-> patched[i]]
  BY DEF Apply
<1>2. \A i \in DOMAIN asked : asked[i] \in Resources
  OBVIOUS
<1>3. /\ Defaults \in Resources /\ Defaults.limits # Unset /\ Valid(Defaults)
  BY DEF Defaults, Resources, Unset, Valid
<1>4. \A i \in DOMAIN asked :
        patched[i] = IF asked[i].limits = Unset THEN Defaults ELSE asked[i]
  BY PatchApplied
<1> HIDE DEF patched
<1>5. \A i \in DOMAIN asked : patched[i] \in Resources
  BY <1>2, <1>3, <1>4
<1>6. patched \in Seq(Resources)
  BY <1>1, <1>5
<1>7. HaveLimits(asked, patched)
  BY <1>1, <1>3, <1>4 DEF HaveLimits
<1>8. AllValid(asked) => AllValid(patched)
  BY <1>1, <1>3, <1>4 DEF AllValid
<1> QED BY <1>6, <1>7, <1>8 DEF patched

-----------------------------------------------------------------------------
(* The steps of one request. *)

LEMMA SubmitAdmits ==
  ASSUME AdmissionIInv, NEW n \in Names, NEW manifest \in Manifests,
         Submit(n, manifest)
  PROVE  AdmissionIInv'
<1> DEFINE r == [stage |-> IF manifest.optedIn THEN "webhook" ELSE "store",
                 optedIn |-> manifest.optedIn,
                 asked |-> manifest.containers,
                 containers |-> manifest.containers]
<1>1. manifest.optedIn \in BOOLEAN /\ manifest.containers \in Seq(Resources)
  BY ManifestsAssumption
<1>2. r \in Requests /\ requests' = [requests EXCEPT ![n] = r]
  BY <1>1 DEF Submit, Requests, Stages
<1>3. AdmissionTypes'
  BY <1>2 DEF AdmissionIInv, AdmissionTypes, Submit, vars, server
<1>4. RequestOK(n)'
  <2>1. requests'[n] = r
    BY <1>2 DEF AdmissionIInv, AdmissionTypes
  <2> QED BY <1>1, <2>1 DEF RequestOK
<1>5. \A m \in Names : m # n => RequestOK(m)'
  BY <1>2 DEF AdmissionIInv, AdmissionTypes, AdmissionInv, RequestOK
<1> QED BY <1>3, <1>4, <1>5
        DEF AdmissionIInv, AdmissionInv, OptedInHaveLimits, Submit

LEMMA MutateAdmits ==
  ASSUME AdmissionIInv, NEW n \in Names, HandleMutate(n)
  PROVE  AdmissionIInv'
<1> DEFINE asked == requests[n].asked
           patched == Apply(Patch(asked), asked)
<1>1. /\ requests[n] \in Requests /\ asked \in Seq(Resources)
      /\ requests[n].containers = asked
  BY DEF AdmissionIInv, AdmissionTypes, AdmissionInv, RequestOK, HandleMutate,
         Requests
<1>2. /\ patched \in Seq(Resources) /\ HaveLimits(asked, patched)
      /\ AllValid(asked) => AllValid(patched)
  BY <1>1, PatchGives
<1>3. requests' = [requests EXCEPT ![n].stage = "store", ![n].containers = patched]
  BY <1>1 DEF HandleMutate, AdmissionIInv, AdmissionTypes
<1> HIDE DEF patched
<1>4. /\ requests'[n] \in Requests /\ requests'[n].stage = "store"
      /\ requests'[n].asked = asked /\ requests'[n].containers = patched
  BY <1>1, <1>2, <1>3 DEF AdmissionIInv, AdmissionTypes, Requests, Stages
<1>5. \A m \in Names : m # n => requests'[m] = requests[m]
  BY <1>3 DEF AdmissionIInv, AdmissionTypes
<1>6. AdmissionTypes'
  BY <1>3, <1>4, <1>5 DEF AdmissionIInv, AdmissionTypes, HandleMutate, vars, server
<1>7. \A m \in Names : RequestOK(m)'
  BY <1>2, <1>4, <1>5 DEF AdmissionIInv, AdmissionInv, RequestOK
<1> QED BY <1>6, <1>7
        DEF AdmissionIInv, AdmissionInv, OptedInHaveLimits, HandleMutate

(* A request ends: refused, or stored as it is. *)
LEMMA EndAdmits ==
  ASSUME AdmissionIInv, NEW n \in Names,
         requests' = [requests EXCEPT ![n] = NoRequest],
         \/ UNCHANGED << nameOf, admitted >>
         \/ /\ requests[n].stage = "store"
            /\ nameOf' = Append(nameOf, n)
            /\ admitted' = Append(admitted,
                 [optedIn |-> requests[n].optedIn, asked |-> requests[n].asked,
                  containers |-> requests[n].containers])
  PROVE  AdmissionIInv'
<1> DEFINE p == [optedIn |-> requests[n].optedIn, asked |-> requests[n].asked,
                 containers |-> requests[n].containers]
<1>1. requests[n] \in Requests /\ p \in Pods /\ NoRequest \in Requests
  BY DEF AdmissionIInv, AdmissionTypes, Requests, Pods, NoRequest, Stages
<1>2. AdmissionTypes'
  <2>1. requests' \in [Names -> Requests]
    BY <1>1 DEF AdmissionIInv, AdmissionTypes
  <2>2. admitted' \in Seq(Pods) /\ nameOf' \in Seq(Names)
    <3>1. CASE UNCHANGED << nameOf, admitted >>
      BY <3>1 DEF AdmissionIInv, AdmissionTypes
    <3>2. CASE nameOf' = Append(nameOf, n) /\ admitted' = Append(admitted, p)
      BY <1>1, <3>2 DEF AdmissionIInv, AdmissionTypes
    <3> QED BY <3>1, <3>2
  <2> QED BY <2>1, <2>2 DEF AdmissionTypes
<1>3. \A m \in Names : RequestOK(m)'
  BY DEF AdmissionIInv, AdmissionTypes, AdmissionInv, RequestOK, NoRequest
<1>4. OptedInHaveLimits'
  <2>1. CASE admitted' = admitted
    BY <2>1 DEF AdmissionIInv, AdmissionInv, OptedInHaveLimits
  <2>2. CASE requests[n].stage = "store" /\ admitted' = Append(admitted, p)
    <3> SUFFICES ASSUME NEW uid \in DOMAIN admitted', admitted'[uid].optedIn
                 PROVE  HaveLimits(admitted'[uid].asked, admitted'[uid].containers)
      BY DEF OptedInHaveLimits
    <3>1. admitted \in Seq(Pods)
      BY DEF AdmissionIInv, AdmissionTypes
    <3>2. CASE uid \in DOMAIN admitted
      <4>1. admitted'[uid] = admitted[uid]
        BY <1>1, <2>2, <3>1, <3>2
      <4> QED BY <3>2, <4>1 DEF AdmissionIInv, AdmissionInv, OptedInHaveLimits
    <3>3. CASE uid \notin DOMAIN admitted
      <4>1. admitted'[uid] = p
        BY <1>1, <2>2, <3>1, <3>3
      <4> QED BY <2>2, <4>1 DEF AdmissionIInv, AdmissionInv, RequestOK
    <3> QED BY <3>2, <3>3
  <2> QED BY <2>1, <2>2
<1> QED BY <1>2, <1>3, <1>4 DEF AdmissionIInv, AdmissionInv

LEMMA StoreAdmits ==
  ASSUME AdmissionIInv, NEW n \in Names, CallFails(n) \/ StorePod(n)
  PROVE  AdmissionIInv'
BY EndAdmits DEF CallFails, StorePod, CreatePod, vars, server

LEMMA NotifyAdmits ==
  ASSUME NotifyNext PROVE UNCHANGED nameOf
BY DEF NotifyNext, DeletePod, ControllerStep, DeliverEvent, List, Send,
       TakeDeletion, Dial, DeclareQueue, Publish, WatchExpires, Crash,
       BrokerStops, BrokerStarts, Consume, server

LEMMA QuietAdmits ==
  ASSUME AdmissionIInv, UNCHANGED << requests, admitted, nameOf >>
  PROVE  AdmissionIInv'
BY DEF AdmissionIInv, AdmissionTypes, AdmissionInv, RequestOK, OptedInHaveLimits

-----------------------------------------------------------------------------
(* In every reachable state, what is on its way to the store is as it is   *)
(* to be.                                                                  *)
THEOREM AdmissionInvCorrect == Spec => []AdmissionIInv
<1>1. Init => AdmissionIInv
  BY DEF Init, NotifyInit, AdmissionIInv, AdmissionTypes, AdmissionInv,
         RequestOK, OptedInHaveLimits, NoRequest, Requests, Stages
<1>2. AdmissionIInv /\ [Next]_podVars => AdmissionIInv'
  BY SubmitAdmits, MutateAdmits, StoreAdmits, NotifyAdmits, QuietAdmits
  DEF Next, podVars, vars, server
<1> QED BY <1>1, <1>2, PTL DEF Spec

(* No opted-in pod is stored with a container without limits, nor one with *)
(* limits it did not ask for where it asked for some.                      *)
THEOREM OptedInHaveLimitsCorrect == Spec => []OptedInHaveLimits
<1>1. AdmissionIInv => OptedInHaveLimits
  BY DEF AdmissionIInv, AdmissionInv
<1> QED BY AdmissionInvCorrect, <1>1, PTL

(* A pod that is valid as it was asked for is not refused after the        *)
(* webhook has patched it.                                                 *)
THEOREM ValidNotRefusedCorrect == Spec => ValidNotRefused
<1>1. ASSUME AdmissionIInv, Next PROVE AcceptsValid
  <2> SUFFICES ASSUME NEW n \in Names,
                      requests[n].stage = "store", requests'[n].stage = "none",
                      AllValid(requests[n].asked), pods[n] = 0,
                      Len(nameOf) < MaxPods
               PROVE  Len(nameOf') > Len(nameOf)
    BY DEF AcceptsValid
  <2>1. Acceptable(n)
    BY <1>1 DEF AdmissionIInv, AdmissionInv, RequestOK, Acceptable
  <2>2. requests \in [Names -> Requests] /\ nameOf \in Seq(Names)
    BY <1>1 DEF AdmissionIInv, AdmissionTypes
  <2>3. StorePod(n)
    <3>1. ASSUME NEW m \in Names,
                 \/ \E manifest \in Manifests : Submit(m, manifest)
                 \/ HandleMutate(m) \/ CallFails(m) \/ StorePod(m)
          PROVE  m = n
      BY <2>2, <3>1 DEF Submit, HandleMutate, CallFails, StorePod, NoRequest
    <3>2. \E m \in Names :
            \/ \E manifest \in Manifests : Submit(m, manifest)
            \/ HandleMutate(m) \/ CallFails(m) \/ StorePod(m)
      BY <1>1 DEF Next
    <3>3. ~HandleMutate(n) /\ ~CallFails(n)
      BY DEF HandleMutate, CallFails
    <3>4. \A manifest \in Manifests : ~Submit(n, manifest)
      BY DEF Submit, NoRequest
    <3> QED BY <3>1, <3>2, <3>3, <3>4
  <2>4. CreatePod(n)
    BY <2>1, <2>2, <2>3 DEF StorePod
  <2>5. nameOf' = Append(nameOf, n)
    BY <2>4 DEF CreatePod
  <2> QED BY <2>2, <2>5
<1>2. AdmissionIInv /\ [Next]_podVars => [AcceptsValid]_podVars
  BY <1>1
<1> QED BY AdmissionInvCorrect, <1>2, PTL DEF Spec, ValidNotRefused
=============================================================================

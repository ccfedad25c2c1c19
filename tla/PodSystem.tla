------------------------------ MODULE PodSystem -------------------------------
(***************************************************************************)
(* The pods of the cluster between the mutating webhook, which an opted-in *)
(* pod passes before it is stored, and the notify-controller, which tells  *)
(* a queue when it is gone.                                                *)
(***************************************************************************)
EXTENDS MutatingWebhook, NotifyController

CONSTANT Manifests   \* the pods users create: [optedIn, containers]

VARIABLES
  requests,   \* the request to create a pod of each name
  admitted    \* for each uid, what was asked for and what was stored

podVars == << vars, requests, admitted >>

-----------------------------------------------------------------------------
Stages == {"none", "webhook", "store"}

NoRequest == [stage |-> "none", optedIn |-> FALSE, asked |-> << >>,
              containers |-> << >>]

Resources == [requests : {Unset} \cup Nat, limits : {Unset} \cup Nat]

Requests == [stage : Stages, optedIn : BOOLEAN, asked : Seq(Resources),
             containers : Seq(Resources)]

Pods == [optedIn : BOOLEAN, asked : Seq(Resources), containers : Seq(Resources)]

ASSUME ManifestsAssumption ==
  Manifests \subseteq [optedIn : BOOLEAN, containers : Seq(Resources)]

TypeOK ==
  /\ NotifyTypeOK
  /\ requests \in [Names -> Requests]
  /\ admitted \in Seq(Pods)
  /\ Len(admitted) = Len(nameOf)

Init ==
  /\ NotifyInit
  /\ requests = [n \in Names |-> NoRequest]
  /\ admitted = << >>

(* The webhook is called for the pods that its object selector selects.    *)
Submit(n, manifest) ==
  /\ requests[n] = NoRequest /\ Len(nameOf) < MaxPods
  /\ requests' = [requests EXCEPT
       ![n] = [stage |-> IF manifest.optedIn THEN "webhook" ELSE "store",
               optedIn |-> manifest.optedIn,
               asked |-> manifest.containers,
               containers |-> manifest.containers]]
  /\ UNCHANGED << vars, admitted >>

(* The webhook allows every pod and sends a patch.                         *)
HandleMutate(n) ==
  /\ requests[n].stage = "webhook"
  /\ requests' = [requests EXCEPT
       ![n].stage = "store",
       ![n].containers = Apply(Patch(@), @)]
  /\ UNCHANGED << vars, admitted >>

(* No answer in 30 seconds, or the answer without a body that the webhook  *)
(* gives for a review it cannot read: the configuration has the default    *)
(* failure policy, and the request is refused.                             *)
CallFails(n) ==
  /\ requests[n].stage = "webhook"
  /\ requests' = [requests EXCEPT ![n] = NoRequest]
  /\ UNCHANGED << vars, admitted >>

AllValid(containers) == \A i \in DOMAIN containers : Valid(containers[i])

(* The API server validates what the webhooks have made of the pod.        *)
Acceptable(n) ==
  /\ pods[n] = 0
  /\ AllValid(requests[n].containers)

StorePod(n) ==
  /\ requests[n].stage = "store"
  /\ requests' = [requests EXCEPT ![n] = NoRequest]
  /\ \/ /\ Acceptable(n)
        /\ CreatePod(n)
        /\ admitted' = Append(admitted,
             [optedIn |-> requests[n].optedIn, asked |-> requests[n].asked,
              containers |-> requests[n].containers])
     \/ (~Acceptable(n) \/ Len(nameOf) = MaxPods) /\ UNCHANGED << vars, admitted >>

Next ==
  \/ \E n \in Names :
       \/ \E manifest \in Manifests : Submit(n, manifest)
       \/ HandleMutate(n) \/ CallFails(n) \/ StorePod(n)
  \/ NotifyNext /\ UNCHANGED << requests, admitted >>

Spec == Init /\ [][Next]_podVars /\ NotifyFairness

-----------------------------------------------------------------------------
(* What the webhook promises. *)

(* Every container has limits; those it came with are its own. *)
HaveLimits(asked, containers) ==
  /\ DOMAIN containers = DOMAIN asked
  /\ \A i \in DOMAIN asked :
       /\ containers[i].limits # Unset
       /\ asked[i].limits # Unset => containers[i] = asked[i]

(* An opted-in pod is stored only with limits in each of its containers,   *)
(* whichever calls fail; the limits a container came with are its limits.  *)
OptedInHaveLimits ==
  \A uid \in DOMAIN admitted :
    admitted[uid].optedIn => HaveLimits(admitted[uid].asked, admitted[uid].containers)

(* The patch never makes a pod invalid: one that is valid as it was asked  *)
(* for is not refused once the webhook has answered.                       *)
AcceptsValid ==
  \A n \in Names :
    /\ requests[n].stage = "store" /\ requests'[n].stage = "none"
    /\ AllValid(requests[n].asked)
    /\ pods[n] = 0 /\ Len(nameOf) < MaxPods
    => Len(nameOf') > Len(nameOf)

ValidNotRefused == [][AcceptsValid]_podVars

(* Why they hold: between the webhook and the store, a request has what it *)
(* is to have; one that has not been to the webhook is as it was.          *)
RequestOK(n) ==
  LET asked == requests[n].asked
      containers == requests[n].containers
  IN /\ requests[n].stage = "webhook" => containers = asked
     /\ requests[n].stage = "store" =>
          /\ requests[n].optedIn => HaveLimits(asked, containers)
          /\ AllValid(asked) => AllValid(containers)

AdmissionInv == (\A n \in Names : RequestOK(n)) /\ OptedInHaveLimits
=============================================================================

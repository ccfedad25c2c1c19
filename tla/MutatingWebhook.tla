--------------------------- MODULE MutatingWebhook ----------------------------
(***************************************************************************)
(* The patch of the mutating webhook, as operators on the containers of a  *)
(* pod.  A container's requests and limits are one number each, in units   *)
(* of the webhook's own request; a pod's admission is in PodSystem.        *)
(***************************************************************************)
EXTENDS Integers, Sequences

Unset == -1    \* a nil map, which an empty one becomes on its way here

(* What the webhook gives a container: 150m and 128Mi, 300m and 256Mi.     *)
Defaults == [requests |-> 1, limits |-> 2]

(* The API server takes no container that requests more than its limit.    *)
Valid(container) ==
  container.limits # Unset => container.requests <= container.limits

(* Mutants of Patch: paths count the operations instead of the containers; *)
(* a container's own requests are kept.                                    *)
PatchPacked(containers) ==
  { [path |-> i, value |-> Defaults] :
    i \in 1..Len(SelectSeq(containers, LAMBDA c : c.limits = Unset)) }

PatchLimitsOnly(containers) ==
  { [path |-> i,
     value |-> IF containers[i].requests = Unset THEN Defaults
               ELSE [Defaults EXCEPT !.requests = containers[i].requests]] :
    i \in { j \in DOMAIN containers : containers[j].limits = Unset } }

(* addResourceLimits: one operation for each container without limits,     *)
(* which adds the whole of its resources.                                  *)
Patch(containers) ==
  { [path |-> i, value |-> Defaults] :
    i \in { j \in DOMAIN containers : containers[j].limits = Unset } }

(* A JSON patch's add replaces what is there.                              *)
Apply(patch, containers) ==
  [i \in DOMAIN containers |->
     IF \E op \in patch : op.path = i
     THEN (CHOOSE op \in patch : op.path = i).value
     ELSE containers[i]]
=============================================================================

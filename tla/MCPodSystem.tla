----------------------------- MODULE MCPodSystem ------------------------------
(***************************************************************************)
(* An instance of PodSystem for TLC.                                       *)
(***************************************************************************)
EXTENDS PodSystem

CONSTANTS n1, n2   \* model values for Names

Container(requested, limit) == [requests |-> requested, limits |-> limit]

(* A pod with a container with limits before a bare one that requests more *)
(* than the webhook's limit; and one that has not opted in.                *)
MCManifests ==
  { [optedIn |-> TRUE,
     containers |-> << Container(1, 3), Container(3, Unset) >>],
    [optedIn |-> FALSE, containers |-> << Container(4, 3) >>] }
=============================================================================

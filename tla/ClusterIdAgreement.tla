-------------------------- MODULE ClusterIdAgreement -------------------------
(***************************************************************************)
(* What a KRaft cluster needs of its bootstrap: one cluster id is chosen,  *)
(* once, and every node that formats its storage formats it with that id,  *)
(* for good.                                                               *)
(***************************************************************************)
CONSTANTS Nodes, Ids, NoId

VARIABLES
  chosen,   \* the id of the cluster, NoId as long as there is none
  adopted   \* the id in the formatted storage of each node

Init ==
  /\ chosen = NoId
  /\ adopted = [n \in Nodes |-> NoId]

Choose(i) ==
  /\ chosen = NoId
  /\ chosen' = i
  /\ UNCHANGED adopted

Adopt(n) ==
  /\ chosen # NoId /\ adopted[n] = NoId
  /\ adopted' = [adopted EXCEPT ![n] = chosen]
  /\ UNCHANGED chosen

Next == (\E i \in Ids : Choose(i)) \/ (\E n \in Nodes : Adopt(n))

Spec == Init /\ [][Next]_<< chosen, adopted >>
=============================================================================

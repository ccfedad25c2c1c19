----------------------------- MODULE OwnedObjects -----------------------------
(***************************************************************************)
(* What a finalizer is for: owners come and go, things are made for them,  *)
(* and an owner that has taken hold goes only when it was asked to and     *)
(* leaves nothing that nobody else holds.                                  *)
(***************************************************************************)
CONSTANTS
  Owners,
  Owned     \* for each thing, the owners it may have

VARIABLES
  owner,    \* the stage of each owner
  live      \* the things there are

Things == DOMAIN Owned

Holders == { e \in Owners : owner[e] \in {"holding", "leaving"} }

Init ==
  /\ owner = [e \in Owners |-> "absent"]
  /\ live = {}

Moves(e, from, to) ==
  /\ owner[e] = from
  /\ owner' = [owner EXCEPT ![e] = to]
  /\ UNCHANGED live

Enter(e) == Moves(e, "absent", "present")

TakeHold(e) == Moves(e, "present", "holding")

Ask(e) == Moves(e, "holding", "leaving")

(* One that holds nothing yet just goes; one that does, when it was asked, *)
(* and all that is left of its things has another holder.                  *)
Give(e) == Moves(e, "present", "absent")

Release(e) ==
  /\ \A o \in live : e \in Owned[o] => (Owned[o] \cap Holders) \ {e} # {}
  /\ Moves(e, "leaving", "absent")

Make(o) ==
  /\ Owned[o] \cap Holders # {}
  /\ live' = live \cup {o}
  /\ UNCHANGED owner

Destroy(o) ==
  /\ live' = live \ {o}
  /\ UNCHANGED owner

Next ==
  \/ \E e \in Owners : Enter(e) \/ TakeHold(e) \/ Ask(e) \/ Give(e) \/ Release(e)
  \/ \E o \in Things : Make(o) \/ Destroy(o)

Spec == Init /\ [][Next]_<< owner, live >>
=============================================================================

--------------------------- MODULE NotifyController ---------------------------
(***************************************************************************)
(* The notify-controller: a shared informer on pods whose delete handler   *)
(* sends the deleted pod to a message queue.  A pod is its uid here: the   *)
(* informer keeps pods by name, and a name may be used again.              *)
(*                                                                         *)
(* The API server's pods have a version for each change.  What an informer *)
(* has is one of them: a list answers with a version, and the watch brings *)
(* the informer from each version to the next.                             *)
(***************************************************************************)
EXTENDS Integers, Sequences, FiniteSets, SequencesExt

CONSTANTS
  Names,         \* the names of pods
  MaxPods,       \* bound: pods ever created
  MaxCrashes,    \* bound: restarts of the controller from outside
  MaxOutages,    \* bound: stops of the broker
  MaxExpiries    \* bound: watches that cannot be resumed

ASSUME NotifyAssumption == {MaxPods, MaxCrashes, MaxOutages, MaxExpiries} \subseteq Nat

VARIABLES
  versions,  \* the API server: the uid of the pod of each name, 0 if none
  nameOf,    \* the name of each uid ever given
  watch,     \* is the informer watching, or has it to list first?
  known,     \* the version that the informer has, 0 before its first list
  pending,   \* deletions the handler has still to be called with
  sending,   \* the Send in progress
  starts,    \* how often the process has been started
  broker,    \* is the broker up?
  queue,     \* the messages in the queue "publisher"
  received,  \* what the consumers of the queue have had
  crashes, outages, expiries

server == << versions, nameOf >>
informer == << watch, known >>
handler == << pending, sending >>
messages == << queue, received >>
faults == << crashes, outages, expiries >>
vars == << server, informer, handler, starts, broker, messages, faults >>

-----------------------------------------------------------------------------
Uids == 1..MaxPods

(* What the delete handler is called with: the pod, or a tombstone of the  *)
(* last state the informer knew, when a list no longer has it.             *)
Deletions == [uid : Uids, tombstone : BOOLEAN]

(* A message also tells, but not to its consumer, the start of the process *)
(* that has sent it.                                                       *)
Messages == [uid : Uids, start : Nat]

(* Send, for a pod, over a connection that is up or has died. *)
Sendings == [at : {"idle", "dial", "declare", "publish"}, uid : 0..MaxPods,
             up : BOOLEAN]

Idle == [at |-> "idle", uid |-> 0, up |-> FALSE]

NoPods == [n \in Names |-> 0]

(* The pods there are. *)
pods == versions[Len(versions)]

(* The informer's pods. *)
store == IF known = 0 THEN NoPods ELSE versions[known]

NotifyTypeOK ==
  /\ versions \in Seq([Names -> 0..MaxPods]) /\ versions # << >>
  /\ nameOf \in UNION { [1..n -> Names] : n \in 0..MaxPods }
  /\ watch \in {"open", "list"}
  /\ known \in 0..Len(versions) /\ (watch = "open" => known > 0)
  /\ pending \in Seq(Deletions)
  /\ sending \in Sendings
  /\ starts \in Nat
  /\ broker \in BOOLEAN
  /\ queue \in Seq(Messages) /\ received \in Seq(Messages)
  /\ crashes \in Nat /\ outages \in Nat /\ expiries \in Nat

NotifyInit ==
  /\ versions = << NoPods >> /\ nameOf = << >>
  /\ watch = "list" /\ known = 0
  /\ pending = << >> /\ sending = Idle /\ starts = 1
  /\ broker = TRUE /\ queue = << >> /\ received = << >>
  /\ crashes = 0 /\ outages = 0 /\ expiries = 0

-----------------------------------------------------------------------------
(* The API server. *)

Change(n, uid) == versions' = Append(versions, [pods EXCEPT ![n] = uid])

CreatePod(n) ==
  /\ pods[n] = 0 /\ Len(nameOf) < MaxPods
  /\ nameOf' = Append(nameOf, n)
  /\ Change(n, Len(nameOf) + 1)
  /\ UNCHANGED << informer, handler, starts, broker, messages, faults >>

DeletePod(n) ==
  /\ pods[n] # 0
  /\ Change(n, 0)
  /\ UNCHANGED << nameOf, informer, handler, starts, broker, messages, faults >>

-----------------------------------------------------------------------------
(* The informer. *)

(* Mutant of Announced: only a whole pod is sent, as by a handler that     *)
(* looks at the type of what it gets.                                      *)
AnnouncedPods(deletions) ==
  SelectSeq(deletions, LAMBDA d : ~d.tombstone)

(* Mutant of Announced: a type assertion whose result nobody looks at      *)
(* makes no pod of a tombstone.                                            *)
AnnouncedBlindly(deletions) ==
  [i \in DOMAIN deletions |->
     IF deletions[i].tombstone THEN [deletions[i] EXCEPT !.uid = 0]
     ELSE deletions[i]]

(* What the delete handler sends on: whatever it is called with.           *)
Announced(deletions) == deletions

(* The watch brings the next version, in which one name has changed.  The  *)
(* add handler only prints.                                                *)
DeliverEvent ==
  /\ watch = "open" /\ known < Len(versions)
  /\ \E n \in Names :
       /\ versions[known + 1][n] # store[n]
       /\ \/ versions[known + 1][n] # 0 /\ UNCHANGED pending
          \/ /\ versions[known + 1][n] = 0
             /\ pending' = pending \o
                  Announced(<< [uid |-> store[n], tombstone |-> FALSE] >>)
  /\ known' = known + 1
  /\ UNCHANGED << server, watch, sending, starts, broker, messages, faults >>

(* The versions that may answer a list: it asks for one that is not older  *)
(* than what the informer has, and the first list of a process for any.    *)
Listed == { v \in DOMAIN versions : v >= known }

(* The list replaces what the informer knew: what is not in it by its name *)
(* is handed over as deleted, in no particular order; a name that is, is   *)
(* an update, of another pod or not.  Nothing of the time before the first *)
(* list is.                                                                *)
List ==
  /\ watch = "list" /\ watch' = "open"
  /\ \E v \in Listed :
       /\ known' = v
       /\ LET gone == { store[n] : n \in { m \in Names :
                           store[m] # 0 /\ versions[v][m] = 0 } }
          IN \E order \in SetToSeqs(gone) :
               pending' = pending \o
                 Announced([i \in DOMAIN order |->
                              [uid |-> order[i], tombstone |-> TRUE]])
  /\ UNCHANGED << server, sending, starts, broker, messages, faults >>

(* The watch ends and its version is too old to go on from: the informer   *)
(* lists, and no event tells it what has changed since.                    *)
WatchExpires ==
  /\ watch = "open" /\ watch' = "list"
  /\ expiries < MaxExpiries /\ expiries' = expiries + 1
  /\ UNCHANGED << server, known, handler, starts, broker, messages, crashes,
                  outages >>

-----------------------------------------------------------------------------
(* The delete handler and Send, one deletion after the other. *)

TakeDeletion ==
  /\ sending = Idle /\ pending # << >>
  /\ sending' = [at |-> "dial", uid |-> Head(pending).uid, up |-> FALSE]
  /\ pending' = Tail(pending)
  /\ UNCHANGED << server, informer, starts, broker, messages, faults >>

(* An error of Dial is returned, and dropped by the handler.               *)
Dial ==
  /\ sending.at = "dial"
  /\ sending' = IF broker THEN [sending EXCEPT !.at = "declare", !.up = TRUE]
                ELSE Idle
  /\ UNCHANGED << server, informer, pending, starts, broker, messages, faults >>

(* The process has ended and the kubelet starts the next one, which knows  *)
(* nothing.                                                                *)
StartAgain ==
  /\ watch' = "list" /\ known' = 0
  /\ pending' = << >> /\ sending' = Idle /\ starts' = starts + 1

(* Without a channel the next line panics, without a queue Send calls      *)
(* Fatalf: both end the process.                                           *)
DeclareQueue ==
  /\ sending.at = "declare"
  /\ \/ /\ sending.up
        /\ sending' = [sending EXCEPT !.at = "publish"]
        /\ UNCHANGED << informer, pending, starts >>
     \/ ~sending.up /\ StartAgain
  /\ UNCHANGED << server, broker, messages, faults >>

(* The message reaches the queue over a connection that is still up.       *)
Published ==
  IF sending.up THEN Append(queue, [uid |-> sending.uid, start |-> starts])
  ELSE queue

(* Mutant of Publish: a failing Close is taken for a failing Publish and   *)
(* the message sent again.                                                 *)
PublishAgain ==
  /\ sending.at = "publish"
  /\ queue' = Published
  /\ sending' \in {Idle, [sending EXCEPT !.at = "dial"]}
  /\ UNCHANGED << server, informer, pending, starts, broker, received, faults >>

(* Nobody looks at the result.                                             *)
Publish ==
  /\ sending.at = "publish"
  /\ queue' = Published
  /\ sending' = Idle
  /\ UNCHANGED << server, informer, pending, starts, broker, received, faults >>

Send == TakeDeletion \/ Dial \/ DeclareQueue \/ Publish

Crash ==
  /\ crashes < MaxCrashes /\ crashes' = crashes + 1
  /\ StartAgain
  /\ UNCHANGED << server, broker, messages, outages, expiries >>

-----------------------------------------------------------------------------
(* The broker and the consumers. *)

(* The queue is durable, its messages are not; connections die. *)
BrokerStops ==
  /\ broker /\ broker' = FALSE
  /\ outages < MaxOutages /\ outages' = outages + 1
  /\ queue' = << >> /\ sending' = [sending EXCEPT !.up = FALSE]
  /\ UNCHANGED << server, informer, pending, starts, received, crashes,
                  expiries >>

BrokerStarts ==
  /\ ~broker /\ broker' = TRUE
  /\ UNCHANGED << server, informer, handler, starts, messages, faults >>

Consume ==
  /\ broker /\ queue # << >>
  /\ received' = Append(received, Head(queue)) /\ queue' = Tail(queue)
  /\ UNCHANGED << server, informer, handler, starts, broker, faults >>

ControllerStep == DeliverEvent \/ List \/ Send

NotifyNext ==
  \/ \E n \in Names : DeletePod(n)
  \/ ControllerStep
  \/ WatchExpires \/ Crash \/ BrokerStops \/ BrokerStarts \/ Consume

(* The informer and the handler are goroutines of their own.               *)
NotifyFairness ==
  /\ WF_vars(DeliverEvent) /\ WF_vars(List) /\ WF_vars(Send)
  /\ WF_vars(Consume) /\ WF_vars(BrokerStarts)

-----------------------------------------------------------------------------
(* What the controller promises. *)

Deleted(uid) == uid \in DOMAIN nameOf /\ pods[nameOf[uid]] # uid

(* A consumer never hears of a pod that is still there, whatever restarts, *)
(* lists and outages come between: not even when its name is in use again. *)
(* Nor does one process announce a pod twice.  Another process may: its    *)
(* first list may be an older one that still has the pod.                  *)
NoFalseAlarm ==
  LET heard == received \o queue
  IN /\ \A i \in DOMAIN heard : Deleted(heard[i].uid)
     /\ IsInjective(heard)

(* Has the controller itself, the broker or the name of the pod given      *)
(* cause to lose the deletion?                                             *)
MayBeLost(uid) ==
  \/ crashes > 0 \/ outages > 0
  \/ \E v \in DOMAIN nameOf : v > uid /\ nameOf[v] = nameOf[uid]

(* The deletion of a pod that the informer has had is announced, also when *)
(* it falls into a gap of the watch, unless the process or the broker went *)
(* down or a new pod of its name hides it from the list.                   *)
DeletionsAnnounced ==
  \A uid \in Uids :
    /\ uid \in DOMAIN nameOf
    /\ store[nameOf[uid]] = uid
    /\ Deleted(uid)
    ~> MayBeLost(uid) \/ \E i \in DOMAIN received : received[i].uid = uid
=============================================================================

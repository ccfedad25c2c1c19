--------------------------- MODULE DevEnvOperator ----------------------------
(***************************************************************************)
(* The devenv-operator: one reconcile worker of controller-runtime, its    *)
(* work queue and its informer caches, against an API server whose objects *)
(* users, other controllers and the operator itself change.  Every API     *)
(* call of Reconcile is one step, so anything may happen between two calls.*)
(*                                                                         *)
(* A resourceVersion is abstracted to the only thing the API server does   *)
(* with it: a copy of an object is either "fresh" (its resourceVersion is  *)
(* the stored one, so that an update with it is accepted) or it is not.    *)
(***************************************************************************)
EXTENDS DevEnvResources, FiniteSets

CONSTANTS
  Specs,        \* the specs users write
  NoDatabase,   \* those of them that leave out the optional database section
  None,         \* no environment, no spec
  ListMayLag,   \* may the list of a restarting operator be an older one?
  MaxEdits,     \* bound: user operations in a behaviour
  MaxFaults,    \* bound: API errors, lost answers and operator restarts
  MaxTampers,   \* bound: changes that others make to the operator's objects
  MaxLag        \* bound: objects whose last write is not yet in the caches

ASSUME SpecAssumption ==
  /\ NoDatabase \subseteq Specs
  /\ None \notin Specs \cup Envs
  /\ ListMayLag \in BOOLEAN
  /\ {MaxEdits, MaxFaults, MaxTampers, MaxLag} \subseteq Nat

VARIABLES
  stored,    \* the API server's DeveloperEnvironments
  past,      \* one earlier version of each, for a list that lags
  cache,     \* the informer's copy of each DeveloperEnvironment
  objects,   \* the API server's namespaces, deployments, services, ...
  seen,      \* how the informer cache of each object relates to objects
  worker,    \* the Reconcile call in progress
  due,       \* the work queue
  timers,    \* requests that come back: RequeueAfter, rate-limited retries
  edits, faults, tampers   \* how much of each bound is used

vars == << stored, past, cache, objects, seen, worker, due, timers,
           edits, faults, tampers >>
queue == << due, timers >>
bounds == << edits, faults, tampers >>

-----------------------------------------------------------------------------
(* The values of the variables. *)

(* A DeveloperEnvironment as far as Reconcile looks at it: finalizers      *)
(* counts the operator's own entries in the list.                          *)
CRs == [exists : BOOLEAN, deleting : BOOLEAN, finalizers : Nat,
        spec : Specs \cup {None}, phase : {"", "Ready"}]

NoCR == [exists |-> FALSE, deleting |-> FALSE, finalizers |-> 0,
         spec |-> None, phase |-> ""]

Copies == [cr : CRs, fresh : BOOLEAN]

Contents == Specs \cup {None, "fixed", "tampered"}

(* What has been deleted and lingers is "terminating", and a claim that a  *)
(* running pod mounted at that time is "held" by it.                       *)
Going == {"terminating", "held"}

Resources == [state : {"absent", "live"} \cup Going, content : Contents]

NoResource == [state |-> "absent", content |-> None]

Steps == {"idle", "addFinalizer", "refetch", "firstStatus", "ensure",
          "update", "lastStatus", "finalize", "removeFinalizer"}

Workers == [pc : Steps, env : Envs \cup {None}, cr : CRs, fresh : BOOLEAN,
            todo : SUBSET Kinds]

Idle == [pc |-> "idle", env |-> None, cr |-> NoCR, fresh |-> FALSE,
         todo |-> {}]

TypeOK ==
  /\ stored \in [Envs -> CRs]
  /\ past \in [Envs -> CRs]
  /\ cache \in [Envs -> Copies]
  /\ objects \in [Objects -> Resources]
  /\ seen \in [Objects -> {"current", "present", "absent"}]
  /\ worker \in Workers
  /\ worker.pc # "idle" => worker.env \in Envs
  /\ due \subseteq Envs /\ timers \subseteq Envs
  /\ edits \in Nat /\ faults \in Nat /\ tampers \in Nat

Init ==
  /\ stored = [e \in Envs |-> NoCR]
  /\ past = [e \in Envs |-> NoCR]
  /\ cache = [e \in Envs |-> [cr |-> NoCR, fresh |-> TRUE]]
  /\ objects = [o \in Objects |-> NoResource]
  /\ seen = [o \in Objects |-> "current"]
  /\ worker = Idle
  /\ due = {} /\ timers = {}
  /\ edits = 0 /\ faults = 0 /\ tampers = 0

-----------------------------------------------------------------------------
(* The API server. *)

(* Environment e is stored as cr: every other copy is out of date. *)
Store(e, cr) ==
  /\ stored' = [stored EXCEPT ![e] = cr]
  /\ cache' = [cache EXCEPT ![e].fresh = FALSE]
  /\ \/ UNCHANGED past
     \/ ListMayLag /\ past' = [past EXCEPT ![e] = stored[e]]

(* What an update of the whole environment with the copy cr answers.  The  *)
(* client writes an omitted database as {"type": "", "version": ""}, which *)
(* the CRD's enum of types rejects.                                        *)
UpdateAnswer(e, cr, fresh) ==
  IF ~stored[e].exists THEN "NotFound"
  ELSE IF ~fresh THEN "Conflict"
  ELSE IF cr.spec \in NoDatabase THEN "Invalid"
  ELSE "OK"

(* What an update of the status subresource with a copy answers: the spec  *)
(* in it is ignored.                                                       *)
StatusAnswer(e, fresh) ==
  IF ~stored[e].exists THEN "NotFound"
  ELSE IF ~fresh THEN "Conflict"
  ELSE "OK"

Present(o) == objects[o].state # "absent"

(* What a Get of o reads in the informer cache. *)
CachedPresent(o) ==
  IF seen[o] = "current" THEN Present(o) ELSE seen[o] = "present"

Lagging == { o \in Objects : seen[o] # "current" }

(* Object o is stored as r.  An update that changes nothing is not stored; *)
(* a change is one more for the informers to catch up with.                *)
StoreObject(o, r) ==
  IF objects[o] = r
  THEN UNCHANGED << objects, seen >>
  ELSE /\ o \in Lagging \/ Cardinality(Lagging) < MaxLag
       /\ objects' = [objects EXCEPT ![o] = r]
       /\ seen' = [seen EXCEPT ![o] =
                     IF @ # "current" THEN @
                     ELSE IF Present(o) THEN "present" ELSE "absent"]

(* A claim that the pods of the environment's Deployment mount. *)
InUse(o) ==
  \E p \in Objects :
    Mounts(p[1], o[1]) /\ p[2] = o[2] /\ objects[p].state = "live"

(* What a delete leaves of object o of kind k. *)
Remains(k, o) ==
  IF k \in Lingering /\ Present(o)
  THEN [objects[o] EXCEPT !.state = IF @ # "live" THEN @
                                    ELSE IF InUse(o) THEN "held"
                                    ELSE "terminating"]
  ELSE NoResource

(* The claim stays for as long as the Deployment keeps the pod running.    *)
HeldBack(o) == objects[o].state = "held" /\ InUse(o)

-----------------------------------------------------------------------------
(* Reconcile: how a call ends. *)

(* Mutants of Fail: the request is not put back; or put back under a name  *)
(* that the call has already cleared.                                      *)
FailForgets ==
  /\ worker' = Idle
  /\ UNCHANGED timers

FailClears ==
  /\ worker' = Idle
  /\ timers' = timers \cup {worker'.env}

(* An error is returned: the request comes back after a back-off.          *)
Fail ==
  /\ worker' = Idle
  /\ timers' = timers \cup {worker.env}

(* An API call that changed something answered, and Reconcile goes on to   *)
(* w; or the answer is lost, which Reconcile takes for an error.           *)
Answered(w) ==
  \/ worker' = w /\ UNCHANGED << timers, faults >>
  \/ faults < MaxFaults /\ faults' = faults + 1 /\ Fail

(* Nothing but the step of Reconcile changes. *)
GoTo(w) ==
  /\ worker' = w
  /\ UNCHANGED << stored, past, cache, objects, seen, queue, bounds >>

Abort ==
  /\ Fail
  /\ UNCHANGED << stored, past, cache, objects, seen, due, bounds >>

(* Mutants of FirstStep: an environment that has the finalizer is          *)
(* provisioned without the status update; or finalized undeleted.          *)
FirstStepUnfenced(cr) ==
  IF ~cr.exists \/ (cr.deleting /\ cr.finalizers = 0) THEN "idle"
  ELSE IF cr.deleting THEN "finalize"
  ELSE IF cr.finalizers = 0 THEN "addFinalizer"
  ELSE "ensure"

FirstStepUnasked(cr) ==
  IF ~cr.exists THEN "idle"
  ELSE IF cr.finalizers > 0 THEN "finalize"
  ELSE "addFinalizer"

(* What Reconcile does first with the environment it has read. *)
FirstStep(cr) ==
  IF ~cr.exists \/ (cr.deleting /\ cr.finalizers = 0) THEN "idle"
  ELSE IF cr.deleting THEN "finalize"
  ELSE IF cr.finalizers = 0 THEN "addFinalizer"
  ELSE "firstStatus"

(* A worker takes e off the queue; Reconcile reads it from the cache. *)
StartReconcile(e) ==
  /\ worker.pc = "idle"
  /\ e \in due
  /\ due' = due \ {e}
  /\ LET step == FirstStep(cache[e].cr)
     IN worker' = IF step = "idle" THEN Idle
                  ELSE [pc |-> step, env |-> e, cr |-> cache[e].cr,
                        fresh |-> cache[e].fresh,
                        todo |-> IF step = "finalize" THEN Finalized ELSE Kinds]
  /\ UNCHANGED << stored, past, cache, objects, seen, timers, bounds >>

-----------------------------------------------------------------------------
(* Reconcile: the finalizer and the status of the environment. *)

(* The update of copy with one more finalizer is accepted. *)
AppendFinalizer(cr) ==
  LET new == [cr EXCEPT !.finalizers = @ + 1]
  IN /\ Store(worker.env, new)
     /\ Answered([worker EXCEPT !.pc = "firstStatus", !.cr = new,
                                !.fresh = TRUE])
     /\ UNCHANGED << objects, seen, due, edits, tampers >>

(* A conflict gets a second try, with what is then in the cache.           *)
AddFinalizer ==
  /\ worker.pc = "addFinalizer"
  /\ LET answer == UpdateAnswer(worker.env, worker.cr, worker.fresh)
     IN \/ answer = "OK" /\ AppendFinalizer(worker.cr)
        \/ answer = "Conflict" /\ GoTo([worker EXCEPT !.pc = "refetch"])
        \/ answer \in {"NotFound", "Invalid"} /\ Abort

(* Mutant of RefetchFinalizer: the first copy is sent again, with the      *)
(* resourceVersion of the second.                                          *)
RefetchVersionOnly ==
  /\ worker.pc = "refetch"
  /\ LET copy == cache[worker.env]
         accepted == /\ copy.cr.exists
                     /\ UpdateAnswer(worker.env, copy.cr, copy.fresh) = "OK"
     IN \/ accepted /\ AppendFinalizer([copy.cr EXCEPT !.spec = worker.cr.spec])
        \/ ~accepted /\ Abort

(* After a conflict the environment is read again, from the cache, and the *)
(* finalizer appended whatever the new copy says.                          *)
RefetchFinalizer ==
  /\ worker.pc = "refetch"
  /\ LET copy == cache[worker.env]
         accepted == /\ copy.cr.exists
                     /\ UpdateAnswer(worker.env, copy.cr, copy.fresh) = "OK"
     IN \/ accepted /\ AppendFinalizer(copy.cr)
        \/ ~accepted /\ Abort

(* updateStatus, before and after provisioning.  LastUpdated has a         *)
(* resolution of one second: a second write within it changes nothing.     *)
UpdateStatus ==
  /\ worker.pc \in {"firstStatus", "lastStatus"}
  /\ LET new == [worker.cr EXCEPT !.phase = "Ready"]
     IN \/ /\ StatusAnswer(worker.env, worker.fresh) = "OK"
           /\ \/ Store(worker.env, new)
              \/ worker.cr = new /\ UNCHANGED << stored, past, cache >>
           /\ IF worker.pc = "firstStatus"
              THEN Answered([worker EXCEPT !.pc = "ensure", !.cr = new,
                                           !.fresh = TRUE])
              ELSE /\ Fail         \* no error, but back in ten minutes
                   /\ UNCHANGED faults
           /\ UNCHANGED << objects, seen, due, edits, tampers >>
        \/ StatusAnswer(worker.env, worker.fresh) # "OK" /\ Abort

-----------------------------------------------------------------------------
(* Reconcile: provisioning. *)

(* setupDatabase indexes the empty list of ports of an unknown database:   *)
(* controller-runtime turns the panic into an error.                       *)
PanicsAt(k) == k = "DbService" /\ worker.cr.spec \in NoDatabase

Provisioning(k) ==
  /\ worker.pc = "ensure"
  /\ IsNext(ProvisionOrder, worker.todo, k)

Wanted(k) == [state |-> "live", content |-> Render(k, worker.cr.spec)]

Provisioned(k) ==
  [worker EXCEPT !.todo = @ \ {k},
                 !.pc = IF worker.todo = {k} THEN "lastStatus" ELSE "ensure"]

WriteObject(k) ==
  /\ StoreObject(Obj(k, worker.env), Wanted(k))
  /\ Answered(Provisioned(k))
  /\ UNCHANGED << stored, past, cache, due, edits, tampers >>

(* Get the object, create it if the cache has none; if the cache has one,  *)
(* the ConfigMap is updated, the other kinds are left as they are.         *)
EnsureByGet(k) ==
  LET o == Obj(k, worker.env)
  IN /\ Provisioning(k)
     /\ k \in ByGetThenCreate \cup ByGetThenWrite
     /\ \/ ~CachedPresent(o) /\ ~Present(o) /\ WriteObject(k)
        \/ ~CachedPresent(o) /\ Present(o) /\ Abort       \* AlreadyExists
        \/ CachedPresent(o) /\ k \in ByGetThenCreate /\ GoTo(Provisioned(k))
        \/ /\ CachedPresent(o) /\ k \in ByGetThenWrite
           /\ IF seen[o] = "current" THEN WriteObject(k)
              ELSE Abort                                  \* Conflict, NotFound

(* Create the object; if it exists, update it or leave it. *)
EnsureByCreate(k) ==
  LET o == Obj(k, worker.env)
  IN /\ Provisioning(k) /\ ~PanicsAt(k)
     /\ \/ /\ k \in ByCreateOnly \cup ByCreateThenUpdate
           /\ ~Present(o) /\ WriteObject(k)
        \/ k \in ByCreateOnly /\ Present(o) /\ GoTo(Provisioned(k))
        \/ /\ k \in ByCreateThenUpdate /\ Present(o)
           /\ GoTo([worker EXCEPT !.pc = "update"])

(* Mutants of UpdateExisting: a failure is not returned; what was read is  *)
(* sent back as it was.                                                    *)
UpdateIgnoresErrors(k) ==
  LET o == Obj(k, worker.env)
  IN /\ worker.pc = "update"
     /\ IsNext(ProvisionOrder, worker.todo, k)
     /\ IF Present(o) /\ seen[o] = "current" THEN WriteObject(k)
        ELSE GoTo(Provisioned(k))

UpdateNothing(k) ==
  LET o == Obj(k, worker.env)
  IN /\ worker.pc = "update"
     /\ IsNext(ProvisionOrder, worker.todo, k)
     /\ IF Present(o) THEN GoTo(Provisioned(k)) ELSE Abort

(* The object existed: get it, overwrite its spec and update it. *)
UpdateExisting(k) ==
  LET o == Obj(k, worker.env)
  IN /\ worker.pc = "update"
     /\ IsNext(ProvisionOrder, worker.todo, k)
     /\ IF Present(o) /\ seen[o] = "current" THEN WriteObject(k)
        ELSE Abort                                        \* NotFound, Conflict

DatabasePanic(k) == Provisioning(k) /\ PanicsAt(k) /\ Abort

-----------------------------------------------------------------------------
(* Reconcile: finalization. *)

(* The object of kind k is dealt with. *)
FinalizedSo(k) ==
  [worker EXCEPT !.todo = @ \ {k},
                 !.pc = IF worker.todo = {k} THEN "removeFinalizer"
                        ELSE "finalize"]

(* Mutants of FinalizeObject: the first object, the Namespace, is expected *)
(* to take the others with it; an object that is not found is an error; an *)
(* error is not returned.                                                  *)
FinalizeFirstOnly(k) ==
  LET o == Obj(k, worker.env)
  IN /\ worker.pc = "finalize"
     /\ IsNext(FinalizeOrder, worker.todo, k)
     /\ StoreObject(o, Remains(k, o))
     /\ Answered([FinalizedSo(k) EXCEPT !.pc = "removeFinalizer"])
     /\ UNCHANGED << stored, past, cache, due, edits, tampers >>

FinalizeStrictly(k) ==
  LET o == Obj(k, worker.env)
  IN /\ worker.pc = "finalize"
     /\ IsNext(FinalizeOrder, worker.todo, k)
     /\ \/ /\ Present(o)
           /\ StoreObject(o, Remains(k, o))
           /\ Answered(FinalizedSo(k))
           /\ UNCHANGED << stored, past, cache, due, edits, tampers >>
        \/ ~Present(o) /\ Abort

FinalizeRegardless(k) ==
  LET o == Obj(k, worker.env)
  IN /\ worker.pc = "finalize"
     /\ IsNext(FinalizeOrder, worker.todo, k)
     /\ \/ StoreObject(o, Remains(k, o)) /\ UNCHANGED faults
        \/ /\ faults < MaxFaults /\ faults' = faults + 1
           /\ UNCHANGED << objects, seen >>
     /\ worker' = FinalizedSo(k)
     /\ UNCHANGED << stored, past, cache, queue, edits, tampers >>

FinalizeObject(k) ==
  LET o == Obj(k, worker.env)
  IN /\ worker.pc = "finalize"
     /\ IsNext(FinalizeOrder, worker.todo, k)
     /\ StoreObject(o, Remains(k, o))
     /\ Answered(FinalizedSo(k))
     /\ UNCHANGED << stored, past, cache, due, edits, tampers >>

(* removeString drops every entry of the operator's finalizer. *)
RemoveString(finalizers) == 0

(* Mutant of RemoveFinalizer: a conflict is overridden. *)
RemoveByForce ==
  /\ worker.pc = "removeFinalizer"
  /\ LET left == RemoveString(worker.cr.finalizers)
         answer == UpdateAnswer(worker.env, worker.cr, worker.fresh)
     IN \/ /\ answer \in {"OK", "Conflict"}
           /\ Store(worker.env,
                    IF left = 0 THEN NoCR
                    ELSE [worker.cr EXCEPT !.finalizers = left])
           /\ Answered(Idle)
           /\ UNCHANGED << objects, seen, due, edits, tampers >>
        \/ answer \notin {"OK", "Conflict"} /\ Abort

(* The environment is updated without the finalizer, which was all that    *)
(* kept it.  Nothing is requeued.                                          *)
RemoveFinalizer ==
  /\ worker.pc = "removeFinalizer"
  /\ LET left == RemoveString(worker.cr.finalizers)
         answer == UpdateAnswer(worker.env, worker.cr, worker.fresh)
     IN \/ /\ answer = "OK"
           /\ Store(worker.env,
                    IF left = 0 THEN NoCR
                    ELSE [worker.cr EXCEPT !.finalizers = left])
           /\ Answered(Idle)
           /\ UNCHANGED << objects, seen, due, edits, tampers >>
        \/ answer # "OK" /\ Abort

ReconcileStep ==
  \/ AddFinalizer \/ RefetchFinalizer \/ UpdateStatus
  \/ \E k \in Kinds : EnsureByGet(k) \/ EnsureByCreate(k)
                        \/ UpdateExisting(k) \/ DatabasePanic(k)
  \/ \E k \in Finalized : FinalizeObject(k)
  \/ RemoveFinalizer

(* Any API call of Reconcile may fail without an effect. *)
APIError ==
  /\ worker.pc # "idle"
  /\ faults < MaxFaults /\ faults' = faults + 1
  /\ Fail
  /\ UNCHANGED << stored, past, cache, objects, seen, due, edits, tampers >>

-----------------------------------------------------------------------------
(* Users, informers, timers, other controllers. *)

UserWrites(e, cr) ==
  /\ edits < MaxEdits /\ edits' = edits + 1
  /\ Store(e, cr)
  /\ worker' = [worker EXCEPT !.fresh = @ /\ worker.env # e]
  /\ UNCHANGED << objects, seen, queue, faults, tampers >>

CreateCR(e, s) ==
  /\ ~stored[e].exists
  /\ UserWrites(e, [NoCR EXCEPT !.exists = TRUE, !.spec = s])

EditSpec(e, s) ==
  /\ stored[e].exists /\ stored[e].spec # s
  /\ UserWrites(e, [stored[e] EXCEPT !.spec = s])

(* An environment with a finalizer is only marked. *)
DeleteCR(e) ==
  /\ stored[e].exists /\ ~stored[e].deleting
  /\ UserWrites(e, IF stored[e].finalizers = 0 THEN NoCR
                   ELSE [stored[e] EXCEPT !.deleting = TRUE])

(* Someone else deletes an object of the operator or changes it. *)
Tamper(k, o) ==
  /\ Present(o)
  /\ tampers < MaxTampers /\ tampers' = tampers + 1
  /\ \/ StoreObject(o, Remains(k, o))
     \/ StoreObject(o, [objects[o] EXCEPT !.content = "tampered"])
  /\ UNCHANGED << stored, past, cache, worker, queue, edits, faults >>

(* Nothing uses the object any more: it goes.  A held claim's pod may be   *)
(* evicted; no new pod is scheduled on a claim that is to go.              *)
TerminationCompletes(o) ==
  /\ objects[o].state \in Going
  /\ StoreObject(o, NoResource)
  /\ UNCHANGED << stored, past, cache, worker, queue, bounds >>

(* The watch brings the informer of environments up to date. *)
SyncCR(e) ==
  /\ ~cache[e].fresh
  /\ cache' = [cache EXCEPT ![e] = [cr |-> stored[e], fresh |-> TRUE]]
  /\ due' = due \cup {e}
  /\ UNCHANGED << stored, past, objects, seen, worker, timers, bounds >>

(* No request is made for a change of the other objects: the controller    *)
(* only watches environments.                                              *)
SyncObject(o) ==
  /\ o \in Lagging
  /\ seen' = [seen EXCEPT ![o] = "current"]
  /\ UNCHANGED << stored, past, cache, objects, worker, queue, bounds >>

TimerFires(e) ==
  /\ e \in timers
  /\ timers' = timers \ {e} /\ due' = due \cup {e}
  /\ UNCHANGED << stored, past, cache, objects, seen, worker, bounds >>

(* The operator is killed and starts again, or a new leader takes over: it *)
(* lists everything; for those in behind, and for the objects in late, the *)
(* list is an older one.                                                   *)
Restart ==
  /\ faults < MaxFaults /\ faults' = faults + 1
  /\ worker' = Idle
  /\ timers' = {}
  /\ \E late \in SUBSET (IF ListMayLag THEN Lagging ELSE {}) :
       seen' = [o \in Objects |-> IF o \in late THEN seen[o] ELSE "current"]
  /\ \E behind \in SUBSET (IF ListMayLag THEN Envs ELSE {}) :
       cache' = [e \in Envs |-> IF e \in behind
                                THEN [cr |-> past[e], fresh |-> FALSE]
                                ELSE [cr |-> stored[e], fresh |-> TRUE]]
  /\ due' = { e \in Envs : cache'[e].cr.exists }
  /\ UNCHANGED << stored, past, objects, edits, tampers >>

Environment ==
  \/ \E e \in Envs : \/ \E s \in Specs : CreateCR(e, s) \/ EditSpec(e, s)
                     \/ DeleteCR(e) \/ SyncCR(e) \/ TimerFires(e)
  \/ \E k \in Kinds : \E e \in Envs : Tamper(k, Obj(k, e))
  \/ \E o \in Objects : TerminationCompletes(o) \/ SyncObject(o)
  \/ Restart

Next ==
  \/ \E e \in Envs : StartReconcile(e)
  \/ ReconcileStep
  \/ APIError
  \/ Environment

Spec == Init /\ [][Next]_vars

(* The worker goes on with its request; the queue is first in, first out,  *)
(* so that no request is passed over for ever; watches deliver, timers     *)
(* fire, and what is terminating goes, unless a running pod keeps it.      *)
Fairness ==
  /\ WF_vars(ReconcileStep)
  /\ \A e \in Envs : SF_vars(StartReconcile(e))
  /\ \A e \in Envs : WF_vars(SyncCR(e)) /\ WF_vars(TimerFires(e))
  /\ \A o \in Objects : /\ WF_vars(SyncObject(o))
                        /\ WF_vars(TerminationCompletes(o) /\ ~HeldBack(o))

FairSpec == Spec /\ Fairness

-----------------------------------------------------------------------------
(* What the operator promises. *)

Live(e) == stored[e].exists /\ ~stored[e].deleting

(* An environment that exists and cannot go without the operator. *)
Held(e) == stored[e].exists /\ stored[e].finalizers > 0

(* The finalizer is there to clean up: whatever conflicts, lost answers,   *)
(* stale lists and restarts come between, an object that finalization      *)
(* deletes is never left behind by the last environment that would have    *)
(* deleted it.                                                             *)
NoOrphans ==
  \A k \in Finalized : \A e \in Envs :
    objects[Obj(k, e)].state = "live" => \E f \in Sharers(k, e) : Held(f)

(* Every write of the operator to an environment carries the whole of a    *)
(* copy it read earlier.  None undoes what the user wrote in the meantime: *)
(* neither a new spec nor a deletion.                                      *)
KeepsEdits ==
  edits' = edits =>
    \A e \in Envs : stored[e].exists /\ stored'[e].exists =>
      /\ stored'[e].spec = stored[e].spec
      /\ stored'[e].deleting = stored[e].deleting

NoLostEdit == [][KeepsEdits]_vars

(* An environment goes by the user's delete, or by the operator's update   *)
(* once the user has asked for it.                                         *)
RemovesDeleted ==
  edits' = edits =>
    \A e \in Envs : stored[e].exists /\ ~stored'[e].exists =>
      stored[e].deleting

GoesWhenAsked == [][RemovesDeleted]_vars

(* The operator deletes the objects of an environment, and above all the   *)
(* workspace volume, only when the user has deleted the environment.  Not  *)
(* so for Namespace and Issuer objects that another environment shares,    *)
(* nor after a list that lags.                                             *)
NeverDeletesFromLive ==
  [][ tampers' = tampers =>
        \A k \in Kinds : \A e \in Envs :
          /\ Sharers(k, e) = {e}
          /\ objects[Obj(k, e)].state = "live"
          /\ objects'[Obj(k, e)].state # "live"
          => stored[e].deleting ]_vars

(* Objects that are as the environment's spec s wants them. *)
AsSpecified(k, e, s) ==
  /\ objects[Obj(k, e)].state = "live"
  /\ k \in Rewritten => objects[Obj(k, e)].content = Render(k, s)

(* When Reconcile comes to the status update that ends it, all it wrote is *)
(* from one and the same copy of the environment, if nobody else touches   *)
(* the objects: an edit in between is left to the next call as a whole.    *)
(* Kinds that it skips on a look into the cache, and a claim that is being *)
(* deleted, are not promised.                                              *)
WritesOneSnapshot ==
  worker.pc = "lastStatus" /\ tampers = 0 =>
    \A k \in Kinds \ (ByGetThenCreate \cup Lingering) :
      AsSpecified(k, worker.env, worker.cr.spec)

(* A deletion that the user has asked for comes to its end.                *)
DeletionCompletes ==
  \A e \in Envs : stored[e].deleting ~> ~stored[e].deleting

(* Once users, faults and other controllers are quiet, every environment   *)
(* that is not being deleted has all its objects, those the operator       *)
(* updates with the contents of the last spec, for good: no edit, deleted  *)
(* object or deleted shared Issuer is missed although only environments    *)
(* are watched.  The one exception is a claim that was deleted while the   *)
(* environment's pod was running and that the pod still holds.             *)
Converges ==
  \A e \in Envs :
    <>[](Live(e) => \A k \in Kinds : \/ AsSpecified(k, e, stored[e].spec)
                                    \/ HeldBack(Obj(k, e)))

(* Together with the finalizer's way from the first update to the last:    *)
(* environments own the objects that finalization deletes.                 *)
Stage(cr) ==
  IF ~cr.exists THEN "absent"
  ELSE IF cr.finalizers = 0 THEN "present"
  ELSE IF cr.deleting THEN "leaving"
  ELSE "holding"

OwnedThings == { Obj(k, e) : k \in Finalized, e \in Envs }

Ownership ==
  INSTANCE OwnedObjects WITH
    Owners <- Envs,
    Owned <- [o \in OwnedThings |-> o[2]],
    owner <- [e \in Envs |-> Stage(stored[e])],
    live <- { o \in OwnedThings : objects[o].state = "live" }

OwnershipSpec == Ownership!Spec

-----------------------------------------------------------------------------
(* What the code's documentation says and the code does not do. *)

(* Resources are synchronized until the desired state is reached: the      *)
(* password secret, too, follows the spec.                                 *)
SecretFollowsSpec ==
  \A e \in Envs :
    <>[](Live(e) => objects[Obj("VscodeSecret", e)].content = stored[e].spec)

(* The database section is optional: an environment without one is         *)
(* provisioned.                                                            *)
DatabaseIsOptional ==
  \A e \in Envs :
    <>[](Live(e) => \A k \in Kinds \ {"DbPVC", "DbDeployment", "DbService"} :
                      objects[Obj(k, e)].state = "live")

-----------------------------------------------------------------------------
(* Why NoOrphans holds. *)

(* A copy that the API server accepts in an update is the stored one. *)
FreshCopies ==
  /\ \A e \in Envs : cache[e].fresh => cache[e].cr = stored[e]
  /\ worker.pc # "idle" /\ worker.fresh => worker.cr = stored[worker.env]

(* What Reconcile works on existed when it was read, and what it finalizes *)
(* was being deleted.                                                      *)
ReadsExisting ==
  /\ worker.pc # "idle" => worker.cr.exists
  /\ worker.pc \in {"finalize", "removeFinalizer"} => worker.cr.deleting

(* While Reconcile provisions, the finalizer is in the API server's copy:  *)
(* the status update before it is accepted only with a current copy.       *)
ProvisionsHeld ==
  /\ worker.pc \in {"firstStatus", "ensure", "update", "lastStatus"} =>
       worker.cr.finalizers > 0
  /\ worker.pc \in {"ensure", "update", "lastStatus"} => Held(worker.env)

(* While Reconcile finalizes, what it has deleted stays deleted. *)
DeletedStaysDeleted ==
  worker.pc \in {"finalize", "removeFinalizer"} =>
    /\ worker.pc = "removeFinalizer" => worker.todo = {}
    /\ \A k \in Finalized \ worker.todo :
         objects[Obj(k, worker.env)].state # "live"

NoOrphansInv ==
  /\ TypeOK
  /\ FreshCopies
  /\ ReadsExisting
  /\ ProvisionsHeld
  /\ DeletedStaysDeleted
  /\ NoOrphans
=============================================================================

------------------------- MODULE DevEnvObjectsProofs -------------------------
(***************************************************************************)
(* What one call of Reconcile makes of the objects, for every set of       *)
(* environments, specs and kinds: it provisions from one copy of the       *)
(* environment, and it deletes only for a deletion that is still asked     *)
(* for.                                                                    *)
(***************************************************************************)
EXTENDS DevEnvOperatorProofs

-----------------------------------------------------------------------------
(* Kinds that Reconcile brings to what the spec wants, and that go at once *)
(* when they are deleted.                                                  *)
Settling == Kinds \ (ByGetThenCreate \cup Lingering)

(* Only what lingers is ever seen terminating. *)
NeverTerminating ==
  \A k \in Kinds \ Lingering : \A e \in Envs :
    objects[Obj(k, e)].state \notin Going

(* Provisioning starts with all kinds to do and ends with none; what is    *)
(* done is, and stays, as the spec of the copy that the call works with    *)
(* wants it.                                                               *)
DoneAsSpecified ==
  /\ worker.pc \in {"addFinalizer", "refetch", "firstStatus"} =>
       worker.todo = Kinds
  /\ worker.pc = "lastStatus" => worker.todo = {}
  /\ worker.pc \in {"ensure", "update", "lastStatus"} /\ tampers = 0 =>
       \A k \in Settling \ worker.todo :
         AsSpecified(k, worker.env, worker.cr.spec)

SnapshotInv == TypeOK /\ NeverTerminating /\ DoneAsSpecified

(* A copy in which an environment that is held is being deleted is right   *)
(* about that: the finalizer of a new environment of the same name is only *)
(* accepted with a copy of that environment, which is then in the cache.   *)
CacheAsked ==
  \A e \in Envs : cache[e].cr.deleting /\ Held(e) => stored[e].deleting

WorkerAsked ==
  worker.pc # "idle" /\ worker.cr.deleting /\ Held(worker.env) =>
    stored[worker.env].deleting

FirstTryCached ==
  worker.pc = "addFinalizer" /\ worker.fresh => cache[worker.env].fresh

DeletionsAsked == CacheAsked /\ WorkerAsked /\ FirstTryCached

-----------------------------------------------------------------------------
(* One copy.  What a write leaves of the objects.                          *)

LEMMA StoredObject ==
  ASSUME TypeOK, NEW o \in Objects, NEW r, StoreObject(o, r)
  PROVE  objects' = [objects EXCEPT ![o] = r]
BY DEF TypeOK, StoreObject

LEMMA WrittenObject ==
  ASSUME TypeOK, NEW k \in Kinds, worker.pc # "idle", WriteObject(k)
  PROVE  /\ objects' = [objects EXCEPT ![Obj(k, worker.env)] = Wanted(k)]
         /\ Wanted(k).state = "live"
<1>1. Obj(k, worker.env) \in Objects
  BY ObjType DEF TypeOK
<1>2. QED
  BY <1>1, StoredObject DEF WriteObject, Wanted

(* A delete, by Reconcile or by others, leaves what does not linger absent. *)
LEMMA RemainsSettled ==
  ASSUME NEW k \in Kinds \ Lingering, NEW o
  PROVE  Remains(k, o).state \notin Going
BY DEF Remains, NoResource, Going

(* Another kind is another object. *)
LEMMA OtherKind ==
  ASSUME TypeOK, NEW k \in Kinds, NEW l \in Kinds, NEW e \in Envs, k # l, NEW r,
         objects' = [objects EXCEPT ![Obj(k, e)] = r]
  PROVE  objects'[Obj(l, e)] = objects[Obj(l, e)]
<1>1. Obj(l, e) \in Objects /\ Obj(l, e) # Obj(k, e)
  BY ObjType, ObjInjective
<1>2. QED
  BY <1>1 DEF TypeOK

(* One object is written as something that is not terminating. *)
LEMMA WriteTerminatesNothing ==
  ASSUME TypeOK, NeverTerminating, NEW k \in Kinds, NEW e \in Envs, NEW r,
         objects' = [objects EXCEPT ![Obj(k, e)] = r],
         k \notin Lingering => r.state \notin Going
  PROVE  NeverTerminating'
<1> SUFFICES ASSUME NEW l \in Kinds \ Lingering, NEW f \in Envs
             PROVE  objects'[Obj(l, f)].state \notin Going
  BY DEF NeverTerminating
<1>1. Obj(l, f) \in Objects
  BY ObjType
<1>2. CASE Obj(l, f) = Obj(k, e)
  <2>1. l = k
    BY <1>2, ObjInjective
  <2>2. QED
    BY <1>1, <1>2, <2>1 DEF TypeOK
<1>3. CASE Obj(l, f) # Obj(k, e)
  BY <1>1, <1>3 DEF TypeOK, NeverTerminating
<1>4. QED
  BY <1>2, <1>3

LEMMA NextTerminatesNothing ==
  TypeOK /\ NeverTerminating /\ [Next]_vars => NeverTerminating'
<1> SUFFICES ASSUME TypeOK, NeverTerminating, [Next]_vars
             PROVE  NeverTerminating'
  OBVIOUS
<1>1. ASSUME objects' = objects
      PROVE  NeverTerminating'
  BY <1>1 DEF NeverTerminating
<1>2. ASSUME NEW k \in Kinds, worker.pc # "idle", WriteObject(k)
      PROVE  NeverTerminating'
  BY <1>2, WrittenObject, WriteTerminatesNothing DEF TypeOK, Going
<1>3. ASSUME NEW k \in Kinds,
             \/ EnsureByGet(k) \/ EnsureByCreate(k)
             \/ UpdateExisting(k) \/ DatabasePanic(k)
      PROVE  NeverTerminating'
  <2>1. worker.pc # "idle" /\ (WriteObject(k) \/ objects' = objects)
    BY <1>3 DEF EnsureByGet, EnsureByCreate, UpdateExisting, DatabasePanic,
                Provisioning, GoTo, Abort
  <2>2. QED
    BY <1>1, <1>2, <2>1
<1>4. ASSUME NEW k \in Finalized, FinalizeObject(k)
      PROVE  NeverTerminating'
  <2>1. /\ k \in Kinds /\ worker.env \in Envs
        /\ StoreObject(Obj(k, worker.env), Remains(k, Obj(k, worker.env)))
    BY <1>4, FinalizedKinds DEF FinalizeObject, TypeOK
  <2>2. objects' = [objects EXCEPT ![Obj(k, worker.env)]
                      = Remains(k, Obj(k, worker.env))]
    BY <2>1, ObjType, StoredObject
  <2>3. QED
    BY <2>1, <2>2, RemainsSettled, WriteTerminatesNothing
<1>5. ASSUME NEW k \in Kinds, NEW e \in Envs, Tamper(k, Obj(k, e))
      PROVE  NeverTerminating'
  <2>1. Obj(k, e) \in Objects /\ objects[Obj(k, e)] \in Resources
    BY ObjType DEF TypeOK
  <2>2. k \notin Lingering =>
          [objects[Obj(k, e)] EXCEPT !.content = "tampered"].state \notin Going
    BY <2>1 DEF NeverTerminating, Resources
  <2>3. CASE StoreObject(Obj(k, e), Remains(k, Obj(k, e)))
    BY <2>1, <2>3, StoredObject, RemainsSettled, WriteTerminatesNothing
  <2>4. CASE StoreObject(Obj(k, e),
                         [objects[Obj(k, e)] EXCEPT !.content = "tampered"])
    <3>1. PICK r : /\ StoreObject(Obj(k, e), r)
                   /\ k \notin Lingering => r.state \notin Going
      BY <2>2, <2>4
    <3>2. objects' = [objects EXCEPT ![Obj(k, e)] = r]
      BY <2>1, <3>1, StoredObject
    <3>3. QED
      BY <3>1, <3>2, WriteTerminatesNothing
  <2>5. QED
    BY <1>5, <2>3, <2>4 DEF Tamper
<1>6. ASSUME NEW o \in Objects, TerminationCompletes(o)
      PROVE  NeverTerminating'
  <2>1. PICK k \in Kinds, e \in Envs : o = Obj(k, e)
    BY DEF Objects
  <2>2. objects' = [objects EXCEPT ![Obj(k, e)] = NoResource]
    BY <1>6, <2>1, StoredObject DEF TerminationCompletes
  <2>3. NoResource.state \notin Going
    BY DEF NoResource, Going
  <2>4. QED
    BY <2>2, <2>3, WriteTerminatesNothing
<1>7. ASSUME ReconcileStep
      PROVE  NeverTerminating'
  <2>1. CASE AddFinalizer \/ RefetchFinalizer \/ UpdateStatus \/ RemoveFinalizer
    BY <1>1, <2>1 DEF AddFinalizer, RefetchFinalizer, UpdateStatus,
                      RemoveFinalizer, AppendFinalizer, GoTo, Abort
  <2>2. QED
    BY <1>3, <1>4, <1>7, <2>1 DEF ReconcileStep
<1>8. ASSUME Environment
      PROVE  NeverTerminating'
  <2>1. CASE objects' = objects
    BY <1>1, <2>1
  <2>2. CASE \/ \E k \in Kinds : \E e \in Envs : Tamper(k, Obj(k, e))
             \/ \E o \in Objects : TerminationCompletes(o)
    BY <1>5, <1>6, <2>2
  <2>3. QED
    BY <1>8, <2>1, <2>2
       DEF Environment, CreateCR, EditSpec, DeleteCR, UserWrites, SyncCR,
           TimerFires, SyncObject, Restart
<1>9. QED
  BY <1>1, <1>7, <1>8 DEF Next, StartReconcile, APIError, vars

-----------------------------------------------------------------------------
(* What is done stays done. *)

LEMMA EndedDone ==
  ASSUME worker'.pc \in {"idle", "finalize", "removeFinalizer"}
  PROVE  DoneAsSpecified'
BY DEF DoneAsSpecified

(* Steps of others than the worker. *)
LEMMA KeptDone ==
  ASSUME TypeOK, DoneAsSpecified, WorkerKept,
         tampers' = 0 =>
           /\ tampers = 0
           /\ \A o \in Objects : objects[o].state = "live" =>
                objects'[o] = objects[o]
  PROVE  DoneAsSpecified'
<1>1. CASE worker'.pc = "idle"
  BY <1>1, EndedDone
<1>2. CASE /\ worker'.pc # "idle" /\ worker'.pc = worker.pc
           /\ worker'.env = worker.env /\ worker'.cr = worker.cr
           /\ worker'.todo = worker.todo
  <2>1. ASSUME worker'.pc \in {"ensure", "update", "lastStatus"}, tampers' = 0,
               NEW k \in Settling \ worker'.todo
        PROVE  AsSpecified(k, worker.env, worker.cr.spec)'
    <3>1. AsSpecified(k, worker.env, worker.cr.spec)
      BY <1>2, <2>1 DEF DoneAsSpecified
    <3>2. Obj(k, worker.env) \in Objects
      BY <1>2, ObjType DEF TypeOK, Settling
    <3>3. objects'[Obj(k, worker.env)] = objects[Obj(k, worker.env)]
      BY <2>1, <3>1, <3>2 DEF AsSpecified
    <3>4. QED
      BY <1>2, <3>1, <3>3 DEF AsSpecified
  <2>2. /\ worker'.pc \in {"addFinalizer", "refetch", "firstStatus"} =>
             worker'.todo = Kinds
        /\ worker'.pc = "lastStatus" => worker'.todo = {}
    BY <1>2 DEF DoneAsSpecified
  <2>3. QED
    BY <1>2, <2>1, <2>2 DEF DoneAsSpecified
<1>3. QED
  BY <1>1, <1>2 DEF WorkerKept

(* One more kind is as it should be. *)
LEMMA MoreDone ==
  ASSUME TypeOK, DoneAsSpecified, worker.pc \in {"ensure", "update"},
         NEW k \in Kinds, worker' = Provisioned(k), tampers' = tampers,
         \A l \in Kinds : l # k =>
           objects'[Obj(l, worker.env)] = objects[Obj(l, worker.env)],
         k \in Settling /\ tampers = 0 =>
           /\ objects'[Obj(k, worker.env)].state = "live"
           /\ k \in Rewritten =>
                objects'[Obj(k, worker.env)].content = Render(k, worker.cr.spec)
  PROVE  DoneAsSpecified'
<1>1. /\ worker'.env = worker.env /\ worker'.cr = worker.cr
      /\ worker'.todo = worker.todo \ {k}
      /\ worker'.pc \in {"ensure", "lastStatus"}
      /\ worker'.pc = "lastStatus" => worker.todo = {k}
  BY DEF Provisioned, TypeOK, Workers
<1>2. ASSUME tampers' = 0, NEW l \in Settling \ worker'.todo
      PROVE  /\ objects'[Obj(l, worker.env)].state = "live"
             /\ l \in Rewritten =>
                  objects'[Obj(l, worker.env)].content = Render(l, worker.cr.spec)
  <2>1. CASE l = k
    BY <1>2, <2>1
  <2>2. CASE l # k
    <3>1. AsSpecified(l, worker.env, worker.cr.spec)
      BY <1>1, <1>2, <2>2 DEF DoneAsSpecified
    <3>2. objects'[Obj(l, worker.env)] = objects[Obj(l, worker.env)]
      BY <2>2 DEF Settling
    <3>3. QED
      BY <3>1, <3>2 DEF AsSpecified
  <2>3. QED
    BY <2>1, <2>2
<1>3. ASSUME tampers' = 0, NEW l \in Settling \ worker'.todo
      PROVE  AsSpecified(l, worker.env, worker.cr.spec)'
  BY <1>1, <1>2, <1>3 DEF AsSpecified
<1>4. QED
  BY <1>1, <1>3 DEF DoneAsSpecified

LEMMA WriteObjectDone ==
  ASSUME TypeOK, DoneAsSpecified, worker.pc \in {"ensure", "update"},
         NEW k \in Kinds, WriteObject(k)
  PROVE  DoneAsSpecified'
<1>1. /\ objects' = [objects EXCEPT ![Obj(k, worker.env)] = Wanted(k)]
      /\ worker.env \in Envs /\ Obj(k, worker.env) \in Objects
  BY WrittenObject, ObjType DEF TypeOK
<1>2. /\ objects'[Obj(k, worker.env)].state = "live"
      /\ objects'[Obj(k, worker.env)].content = Render(k, worker.cr.spec)
  BY <1>1 DEF TypeOK, Wanted
<1>3. \A l \in Kinds : l # k =>
        objects'[Obj(l, worker.env)] = objects[Obj(l, worker.env)]
  BY <1>1, OtherKind
<1>4. CASE worker' = Provisioned(k)
  BY <1>2, <1>3, <1>4, MoreDone DEF WriteObject
<1>5. CASE Fail
  BY <1>5, FailEnds, EndedDone
<1>6. QED
  BY <1>4, <1>5 DEF WriteObject, Answered

(* A kind that exists and is left as it is. *)
LEMMA SkippedDone ==
  ASSUME TypeOK, NeverTerminating, DoneAsSpecified, worker.pc = "ensure",
         NEW k \in Kinds, GoTo(Provisioned(k)),
         \/ k \in ByGetThenCreate
         \/ k \in ByCreateOnly /\ Present(Obj(k, worker.env))
  PROVE  DoneAsSpecified'
<1>1. /\ worker' = Provisioned(k) /\ objects' = objects /\ tampers' = tampers
      /\ worker.env \in Envs
  BY DEF GoTo, bounds, TypeOK
<1>2. ASSUME k \in Settling
      PROVE  /\ k \notin Rewritten
             /\ objects[Obj(k, worker.env)].state = "live"
  <2>1. k \in ByCreateOnly /\ Present(Obj(k, worker.env)) /\ k \notin Lingering
    BY <1>2 DEF Settling
  <2>2. k \notin Rewritten
    BY <2>1 DEF ByCreateOnly, Rewritten, ByGetThenWrite, ByCreateThenUpdate
  <2>3. objects[Obj(k, worker.env)] \in Resources
    BY <1>1, ObjType DEF TypeOK
  <2>4. objects[Obj(k, worker.env)].state \notin Going
    BY <1>1, <2>1 DEF NeverTerminating
  <2>5. QED
    BY <2>1, <2>2, <2>3, <2>4 DEF Present, Resources
<1>3. QED
  BY <1>1, <1>2, MoreDone

LEMMA ProvisionDone ==
  ASSUME TypeOK, NeverTerminating, DoneAsSpecified, NEW k \in Kinds,
         \/ EnsureByGet(k) \/ EnsureByCreate(k)
         \/ UpdateExisting(k) \/ DatabasePanic(k)
  PROVE  DoneAsSpecified'
<1>1. CASE Abort
  BY <1>1, FailEnds, EndedDone DEF Abort
<1>2. CASE WriteObject(k)
  <2>1. worker.pc \in {"ensure", "update"}
    BY DEF EnsureByGet, EnsureByCreate, UpdateExisting, DatabasePanic,
           Provisioning
  <2>2. QED
    BY <1>2, <2>1, WriteObjectDone
<1>3. CASE /\ worker.pc = "ensure" /\ GoTo(Provisioned(k))
           /\ \/ k \in ByGetThenCreate
              \/ k \in ByCreateOnly /\ Present(Obj(k, worker.env))
  BY <1>3, SkippedDone
<1>4. CASE worker.pc = "ensure" /\ GoTo([worker EXCEPT !.pc = "update"])
  <2>1. /\ worker'.pc = "update" /\ worker'.env = worker.env
        /\ worker'.cr = worker.cr /\ worker'.todo = worker.todo
        /\ objects' = objects /\ tampers' = tampers
    BY <1>4 DEF GoTo, bounds, TypeOK, Workers
  <2>2. QED
    BY <1>4, <2>1 DEF DoneAsSpecified, AsSpecified
<1>5. QED
  BY <1>1, <1>2, <1>3, <1>4
     DEF EnsureByGet, EnsureByCreate, UpdateExisting, DatabasePanic,
         Provisioning

(* The steps before provisioning and after it. *)
LEMMA OutsideDone ==
  ASSUME TypeOK, DoneAsSpecified,
         \/ AddFinalizer \/ RefetchFinalizer \/ UpdateStatus \/ RemoveFinalizer
         \/ \E k \in Finalized : FinalizeObject(k)
  PROVE  DoneAsSpecified'
<1>1. CASE worker'.pc \in {"idle", "finalize", "removeFinalizer"}
  BY <1>1, EndedDone
<1>2. CASE AddFinalizer \/ RefetchFinalizer
  <2>1. worker.todo = Kinds /\ worker \in Workers
    BY <1>2 DEF AddFinalizer, RefetchFinalizer, DoneAsSpecified, TypeOK
  <2>2. CASE Fail
    BY <2>2, FailEnds, EndedDone
  <2>3. CASE ~Fail
    <3>1. \/ worker' = [worker EXCEPT !.pc = "refetch"]
          \/ \E cr : worker' = [worker EXCEPT !.pc = "firstStatus", !.cr = cr,
                                              !.fresh = TRUE]
      BY <1>2, <2>3 DEF AddFinalizer, RefetchFinalizer, AppendFinalizer,
                        Answered, GoTo, Abort
    <3>2. worker'.todo = Kinds /\ worker'.pc \in {"refetch", "firstStatus"}
      BY <2>1, <3>1 DEF Workers
    <3>3. QED
      BY <3>2 DEF DoneAsSpecified
  <2>4. QED
    BY <2>2, <2>3
<1>3. CASE UpdateStatus
  <2>1. CASE Fail
    BY <2>1, FailEnds, EndedDone
  <2>2. CASE ~Fail
    <3>1. /\ worker.pc = "firstStatus"
          /\ \E cr : worker' = [worker EXCEPT !.pc = "ensure", !.cr = cr,
                                              !.fresh = TRUE]
      BY <1>3, <2>2 DEF UpdateStatus, Answered, Abort
    <3>2. worker'.todo = Kinds /\ worker'.pc = "ensure"
      BY <3>1 DEF DoneAsSpecified, TypeOK, Workers
    <3>3. QED
      BY <3>2 DEF DoneAsSpecified, Settling
  <2>3. QED
    BY <2>1, <2>2
<1>4. CASE RemoveFinalizer
  <2>1. worker'.pc = "idle"
    BY <1>4 DEF RemoveFinalizer, Answered, Abort, Fail, Idle
  <2>2. QED
    BY <2>1, EndedDone
<1>5. CASE \E k \in Finalized : FinalizeObject(k)
  <2>1. PICK k \in Finalized : FinalizeObject(k)
    BY <1>5
  <2>2. CASE Fail
    BY <2>2, FailEnds, EndedDone
  <2>3. CASE worker' = FinalizedSo(k)
    <3>1. worker'.pc \in {"finalize", "removeFinalizer"}
      BY <2>3 DEF FinalizedSo, TypeOK, Workers
    <3>2. QED
      BY <3>1, EndedDone
  <2>4. QED
    BY <2>1, <2>2, <2>3 DEF FinalizeObject, Answered
<1>6. QED
  BY <1>2, <1>3, <1>4, <1>5

LEMMA StartDone ==
  ASSUME TypeOK, NEW e \in Envs, StartReconcile(e)
  PROVE  DoneAsSpecified'
<1> DEFINE step == FirstStep(cache[e].cr)
<1>1. step \in {"idle", "finalize", "addFinalizer", "firstStatus"}
  BY DEF FirstStep
<1>2. /\ step = "idle" => worker'.pc = "idle"
      /\ step # "idle" => /\ worker'.pc = step
                          /\ step # "finalize" => worker'.todo = Kinds
  BY DEF StartReconcile, Idle
<1> HIDE DEF step
<1>3. QED
  BY <1>1, <1>2 DEF DoneAsSpecified

LEMMA EnvironmentDone ==
  ASSUME TypeOK, DoneAsSpecified, Environment
  PROVE  DoneAsSpecified'
<1>1. CASE \E e \in Envs :
             (\E s \in Specs : CreateCR(e, s) \/ EditSpec(e, s)) \/ DeleteCR(e)
  <2>1. PICK e \in Envs : \E cr : UserWrites(e, cr)
    BY <1>1 DEF CreateCR, EditSpec, DeleteCR
  <2>2. WorkerKept /\ objects' = objects /\ tampers' = tampers
    BY <2>1 DEF UserWrites, WorkerKept, TypeOK, Workers
  <2>3. QED
    BY <2>2, KeptDone
<1>2. CASE \E k \in Kinds : \E e \in Envs : Tamper(k, Obj(k, e))
  <2>1. tampers' # 0 /\ worker' = worker
    BY <1>2 DEF Tamper, TypeOK
  <2>2. QED
    BY <2>1, KeptDone DEF WorkerKept
<1>3. CASE \E o \in Objects : TerminationCompletes(o)
  <2>1. PICK o \in Objects : TerminationCompletes(o)
    BY <1>3
  <2>2. /\ objects' = [objects EXCEPT ![o] = NoResource]
        /\ objects[o].state # "live" /\ worker' = worker /\ tampers' = tampers
    BY <2>1, StoredObject DEF TerminationCompletes, bounds, Going
  <2>3. \A p \in Objects : objects[p].state = "live" => objects'[p] = objects[p]
    BY <2>2 DEF TypeOK
  <2>4. QED
    BY <2>2, <2>3, KeptDone DEF WorkerKept
<1>4. CASE Restart
  BY <1>4, EndedDone DEF Restart, Idle
<1>5. CASE UNCHANGED << worker, objects, tampers >>
  BY <1>5, KeptDone DEF WorkerKept
<1>6. QED
  BY <1>1, <1>2, <1>3, <1>4, <1>5
     DEF Environment, SyncCR, TimerFires, SyncObject, bounds

LEMMA NextDone ==
  TypeOK /\ NeverTerminating /\ DoneAsSpecified /\ [Next]_vars => DoneAsSpecified'
<1> SUFFICES ASSUME TypeOK, NeverTerminating, DoneAsSpecified, [Next]_vars
             PROVE  DoneAsSpecified'
  OBVIOUS
<1>1. CASE ReconcileStep
  BY <1>1, ProvisionDone, OutsideDone DEF ReconcileStep
<1>2. CASE APIError
  BY <1>2, FailEnds, EndedDone DEF APIError
<1>3. CASE UNCHANGED vars
  BY <1>3, KeptDone DEF vars, WorkerKept
<1>4. QED
  BY <1>1, <1>2, <1>3, StartDone, EnvironmentDone DEF Next

(* The inductive invariant: what a call has provisioned is as the spec of  *)
(* the one copy it works with wants it, from the first kind to the last.   *)
THEOREM SnapshotInvCorrect == Spec => []SnapshotInv
<1>1. Init => NeverTerminating /\ DoneAsSpecified
  <2>1. ASSUME Init PROVE NeverTerminating
    BY <2>1, ObjType DEF Init, NeverTerminating, NoResource, Going
  <2>2. ASSUME Init PROVE DoneAsSpecified
    BY <2>2 DEF Init, DoneAsSpecified, Idle
  <2>3. QED
    BY <2>1, <2>2
<1>2. TypeOK /\ NeverTerminating /\ DoneAsSpecified => SnapshotInv
  BY DEF SnapshotInv
<1>3. QED
  BY <1>1, <1>2, TypeCorrect, NextTerminatesNothing, NextDone, PTL DEF Spec

(* A call that comes to its last status update has written all objects     *)
(* from one and the same copy of the environment, whatever users edited    *)
(* and whatever failed in between.                                         *)
THEOREM WritesOneSnapshotCorrect == Spec => []WritesOneSnapshot
<1>1. SnapshotInv => WritesOneSnapshot
  BY DEF SnapshotInv, DoneAsSpecified, WritesOneSnapshot, Settling
<1>2. QED
  BY <1>1, SnapshotInvCorrect, PTL

-----------------------------------------------------------------------------
(* Deletions.  A copy with a deletion in it is wrong only about another,   *)
(* later environment of the same name, and no such environment is held     *)
(* while a cache that does not lag still shows the earlier one.            *)

(* No environment comes to be held, and no deletion is taken back. *)
AskedStay ==
  \A e \in Envs : Held(e)' => /\ Held(e)
                              /\ stored[e].deleting => stored'[e].deleting

LEMMA StoreAskedStay ==
  ASSUME TypeOK, NEW e \in Envs, NEW cr \in CRs, Store(e, cr),
         cr.exists /\ cr.finalizers > 0 =>
           Held(e) /\ (stored[e].deleting => cr.deleting)
  PROVE  AskedStay
BY DEF TypeOK, Store, AskedStay, Held

LEMMA SameAsked ==
  ASSUME stored' = stored
  PROVE  AskedStay
BY DEF AskedStay, Held

LEMMA KeptAsked ==
  ASSUME TypeOK, CacheAsked, WorkerAsked, AskedStay, WorkerKept,
         \A e \in Envs : cache'[e].cr \in {cache[e].cr, stored'[e]}
  PROVE  CacheAsked' /\ WorkerAsked'
<1>1. CacheAsked'
  BY DEF CacheAsked, AskedStay, Held
<1>2. WorkerAsked'
  <2>1. CASE worker'.pc = "idle"
    BY <2>1 DEF WorkerAsked
  <2>2. CASE /\ worker'.pc # "idle" /\ worker'.pc = worker.pc
             /\ worker'.env = worker.env /\ worker'.cr = worker.cr
    <3>1. worker.env \in Envs
      BY <2>2 DEF TypeOK
    <3>2. QED
      BY <2>2, <3>1 DEF WorkerAsked, AskedStay, Held
  <2>3. QED
    BY <2>1, <2>2 DEF WorkerKept
<1>3. QED
  BY <1>1, <1>2

(* The worker goes on with its copy, or ends, and nothing is stored. *)
LEMMA WorkerGoesOn ==
  ASSUME TypeOK, CacheAsked, WorkerAsked, UNCHANGED << stored, cache >>,
         \/ worker'.pc = "idle"
         \/ worker.pc # "idle" /\ worker'.env = worker.env
            /\ worker'.cr = worker.cr
  PROVE  CacheAsked' /\ WorkerAsked'
BY DEF CacheAsked, WorkerAsked, Held

(* The finalizer is accepted: the copy and the cache are what was stored.  *)
LEMMA AppendFinalizerAsked ==
  ASSUME TypeOK, worker.pc # "idle", NEW cr \in CRs, AppendFinalizer(cr),
         CacheAsked, cache[worker.env].cr = cr
  PROVE  CacheAsked' /\ WorkerAsked'
<1> DEFINE new == [cr EXCEPT !.finalizers = @ + 1]
           w == [worker EXCEPT !.pc = "firstStatus", !.cr = new, !.fresh = TRUE]
<1>1. Store(worker.env, new) /\ Answered(w)
  BY DEF AppendFinalizer
<1>2. new.deleting = cr.deleting
  BY DEF CRs
<1>3. w.cr = new /\ w.env = worker.env /\ worker.env \in Envs
  BY DEF TypeOK, Workers
<1> HIDE DEF new, w
<1>4. stored' = [stored EXCEPT ![worker.env] = new]
  BY <1>1 DEF Store
<1>5. \A e \in Envs : cache'[e].cr = cache[e].cr
  BY <1>1 DEF Store, TypeOK, Copies
<1>6. CacheAsked'
  <2> SUFFICES ASSUME NEW e \in Envs, cache'[e].cr.deleting, Held(e)'
               PROVE  stored'[e].deleting
    BY DEF CacheAsked
  <2>1. CASE e = worker.env
    BY <1>2, <1>4, <1>5, <2>1 DEF TypeOK
  <2>2. CASE e # worker.env
    <3>1. stored'[e] = stored[e]
      BY <1>4, <2>2 DEF TypeOK
    <3>2. QED
      BY <1>5, <3>1 DEF CacheAsked, Held
  <2>3. QED
    BY <2>1, <2>2
<1>7. WorkerAsked'
  <2>1. CASE worker' = w
    BY <1>3, <1>4, <2>1 DEF WorkerAsked, TypeOK
  <2>2. CASE Fail
    BY <2>2, FailEnds DEF WorkerAsked
  <2>3. QED
    BY <1>1, <2>1, <2>2 DEF Answered
<1>8. QED
  BY <1>6, <1>7

LEMMA FinalizerAsked ==
  ASSUME TypeOK, FreshCopies, DeletionsAsked, AddFinalizer \/ RefetchFinalizer
  PROVE  CacheAsked' /\ WorkerAsked'
<1>1. /\ worker.pc # "idle" /\ worker.env \in Envs /\ worker.cr \in CRs
      /\ cache[worker.env].cr \in CRs
  BY DEF AddFinalizer, RefetchFinalizer, TypeOK, Workers, Copies
<1>2. CASE AddFinalizer /\ AppendFinalizer(worker.cr) /\ worker.fresh
  <2>1. cache[worker.env].fresh
    BY <1>2 DEF AddFinalizer, DeletionsAsked, FirstTryCached
  <2>2. cache[worker.env].cr = worker.cr
    BY <1>1, <1>2, <2>1 DEF FreshCopies
  <2>3. QED
    BY <1>1, <1>2, <2>2, AppendFinalizerAsked DEF DeletionsAsked
<1>3. CASE AppendFinalizer(cache[worker.env].cr)
  BY <1>1, <1>3, AppendFinalizerAsked DEF DeletionsAsked
<1>4. CASE GoTo([worker EXCEPT !.pc = "refetch"])
  <2>1. /\ UNCHANGED << stored, cache >> /\ worker'.env = worker.env
        /\ worker'.cr = worker.cr
    BY <1>4 DEF GoTo, TypeOK, Workers
  <2>2. QED
    BY <1>1, <2>1, WorkerGoesOn DEF DeletionsAsked
<1>5. CASE Abort
  BY <1>5, FailEnds, WorkerGoesOn DEF Abort, DeletionsAsked
<1>6. QED
  BY <1>2, <1>3, <1>4, <1>5 DEF AddFinalizer, RefetchFinalizer, UpdateAnswer

LEMMA UpdateStatusAsked ==
  ASSUME TypeOK, FreshCopies, ReadsExisting, CacheAsked, WorkerAsked,
         UpdateStatus
  PROVE  CacheAsked' /\ WorkerAsked'
<1> DEFINE new == [worker.cr EXCEPT !.phase = "Ready"]
           w == [worker EXCEPT !.pc = "ensure", !.cr = new, !.fresh = TRUE]
<1>1. /\ worker.pc # "idle" /\ worker.env \in Envs /\ worker.cr \in CRs
  BY DEF UpdateStatus, TypeOK, Workers
<1>2. /\ new \in CRs /\ new.exists = worker.cr.exists
      /\ new.finalizers = worker.cr.finalizers
      /\ new.deleting = worker.cr.deleting
  BY <1>1 DEF CRs
<1>3. w.env = worker.env /\ w.cr = new
  BY DEF TypeOK, Workers
<1>4. CASE Abort
  BY <1>4, FailEnds, WorkerGoesOn DEF Abort
<1>5. CASE ~Abort
  <2>1. /\ worker.fresh
        /\ \/ Store(worker.env, new)
           \/ worker.cr = new /\ UNCHANGED << stored, past, cache >>
        /\ Answered(w) \/ Fail
    BY <1>5 DEF UpdateStatus, StatusAnswer
  <2>2. worker.cr = stored[worker.env]
    BY <1>1, <2>1 DEF FreshCopies
  <2> HIDE DEF new, w
  <2>3. AskedStay
    <3>1. CASE Store(worker.env, new)
      <4>1. new.exists /\ new.finalizers > 0 =>
              Held(worker.env) /\ (stored[worker.env].deleting => new.deleting)
        BY <1>2, <2>2 DEF Held
      <4>2. QED
        BY <1>1, <1>2, <3>1, <4>1, StoreAskedStay
    <3>2. QED
      BY <2>1, <3>1, SameAsked
  <2>4. \A e \in Envs : cache'[e].cr = cache[e].cr
    BY <2>1 DEF Store, TypeOK, Copies
  <2>5. CacheAsked'
    BY <2>3, <2>4 DEF CacheAsked, AskedStay, Held
  <2>6. WorkerAsked'
    <3>1. CASE worker' = w
      <4>1. stored'[worker.env].deleting = new.deleting
        BY <1>1, <2>1, <2>2 DEF Store, TypeOK
      <4>2. QED
        BY <1>3, <3>1, <4>1 DEF WorkerAsked
    <3>2. CASE Fail
      BY <3>2, FailEnds DEF WorkerAsked
    <3>3. QED
      BY <2>1, <3>1, <3>2 DEF Answered
  <2>7. QED
    BY <2>5, <2>6
<1>6. QED
  BY <1>4, <1>5

LEMMA RemoveFinalizerAsked ==
  ASSUME TypeOK, CacheAsked, WorkerAsked, RemoveFinalizer
  PROVE  CacheAsked' /\ WorkerAsked'
<1>1. worker.env \in Envs /\ worker'.pc = "idle"
  BY DEF RemoveFinalizer, TypeOK, Answered, Abort, Fail, Idle
<1>2. CASE UNCHANGED << stored, cache >>
  BY <1>1, <1>2, WorkerGoesOn
<1>3. CASE Store(worker.env, NoCR)
  <2>1. ~NoCR.exists
    BY DEF NoCR
  <2>2. AskedStay
    BY <1>1, <1>3, <2>1, NoCRType, StoreAskedStay
  <2>3. \A e \in Envs : cache'[e].cr = cache[e].cr
    BY <1>3 DEF Store, TypeOK, Copies
  <2>4. QED
    BY <1>1, <2>2, <2>3, KeptAsked DEF WorkerKept
<1>4. QED
  BY <1>2, <1>3 DEF RemoveFinalizer, RemoveString, Abort

LEMMA ObjectsAsked ==
  ASSUME TypeOK, CacheAsked, WorkerAsked,
         \/ \E k \in Kinds : \/ EnsureByGet(k) \/ EnsureByCreate(k)
                             \/ UpdateExisting(k) \/ DatabasePanic(k)
         \/ \E k \in Finalized : FinalizeObject(k)
  PROVE  CacheAsked' /\ WorkerAsked'
<1>1. worker.pc # "idle"
  BY DEF EnsureByGet, EnsureByCreate, UpdateExisting, DatabasePanic,
         Provisioning, FinalizeObject
<1>2. CASE Abort
  BY <1>2, FailEnds, WorkerGoesOn DEF Abort
<1>3. CASE \E k \in Kinds : WriteObject(k) \/ GoTo(Provisioned(k))
  <2>1. PICK k \in Kinds : WriteObject(k) \/ GoTo(Provisioned(k))
    BY <1>3
  <2>2. /\ UNCHANGED << stored, cache >>
        /\ worker' = Provisioned(k) \/ Fail
    BY <2>1 DEF WriteObject, Answered, GoTo
  <2>3. Provisioned(k).env = worker.env /\ Provisioned(k).cr = worker.cr
    BY DEF Provisioned, TypeOK, Workers
  <2>4. QED
    BY <1>1, <2>2, <2>3, FailEnds, WorkerGoesOn
<1>4. CASE GoTo([worker EXCEPT !.pc = "update"])
  <2>1. /\ UNCHANGED << stored, cache >> /\ worker'.env = worker.env
        /\ worker'.cr = worker.cr
    BY <1>4 DEF GoTo, TypeOK, Workers
  <2>2. QED
    BY <1>1, <2>1, WorkerGoesOn
<1>5. CASE \E k \in Finalized : FinalizeObject(k)
  <2>1. PICK k \in Finalized : FinalizeObject(k)
    BY <1>5
  <2>2. /\ UNCHANGED << stored, cache >>
        /\ worker' = FinalizedSo(k) \/ Fail
    BY <2>1 DEF FinalizeObject, Answered
  <2>3. FinalizedSo(k).env = worker.env /\ FinalizedSo(k).cr = worker.cr
    BY DEF FinalizedSo, TypeOK, Workers
  <2>4. QED
    BY <1>1, <2>2, <2>3, FailEnds, WorkerGoesOn
<1>6. QED
  BY <1>2, <1>3, <1>4, <1>5
     DEF EnsureByGet, EnsureByCreate, UpdateExisting, DatabasePanic

(* What users do: a new environment is not held. *)
LEMMA UserAsked ==
  ASSUME TypeOK, CacheAsked, WorkerAsked, NEW e \in Envs,
         (\E s \in Specs : CreateCR(e, s) \/ EditSpec(e, s)) \/ DeleteCR(e)
  PROVE  CacheAsked' /\ WorkerAsked'
<1>1. stored[e] \in CRs
  BY DEF TypeOK
<1>2. PICK cr \in CRs :
        /\ UserWrites(e, cr)
        /\ cr.exists /\ cr.finalizers > 0 =>
             Held(e) /\ (stored[e].deleting => cr.deleting)
  <2>1. CASE \E s \in Specs : CreateCR(e, s)
    <3>1. PICK s \in Specs : CreateCR(e, s)
      BY <2>1
    <3> DEFINE new == [NoCR EXCEPT !.exists = TRUE, !.spec = s]
    <3>2. new \in CRs /\ new.finalizers = 0
      BY DEF NoCR, CRs
    <3>3. UserWrites(e, new)
      BY <3>1 DEF CreateCR
    <3> HIDE DEF new
    <3>4. QED
      BY <3>2, <3>3
  <2>2. CASE \E s \in Specs : EditSpec(e, s)
    <3>1. PICK s \in Specs : EditSpec(e, s)
      BY <2>2
    <3>2. LET cr == [stored[e] EXCEPT !.spec = s]
          IN  /\ cr \in CRs /\ cr.finalizers = stored[e].finalizers
              /\ cr.deleting = stored[e].deleting
      BY <1>1 DEF CRs
    <3>3. QED
      BY <3>1, <3>2 DEF EditSpec, Held
  <2>3. CASE DeleteCR(e)
    <3>1. LET cr == [stored[e] EXCEPT !.deleting = TRUE]
          IN  /\ cr \in CRs /\ cr.finalizers = stored[e].finalizers
              /\ cr.deleting
      BY <1>1 DEF CRs
    <3>2. ~NoCR.exists
      BY DEF NoCR
    <3>3. QED
      BY <2>3, <3>1, <3>2, NoCRType DEF DeleteCR, Held
  <2>4. QED
    BY <2>1, <2>2, <2>3
<1>3. AskedStay
  BY <1>2, StoreAskedStay DEF UserWrites
<1>4. \A f \in Envs : cache'[f].cr = cache[f].cr
  BY <1>2 DEF UserWrites, Store, TypeOK, Copies
<1>5. WorkerKept
  BY <1>2 DEF UserWrites, WorkerKept, TypeOK, Workers
<1>6. QED
  BY <1>3, <1>4, <1>5, KeptAsked

(* Watches and restarts: without a list that lags, the cache only takes    *)
(* over what is stored.                                                    *)
LEMMA InformerAsked ==
  ASSUME ~ListMayLag, TypeOK, CacheAsked, WorkerAsked,
         (\E e \in Envs : SyncCR(e)) \/ Restart
  PROVE  CacheAsked' /\ WorkerAsked'
<1>1. stored' = stored /\ WorkerKept
  BY DEF SyncCR, Restart, WorkerKept, Idle
<1>2. \A e \in Envs : cache'[e].cr \in {cache[e].cr, stored'[e]}
  <2>1. CASE \E e \in Envs : SyncCR(e)
    BY <2>1 DEF SyncCR, TypeOK
  <2>2. CASE Restart
    BY <2>2 DEF Restart
  <2>3. QED
    BY <2>1, <2>2
<1>3. QED
  BY <1>1, <1>2, SameAsked, KeptAsked

LEMMA NextFirstTry ==
  TypeOK /\ FirstTryCached /\ [Next]_vars => FirstTryCached'
<1> SUFFICES ASSUME TypeOK, FirstTryCached, [Next]_vars
             PROVE  FirstTryCached'
  OBVIOUS
<1>1. CASE \E e \in Envs : StartReconcile(e)
  BY <1>1 DEF StartReconcile, FirstTryCached, Idle
<1>2. CASE ReconcileStep
  <2>1. worker \in Workers
    BY DEF TypeOK
  <2>2. CASE Fail
    BY <2>2, FailEnds DEF FirstTryCached
  <2>3. CASE AddFinalizer \/ RefetchFinalizer \/ UpdateStatus \/ RemoveFinalizer
    <3>1. \/ Fail \/ worker' = Idle
          \/ worker' = [worker EXCEPT !.pc = "refetch"]
          \/ \E cr : worker' = [worker EXCEPT !.pc = "firstStatus", !.cr = cr,
                                              !.fresh = TRUE]
          \/ \E cr : worker' = [worker EXCEPT !.pc = "ensure", !.cr = cr,
                                              !.fresh = TRUE]
      BY <2>3 DEF AddFinalizer, RefetchFinalizer, AppendFinalizer,
                  UpdateStatus, RemoveFinalizer, Answered, GoTo, Abort
    <3>2. worker'.pc # "addFinalizer"
      <4>1. CASE \/ worker' = [worker EXCEPT !.pc = "refetch"]
                 \/ \E cr : worker' = [worker EXCEPT !.pc = "firstStatus",
                                           !.cr = cr, !.fresh = TRUE]
                 \/ \E cr : worker' = [worker EXCEPT !.pc = "ensure",
                                           !.cr = cr, !.fresh = TRUE]
        BY <2>1, <4>1 DEF Workers
      <4>2. CASE Fail \/ worker' = Idle
        BY <4>2, FailEnds DEF Idle
      <4>3. QED
        BY <3>1, <4>1, <4>2
    <3>3. QED
      BY <3>2 DEF FirstTryCached
  <2>4. CASE \E k \in Kinds : \/ EnsureByGet(k) \/ EnsureByCreate(k)
                              \/ UpdateExisting(k) \/ DatabasePanic(k)
    <3>1. PICK k \in Kinds : \/ EnsureByGet(k) \/ EnsureByCreate(k)
                             \/ UpdateExisting(k) \/ DatabasePanic(k)
      BY <2>4
    <3>2. CASE worker' = Provisioned(k)
      BY <2>1, <3>2 DEF Provisioned, Workers, FirstTryCached
    <3>3. CASE worker' = [worker EXCEPT !.pc = "update"]
      BY <2>1, <3>3 DEF Workers, FirstTryCached
    <3>4. QED
      BY <2>2, <3>1, <3>2, <3>3
         DEF EnsureByGet, EnsureByCreate, UpdateExisting, DatabasePanic,
             WriteObject, Answered, GoTo, Abort
  <2>5. CASE \E k \in Finalized : FinalizeObject(k)
    <3>1. PICK k \in Finalized : FinalizeObject(k)
      BY <2>5
    <3>2. CASE worker' = FinalizedSo(k)
      BY <2>1, <3>2 DEF FinalizedSo, Workers, FirstTryCached
    <3>3. QED
      BY <2>2, <3>1, <3>2 DEF FinalizeObject, Answered
  <2>6. QED
    BY <1>2, <2>3, <2>4, <2>5 DEF ReconcileStep
<1>3. CASE APIError \/ Restart
  BY <1>3 DEF APIError, Restart, Fail, Idle, FirstTryCached
<1>4. CASE \E e \in Envs :
             (\E s \in Specs : CreateCR(e, s) \/ EditSpec(e, s)) \/ DeleteCR(e)
  <2>1. PICK e \in Envs : \E cr : UserWrites(e, cr)
    BY <1>4 DEF CreateCR, EditSpec, DeleteCR
  <2>2. /\ worker'.pc = worker.pc /\ worker'.env = worker.env
        /\ worker'.fresh => worker.fresh /\ worker.env # e
    BY <2>1 DEF UserWrites, TypeOK, Workers
  <2>3. \A f \in Envs : f # e => cache'[f] = cache[f]
    BY <2>1 DEF UserWrites, Store, TypeOK
  <2>4. QED
    BY <2>2, <2>3 DEF FirstTryCached, TypeOK
<1>5. CASE \E e \in Envs : SyncCR(e)
  <2>1. PICK e \in Envs : SyncCR(e)
    BY <1>5
  <2>2. worker' = worker /\ \A f \in Envs : cache'[f].fresh \/ cache'[f] = cache[f]
    BY <2>1 DEF SyncCR, TypeOK
  <2>3. QED
    BY <2>2 DEF FirstTryCached, TypeOK
<1>6. CASE UNCHANGED << worker, cache >>
  BY <1>6 DEF FirstTryCached
<1>7. QED
  BY <1>1, <1>2, <1>3, <1>4, <1>5, <1>6
     DEF Next, Environment, TimerFires, Tamper, TerminationCompletes,
         SyncObject, vars

LEMMA NextAsked ==
  ASSUME ~ListMayLag
  PROVE  NoOrphansInv /\ DeletionsAsked /\ [Next]_vars => DeletionsAsked'
<1> SUFFICES ASSUME NoOrphansInv, DeletionsAsked, [Next]_vars
             PROVE  DeletionsAsked'
  OBVIOUS
<1>1. /\ TypeOK /\ FreshCopies /\ ReadsExisting
      /\ CacheAsked /\ WorkerAsked /\ FirstTryCached
  BY DEF NoOrphansInv, DeletionsAsked
<1>2. FirstTryCached'
  BY <1>1, NextFirstTry
<1>3. CacheAsked' /\ WorkerAsked'
  <2>1. CASE \E e \in Envs : StartReconcile(e)
    BY <1>1, <2>1 DEF StartReconcile, CacheAsked, WorkerAsked, Held, Idle
  <2>2. CASE ReconcileStep
    BY <1>1, <2>2, FinalizerAsked, UpdateStatusAsked, RemoveFinalizerAsked,
       ObjectsAsked DEF ReconcileStep
  <2>3. CASE APIError
    BY <1>1, <2>3, FailEnds, WorkerGoesOn DEF APIError
  <2>4. CASE \E e \in Envs :
               (\E s \in Specs : CreateCR(e, s) \/ EditSpec(e, s)) \/ DeleteCR(e)
    BY <1>1, <2>4, UserAsked
  <2>5. CASE (\E e \in Envs : SyncCR(e)) \/ Restart
    BY <1>1, <2>5, InformerAsked
  <2>6. CASE UNCHANGED << stored, cache, worker >>
    BY <1>1, <2>6 DEF CacheAsked, WorkerAsked, Held
  <2>7. QED
    BY <2>1, <2>2, <2>3, <2>4, <2>5, <2>6
       DEF Next, Environment, TimerFires, Tamper, TerminationCompletes,
           SyncObject, vars
<1>4. QED
  BY <1>2, <1>3 DEF DeletionsAsked

(* The step of NeverDeletesFromLive. *)
DeletesAsked ==
  tampers' = tampers =>
    \A k \in Kinds : \A e \in Envs :
      /\ Sharers(k, e) = {e}
      /\ objects[Obj(k, e)].state = "live"
      /\ objects'[Obj(k, e)].state # "live"
      => stored[e].deleting

(* A step after which every live object is live. *)
LiveStay ==
  \A o \in Objects : objects[o].state = "live" => objects'[o].state = "live"

LEMMA LiveStayAsked ==
  ASSUME LiveStay
  PROVE  DeletesAsked
BY ObjType DEF LiveStay, DeletesAsked

(* Finalization deletes an object of an environment that is held, and for  *)
(* a deletion that is in Reconcile's copy.                                 *)
LEMMA FinalizeAsked ==
  ASSUME NoOrphansInv, DeletionsAsked, NEW k \in Finalized, FinalizeObject(k)
  PROVE  DeletesAsked
<1> SUFFICES ASSUME NEW l \in Kinds, NEW e \in Envs, Sharers(l, e) = {e},
                    objects[Obj(l, e)].state = "live",
                    objects'[Obj(l, e)].state # "live"
             PROVE  stored[e].deleting
  BY DEF DeletesAsked
<1>1. /\ TypeOK /\ worker.pc = "finalize" /\ worker.env \in Envs
      /\ k \in Kinds
  BY FinalizedKinds DEF FinalizeObject, NoOrphansInv, TypeOK
<1>2. objects' = [objects EXCEPT ![Obj(k, worker.env)]
                    = Remains(k, Obj(k, worker.env))]
  BY <1>1, ObjType, StoredObject DEF FinalizeObject
<1>3. Obj(l, e) = Obj(k, worker.env)
  BY <1>1, <1>2, ObjType DEF TypeOK
<1>4. l = k /\ worker.env = e
  BY <1>1, <1>3, ObjInjective
<1>5. Held(e)
  BY <1>4 DEF NoOrphansInv, NoOrphans
<1>6. worker.cr.deleting
  BY <1>1 DEF NoOrphansInv, ReadsExisting
<1>7. QED
  BY <1>1, <1>4, <1>5, <1>6 DEF DeletionsAsked, WorkerAsked

LEMMA NextDeletesAsked ==
  NoOrphansInv /\ DeletionsAsked /\ [Next]_vars => [DeletesAsked]_vars
<1> SUFFICES ASSUME NoOrphansInv, DeletionsAsked, Next
             PROVE  DeletesAsked
  OBVIOUS
<1>1. TypeOK
  BY DEF NoOrphansInv
<1>2. ASSUME objects' = objects
      PROVE  DeletesAsked
  BY <1>2, LiveStayAsked DEF LiveStay
<1>3. ASSUME NEW k \in Kinds, worker.pc # "idle", WriteObject(k)
      PROVE  DeletesAsked
  <2>1. LiveStay
    BY <1>1, <1>3, WrittenObject DEF LiveStay, TypeOK
  <2>2. QED
    BY <2>1, LiveStayAsked
<1>4. ASSUME NEW k \in Kinds,
             \/ EnsureByGet(k) \/ EnsureByCreate(k)
             \/ UpdateExisting(k) \/ DatabasePanic(k)
      PROVE  DeletesAsked
  <2>1. worker.pc # "idle" /\ (WriteObject(k) \/ objects' = objects)
    BY <1>4 DEF EnsureByGet, EnsureByCreate, UpdateExisting, DatabasePanic,
                Provisioning, GoTo, Abort
  <2>2. QED
    BY <1>2, <1>3, <2>1
<1>5. CASE ReconcileStep
  <2>1. CASE AddFinalizer \/ RefetchFinalizer \/ UpdateStatus \/ RemoveFinalizer
    BY <1>2, <2>1 DEF AddFinalizer, RefetchFinalizer, UpdateStatus,
                      RemoveFinalizer, AppendFinalizer, GoTo, Abort
  <2>2. QED
    BY <1>4, <1>5, <2>1, FinalizeAsked DEF ReconcileStep
<1>6. CASE \E k \in Kinds : \E e \in Envs : Tamper(k, Obj(k, e))
  BY <1>1, <1>6 DEF Tamper, TypeOK, DeletesAsked
<1>7. CASE \E o \in Objects : TerminationCompletes(o)
  <2>1. PICK o \in Objects : TerminationCompletes(o)
    BY <1>7
  <2>2. objects[o].state # "live" /\ objects' = [objects EXCEPT ![o] = NoResource]
    BY <1>1, <2>1, StoredObject DEF TerminationCompletes, Going
  <2>3. LiveStay
    BY <1>1, <2>2 DEF LiveStay, TypeOK
  <2>4. QED
    BY <2>3, LiveStayAsked
<1>8. CASE Environment
  BY <1>2, <1>6, <1>7, <1>8
     DEF Environment, CreateCR, EditSpec, DeleteCR, UserWrites, SyncCR,
         TimerFires, SyncObject, Restart
<1>9. QED
  BY <1>2, <1>5, <1>8 DEF Next, StartReconcile, APIError

(* If the list of a restarting operator is never an older one, a deletion  *)
(* in a copy of an environment that is held is one that is asked for.      *)
THEOREM DeletionsAskedCorrect ==
  ASSUME ~ListMayLag
  PROVE  Spec => []DeletionsAsked
<1>1. Init => DeletionsAsked
  <2> SUFFICES ASSUME Init PROVE DeletionsAsked
    OBVIOUS
  <2>1. ~NoCR.deleting
    BY DEF NoCR
  <2>2. CacheAsked
    BY <2>1 DEF Init, CacheAsked
  <2>3. WorkerAsked /\ FirstTryCached
    BY DEF Init, Idle, WorkerAsked, FirstTryCached
  <2>4. QED
    BY <2>2, <2>3 DEF DeletionsAsked
<1>2. QED
  BY <1>1, InvCorrect, NextAsked, PTL DEF Spec

(* If the list of a restarting operator is never an older one, finalization *)
(* deletes an environment's own objects only when the user has deleted the  *)
(* environment, whatever conflicts, fails or is created anew under the same *)
(* name.                                                                    *)
THEOREM NeverDeletesFromLiveCorrect ==
  ASSUME ~ListMayLag
  PROVE  Spec => NeverDeletesFromLive
<1>1. NoOrphansInv /\ DeletionsAsked /\ [Next]_vars => [DeletesAsked]_vars
  BY NextDeletesAsked
<1>2. QED
  BY <1>1, InvCorrect, DeletionsAskedCorrect, PTL
     DEF Spec, NeverDeletesFromLive, DeletesAsked
=============================================================================

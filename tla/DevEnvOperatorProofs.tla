------------------------ MODULE DevEnvOperatorProofs -------------------------
(***************************************************************************)
(* Proofs about DevEnvOperator, for every set of environments, kinds,      *)
(* specs and every bound: the type invariant, and that finalization leaves *)
(* no orphan behind.                                                       *)
(***************************************************************************)
EXTENDS DevEnvOperator, TLAPS

-----------------------------------------------------------------------------
(* The names of objects. *)

(* Every environment shares its own objects. *)
LEMMA SharersReflexive ==
  ASSUME NEW k, NEW e \in Envs
  PROVE  e \in Sharers(k, e)
BY DEF Sharers

(* Environments that share an object resolve to the same object. *)
LEMMA SharersSameObject ==
  ASSUME NEW k, NEW e \in Envs, NEW f \in Sharers(k, e)
  PROVE  f \in Envs /\ Obj(k, f) = Obj(k, e)
<1>1. f \in Envs
  BY DEF Sharers
<1>2. Sharers(k, f) = Sharers(k, e)
  BY <1>1 DEF Sharers
<1>3. QED
  BY <1>1, <1>2 DEF Obj

(* An object has one kind and one set of environments. *)
LEMMA ObjInjective ==
  ASSUME NEW k, NEW e \in Envs, NEW l, NEW f \in Envs, Obj(k, e) = Obj(l, f)
  PROVE  k = l /\ f \in Sharers(k, e)
<1>1. k = l /\ Sharers(k, e) = Sharers(l, f)
  BY DEF Obj
<1>2. QED
  BY <1>1, SharersReflexive

LEMMA ObjType ==
  ASSUME NEW k \in Kinds, NEW e \in Envs
  PROVE  Obj(k, e) \in Objects
BY DEF Objects

LEMMA FinalizedKinds == Finalized \subseteq Kinds
BY DEF Finalized

-----------------------------------------------------------------------------
(* The types of the pieces that the actions are made of. *)

LEMMA StoreType ==
  ASSUME TypeOK, NEW e \in Envs, NEW cr \in CRs, Store(e, cr)
  PROVE  /\ stored' \in [Envs -> CRs]
         /\ past' \in [Envs -> CRs]
         /\ cache' \in [Envs -> Copies]
<1>1. stored' \in [Envs -> CRs]
  BY DEF TypeOK, Store
<1>2. past' \in [Envs -> CRs]
  BY DEF TypeOK, Store
<1>3. cache' \in [Envs -> Copies]
  BY DEF TypeOK, Store, Copies
<1>4. QED
  BY <1>1, <1>2, <1>3

LEMMA StoreObjectType ==
  ASSUME TypeOK, NEW o \in Objects, NEW r \in Resources, StoreObject(o, r)
  PROVE  /\ objects' \in [Objects -> Resources]
         /\ seen' \in [Objects -> {"current", "present", "absent"}]
BY DEF TypeOK, StoreObject

LEMMA FailType ==
  ASSUME TypeOK, worker.pc # "idle", Fail
  PROVE  /\ worker' \in Workers
         /\ worker'.pc = "idle"
         /\ timers' \subseteq Envs
<1>1. NoCR \in CRs
  BY DEF NoCR, CRs
<1>2. Idle \in Workers /\ Idle.pc = "idle"
  BY <1>1 DEF Idle, Workers, Steps
<1>3. QED
  BY <1>2 DEF TypeOK, Fail

LEMMA AnsweredType ==
  ASSUME TypeOK, worker.pc # "idle",
         NEW w \in Workers, w.pc # "idle" => w.env \in Envs, Answered(w)
  PROVE  /\ worker' \in Workers
         /\ worker'.pc # "idle" => worker'.env \in Envs
         /\ timers' \subseteq Envs
         /\ faults' \in Nat
<1>1. CASE worker' = w /\ UNCHANGED << timers, faults >>
  BY <1>1 DEF TypeOK
<1>2. CASE faults' = faults + 1 /\ Fail
  BY <1>2, FailType DEF TypeOK
<1>3. QED
  BY <1>1, <1>2 DEF Answered

LEMMA AbortType ==
  ASSUME TypeOK, worker.pc # "idle", Abort
  PROVE  TypeOK'
BY FailType DEF Abort, TypeOK, bounds

LEMMA GoToType ==
  ASSUME TypeOK, NEW w \in Workers, w.pc # "idle" => w.env \in Envs, GoTo(w)
  PROVE  TypeOK'
BY DEF GoTo, TypeOK, queue, bounds

(* An object is written and the call goes on. *)
LEMMA WriteType ==
  ASSUME TypeOK, worker.pc # "idle", NEW o \in Objects, NEW r \in Resources,
         NEW w \in Workers, w.pc # "idle" => w.env \in Envs,
         StoreObject(o, r), Answered(w),
         UNCHANGED << stored, past, cache, due, edits, tampers >>
  PROVE  TypeOK'
BY StoreObjectType, AnsweredType DEF TypeOK

(* An environment is written by Reconcile. *)
LEMMA StoreStepType ==
  ASSUME TypeOK, worker.pc # "idle", NEW cr \in CRs,
         NEW w \in Workers, w.pc # "idle" => w.env \in Envs,
         Store(worker.env, cr), Answered(w),
         UNCHANGED << objects, seen, due, edits, tampers >>
  PROVE  TypeOK'
<1>1. worker.env \in Envs
  BY DEF TypeOK
<1>2. QED
  BY <1>1, StoreType, AnsweredType DEF TypeOK

-----------------------------------------------------------------------------
(* Type correctness. *)

LEMMA NoCRType == NoCR \in CRs
BY DEF NoCR, CRs

LEMMA RemainsType ==
  ASSUME TypeOK, NEW k, NEW o \in Objects
  PROVE  Remains(k, o) \in Resources
<1> DEFINE next == IF objects[o].state # "live" THEN objects[o].state
                   ELSE IF InUse(o) THEN "held" ELSE "terminating"
<1>1. objects[o] \in Resources
  BY DEF TypeOK
<1>2. next \in {"absent", "live"} \cup Going
  BY <1>1 DEF Resources, Going
<1>3. /\ Remains(k, o) \in {[objects[o] EXCEPT !.state = next], NoResource}
      /\ NoResource \in Resources
  BY DEF Remains, Resources, NoResource, Contents
<1> HIDE DEF next
<1>4. QED
  BY <1>1, <1>2, <1>3 DEF Resources

LEMMA RenderType ==
  ASSUME NEW k, NEW s \in Specs \cup {None}
  PROVE  Render(k, s) \in Contents
BY DEF Render, Contents

LEMMA InitType == Init => TypeOK
<1>1. Idle \in Workers /\ Idle.pc = "idle"
  BY NoCRType DEF Idle, Workers, Steps
<1>2. NoResource \in Resources
  BY DEF NoResource, Resources, Contents
<1>3. QED
  BY <1>1, <1>2, NoCRType DEF Init, TypeOK, Copies

(* The steps of Reconcile that write an environment. *)
LEMMA AppendFinalizerType ==
  ASSUME TypeOK, worker.pc # "idle", NEW cr \in CRs, AppendFinalizer(cr)
  PROVE  TypeOK'
<1> DEFINE new == [cr EXCEPT !.finalizers = @ + 1]
           w == [worker EXCEPT !.pc = "firstStatus", !.cr = new, !.fresh = TRUE]
<1>1. new \in CRs
  <2>1. cr.finalizers \in Nat
    BY DEF CRs
  <2> DEFINE n == cr.finalizers + 1
  <2>2. n \in Nat
    BY <2>1
  <2> HIDE DEF n
  <2>3. [cr EXCEPT !.finalizers = n] \in CRs
    BY <2>2 DEF CRs
  <2>4. QED
    BY <2>3 DEF n
<1>2. w \in Workers /\ w.env \in Envs
  BY <1>1 DEF TypeOK, Workers, Steps
<1>3. Store(worker.env, new) /\ Answered(w)
      /\ UNCHANGED << objects, seen, due, edits, tampers >>
  BY DEF AppendFinalizer
<1> HIDE DEF new, w
<1>4. QED
  BY <1>1, <1>2, <1>3, StoreStepType

LEMMA FinalizerType ==
  ASSUME TypeOK, AddFinalizer \/ RefetchFinalizer
  PROVE  TypeOK'
<1>1. worker.cr \in CRs /\ worker.pc # "idle" /\ worker.env \in Envs
  BY DEF AddFinalizer, RefetchFinalizer, TypeOK, Workers
<1>2. cache[worker.env].cr \in CRs
  BY <1>1 DEF TypeOK, Copies
<1>3. [worker EXCEPT !.pc = "refetch"] \in Workers
      /\ [worker EXCEPT !.pc = "refetch"].env = worker.env
  BY DEF TypeOK, Workers, Steps
<1>4. CASE AppendFinalizer(worker.cr) \/ AppendFinalizer(cache[worker.env].cr)
  BY <1>1, <1>2, <1>4, AppendFinalizerType
<1>5. CASE GoTo([worker EXCEPT !.pc = "refetch"])
  BY <1>1, <1>3, <1>5, GoToType
<1>6. CASE Abort
  BY <1>1, <1>6, AbortType
<1>7. QED
  BY <1>4, <1>5, <1>6 DEF AddFinalizer, RefetchFinalizer

LEMMA UpdateStatusType ==
  ASSUME TypeOK, UpdateStatus
  PROVE  TypeOK'
<1> DEFINE new == [worker.cr EXCEPT !.phase = "Ready"]
           w == [worker EXCEPT !.pc = "ensure", !.cr = new, !.fresh = TRUE]
<1>1. worker.pc # "idle" /\ worker.env \in Envs /\ new \in CRs
  BY DEF UpdateStatus, TypeOK, Workers, CRs
<1>2. w \in Workers /\ w.env \in Envs
  BY <1>1 DEF TypeOK, Workers, Steps
<1>3. CASE Abort
  BY <1>1, <1>3, AbortType
<1>4. CASE ~Abort
  <2>1. /\ \/ Store(worker.env, new)
           \/ UNCHANGED << stored, past, cache >>
        /\ Answered(w) \/ (Fail /\ UNCHANGED faults)
        /\ UNCHANGED << objects, seen, due, edits, tampers >>
    BY <1>4 DEF UpdateStatus
  <2> HIDE DEF new, w
  <2>2. /\ stored' \in [Envs -> CRs]
        /\ past' \in [Envs -> CRs]
        /\ cache' \in [Envs -> Copies]
    BY <1>1, <2>1, StoreType DEF TypeOK
  <2>3. /\ worker' \in Workers
        /\ worker'.pc # "idle" => worker'.env \in Envs
        /\ timers' \subseteq Envs
        /\ faults' \in Nat
    BY <1>1, <1>2, <2>1, AnsweredType, FailType DEF TypeOK
  <2>4. QED
    BY <2>1, <2>2, <2>3 DEF TypeOK
<1>5. QED
  BY <1>3, <1>4

LEMMA RemoveFinalizerType ==
  ASSUME TypeOK, RemoveFinalizer
  PROVE  TypeOK'
<1> DEFINE left == RemoveString(worker.cr.finalizers)
           new == IF left = 0 THEN NoCR
                  ELSE [worker.cr EXCEPT !.finalizers = left]
<1>1. worker.pc # "idle" /\ new \in CRs
  BY NoCRType DEF RemoveFinalizer, RemoveString
<1>2. Idle \in Workers /\ Idle.pc = "idle"
  BY NoCRType DEF Idle, Workers, Steps
<1>3. CASE Abort
  BY <1>1, <1>3, AbortType
<1>4. CASE /\ Store(worker.env, new) /\ Answered(Idle)
           /\ UNCHANGED << objects, seen, due, edits, tampers >>
  <2> HIDE DEF new
  <2> QED
    BY <1>1, <1>2, <1>4, StoreStepType
<1>5. QED
  BY <1>3, <1>4 DEF RemoveFinalizer

(* The steps that write or delete the objects of an environment. *)
LEMMA WriteObjectType ==
  ASSUME TypeOK, worker.pc # "idle", NEW k \in Kinds,
         WriteObject(k) \/ GoTo(Provisioned(k)) \/ Abort
  PROVE  TypeOK'
<1>1. worker.env \in Envs /\ worker.cr.spec \in Specs \cup {None}
  BY DEF TypeOK, Workers, CRs
<1>2. Provisioned(k) \in Workers /\ Provisioned(k).env \in Envs
  BY <1>1 DEF Provisioned, TypeOK, Workers, Steps
<1>3. Wanted(k) \in Resources
  BY <1>1, RenderType DEF Wanted, Resources
<1>4. CASE WriteObject(k)
  <2>1. /\ StoreObject(Obj(k, worker.env), Wanted(k))
        /\ Answered(Provisioned(k))
        /\ UNCHANGED << stored, past, cache, due, edits, tampers >>
    BY <1>4 DEF WriteObject
  <2>2. QED
    BY <1>1, <1>2, <1>3, <2>1, ObjType, WriteType
<1>5. CASE GoTo(Provisioned(k))
  BY <1>2, <1>5, GoToType
<1>6. CASE Abort
  BY <1>6, AbortType
<1>7. QED
  BY <1>4, <1>5, <1>6

LEMMA ProvisionType ==
  ASSUME TypeOK, NEW k \in Kinds,
         \/ EnsureByGet(k) \/ EnsureByCreate(k)
         \/ UpdateExisting(k) \/ DatabasePanic(k)
  PROVE  TypeOK'
<1> DEFINE w == [worker EXCEPT !.pc = "update"]
<1>1. worker.pc # "idle"
  BY DEF EnsureByGet, EnsureByCreate, UpdateExisting, DatabasePanic,
         Provisioning
<1>2. w \in Workers /\ (w.pc # "idle" => w.env \in Envs)
  BY <1>1 DEF TypeOK, Workers, Steps
<1>3. WriteObject(k) \/ GoTo(Provisioned(k)) \/ Abort \/ GoTo(w)
  BY DEF EnsureByGet, EnsureByCreate, UpdateExisting, DatabasePanic
<1> HIDE DEF w
<1>4. QED
  BY <1>1, <1>2, <1>3, WriteObjectType, GoToType

LEMMA FinalizeObjectType ==
  ASSUME TypeOK, NEW k \in Finalized, FinalizeObject(k)
  PROVE  TypeOK'
<1>1. /\ worker.pc # "idle" /\ worker.env \in Envs
      /\ Obj(k, worker.env) \in Objects
  BY ObjType, FinalizedKinds DEF FinalizeObject, TypeOK
<1>2. FinalizedSo(k) \in Workers /\ FinalizedSo(k).env \in Envs
  BY <1>1 DEF FinalizedSo, TypeOK, Workers, Steps
<1>3. Remains(k, Obj(k, worker.env)) \in Resources
  BY <1>1, RemainsType
<1>4. /\ StoreObject(Obj(k, worker.env), Remains(k, Obj(k, worker.env)))
      /\ Answered(FinalizedSo(k))
      /\ UNCHANGED << stored, past, cache, due, edits, tampers >>
  BY DEF FinalizeObject
<1>5. QED
  BY <1>1, <1>2, <1>3, <1>4, WriteType

LEMMA StartReconcileType ==
  ASSUME TypeOK, NEW e \in Envs, StartReconcile(e)
  PROVE  TypeOK'
<1> DEFINE step == FirstStep(cache[e].cr)
           w == [pc |-> step, env |-> e, cr |-> cache[e].cr,
                 fresh |-> cache[e].fresh,
                 todo |-> IF step = "finalize" THEN Finalized ELSE Kinds]
<1>1. step \in Steps
  BY DEF FirstStep, Steps
<1>2. cache[e].cr \in CRs /\ cache[e].fresh \in BOOLEAN
  BY DEF TypeOK, Copies
<1>3. w \in Workers /\ w.env \in Envs
  BY <1>1, <1>2, FinalizedKinds DEF Workers
<1>4. Idle \in Workers /\ Idle.pc = "idle"
  BY NoCRType DEF Idle, Workers, Steps
<1>5. /\ worker' = Idle \/ worker' = w
      /\ due' \subseteq Envs
      /\ UNCHANGED << stored, past, cache, objects, seen, timers,
                      edits, faults, tampers >>
  BY DEF StartReconcile, TypeOK, bounds
<1> HIDE DEF w
<1>6. QED
  BY <1>3, <1>4, <1>5 DEF TypeOK

(* What users do. *)
LEMMA UserWritesType ==
  ASSUME TypeOK, NEW e \in Envs, NEW cr \in CRs, UserWrites(e, cr)
  PROVE  TypeOK'
<1>1. /\ stored' \in [Envs -> CRs]
      /\ past' \in [Envs -> CRs]
      /\ cache' \in [Envs -> Copies]
  BY StoreType DEF UserWrites
<1>2. /\ worker' \in Workers
      /\ worker'.pc = worker.pc /\ worker'.env = worker.env
  <2>1. (worker.fresh /\ worker.env # e) \in BOOLEAN
    OBVIOUS
  <2>2. QED
    BY <2>1 DEF UserWrites, TypeOK, Workers
<1>3. edits' \in Nat
  BY DEF UserWrites, TypeOK
<1>4. QED
  BY <1>1, <1>2, <1>3 DEF UserWrites, TypeOK, queue

LEMMA UserType ==
  ASSUME TypeOK, NEW e \in Envs,
         \/ \E s \in Specs : CreateCR(e, s) \/ EditSpec(e, s)
         \/ DeleteCR(e)
  PROVE  TypeOK'
<1>1. stored[e] \in CRs
  BY DEF TypeOK
<1>2. CASE \E s \in Specs : CreateCR(e, s)
  <2> PICK s \in Specs : CreateCR(e, s)
    BY <1>2
  <2>1. [NoCR EXCEPT !.exists = TRUE, !.spec = s] \in CRs
    BY DEF NoCR, CRs
  <2>2. QED
    BY <2>1, UserWritesType DEF CreateCR
<1>3. CASE \E s \in Specs : EditSpec(e, s)
  <2> PICK s \in Specs : EditSpec(e, s)
    BY <1>3
  <2>1. [stored[e] EXCEPT !.spec = s] \in CRs
    BY <1>1 DEF CRs
  <2>2. QED
    BY <1>1, <2>1, UserWritesType DEF EditSpec
<1>4. CASE DeleteCR(e)
  <2>1. [stored[e] EXCEPT !.deleting = TRUE] \in CRs
    BY <1>1 DEF CRs
  <2>2. QED
    BY <1>4, <2>1, NoCRType, UserWritesType DEF DeleteCR
<1>5. QED
  BY <1>2, <1>3, <1>4

(* What others do to the objects, watches, timers, restarts. *)
LEMMA OthersType ==
  ASSUME TypeOK, NEW o \in Objects,
         (\E k \in Kinds : Tamper(k, o)) \/ TerminationCompletes(o)
  PROVE  TypeOK'
<1>1. /\ [objects[o] EXCEPT !.content = "tampered"] \in Resources
      /\ NoResource \in Resources
  BY DEF TypeOK, Resources, Contents, NoResource
<1>2. \E r \in Resources : StoreObject(o, r)
  BY <1>1, RemainsType DEF Tamper, TerminationCompletes
<1>3. /\ objects' \in [Objects -> Resources]
      /\ seen' \in [Objects -> {"current", "present", "absent"}]
  BY <1>2, StoreObjectType
<1>4. /\ UNCHANGED << stored, past, cache, worker, due, timers, edits, faults >>
      /\ tampers' \in Nat
  BY DEF Tamper, TerminationCompletes, TypeOK, queue, bounds
<1>5. QED
  BY <1>3, <1>4 DEF TypeOK

LEMMA InformerType ==
  ASSUME TypeOK, NEW e \in Envs, NEW o \in Objects,
         SyncCR(e) \/ TimerFires(e) \/ SyncObject(o)
  PROVE  TypeOK'
<1>1. CASE SyncCR(e)
  <2>1. [cr |-> stored[e], fresh |-> TRUE] \in Copies
    BY DEF TypeOK, Copies
  <2>2. QED
    BY <1>1, <2>1 DEF SyncCR, TypeOK, bounds
<1>2. CASE TimerFires(e)
  BY <1>2 DEF TimerFires, TypeOK, bounds
<1>3. CASE SyncObject(o)
  BY <1>3 DEF SyncObject, TypeOK, queue, bounds
<1>4. QED
  BY <1>1, <1>2, <1>3

LEMMA FaultType ==
  ASSUME TypeOK, APIError \/ Restart
  PROVE  TypeOK'
<1>1. CASE APIError
  BY <1>1, FailType DEF APIError, TypeOK
<1>2. CASE Restart
  <2>1. cache' \in [Envs -> Copies]
    <3>1. PICK behind :
            cache' = [e \in Envs |-> IF e \in behind
                                     THEN [cr |-> past[e], fresh |-> FALSE]
                                     ELSE [cr |-> stored[e], fresh |-> TRUE]]
      BY <1>2 DEF Restart
    <3>2. ASSUME NEW e \in Envs
          PROVE  /\ [cr |-> past[e], fresh |-> FALSE] \in Copies
                 /\ [cr |-> stored[e], fresh |-> TRUE] \in Copies
      BY DEF TypeOK, Copies
    <3>3. QED
      BY <3>1, <3>2
  <2>2. Idle \in Workers /\ Idle.pc = "idle"
    BY NoCRType DEF Idle, Workers, Steps
  <2>3. QED
    BY <1>2, <2>1, <2>2 DEF Restart, TypeOK
<1>3. QED
  BY <1>1, <1>2

LEMMA StutterType ==
  ASSUME TypeOK, UNCHANGED vars
  PROVE  TypeOK'
BY DEF vars, TypeOK

LEMMA NextType == TypeOK /\ [Next]_vars => TypeOK'
<1> SUFFICES ASSUME TypeOK, [Next]_vars PROVE TypeOK'
  OBVIOUS
<1>1. CASE \E e \in Envs : StartReconcile(e)
  BY <1>1, StartReconcileType
<1>2. CASE ReconcileStep
  BY <1>2, FinalizerType, UpdateStatusType, ProvisionType,
     FinalizeObjectType, RemoveFinalizerType DEF ReconcileStep
<1>3. CASE APIError \/ Restart
  BY <1>3, FaultType
<1>4. CASE \E e \in Envs : \/ \E s \in Specs : CreateCR(e, s) \/ EditSpec(e, s)
                           \/ DeleteCR(e)
  BY <1>4, UserType
<1>5. CASE \E e \in Envs : SyncCR(e) \/ TimerFires(e)
  <2>1. Objects # {}
    BY <1>5, EnvAssumption, FinalizedKinds DEF Objects
  <2>2. QED
    BY <1>5, <2>1, InformerType
<1>6. CASE \E k \in Kinds : \E e \in Envs : Tamper(k, Obj(k, e))
  BY <1>6, ObjType, OthersType
<1>7. CASE \E o \in Objects : TerminationCompletes(o) \/ SyncObject(o)
  <2>1. Envs # {}
    BY <1>7 DEF Objects
  <2>2. QED
    BY <1>7, <2>1, OthersType, InformerType
<1>8. CASE UNCHANGED vars
  BY <1>8, StutterType
<1>9. QED
  BY <1>1, <1>2, <1>3, <1>4, <1>5, <1>6, <1>7, <1>8 DEF Next, Environment

(* Every reachable state of the operator has the types of TypeOK. *)
THEOREM TypeCorrect == Spec => []TypeOK
<1>1. QED
  BY InitType, NextType, PTL DEF Spec

-----------------------------------------------------------------------------
(* A copy with the stored resourceVersion is the stored environment.       *)

LEMMA SameCopies ==
  ASSUME FreshCopies, UNCHANGED << stored, cache >>,
         \/ worker'.pc = "idle"
         \/ /\ worker'.env = worker.env /\ worker'.cr = worker.cr
            /\ worker'.fresh = worker.fresh /\ worker.pc # "idle"
  PROVE  FreshCopies'
BY DEF FreshCopies

(* Reconcile or a user stores an environment. *)
LEMMA StoredCopies ==
  ASSUME TypeOK, FreshCopies, NEW e \in Envs, NEW cr, Store(e, cr),
         \/ worker'.pc = "idle"
         \/ worker'.env = e /\ (worker'.fresh => worker'.cr = cr)
         \/ /\ worker'.env # e /\ worker.pc # "idle"
            /\ worker'.env = worker.env /\ worker'.cr = worker.cr
            /\ worker'.fresh = worker.fresh
  PROVE  FreshCopies'
<1>1. \A f \in Envs : cache'[f].fresh => f # e /\ cache[f].fresh
                                          /\ cache'[f] = cache[f]
  BY DEF TypeOK, Copies, Store
<1>2. /\ stored'[e] = cr
      /\ \A f \in Envs : f # e => stored'[f] = stored[f]
  BY DEF TypeOK, Store
<1>3. \A f \in Envs : cache'[f].fresh => cache'[f].cr = stored'[f]
  BY <1>1, <1>2 DEF FreshCopies
<1>4. ASSUME worker'.pc # "idle", worker'.fresh
      PROVE  worker'.cr = stored'[worker'.env]
  <2>1. CASE worker'.env = e
    BY <1>2, <1>4, <2>1
  <2>2. CASE worker'.env # e
    <3>1. worker.env \in Envs
      BY <1>4, <2>2 DEF TypeOK
    <3>2. QED
      BY <1>2, <1>4, <2>2, <3>1 DEF FreshCopies
  <2>3. QED
    BY <2>1, <2>2
<1>5. QED
  BY <1>3, <1>4 DEF FreshCopies

LEMMA AppendFinalizerCopies ==
  ASSUME TypeOK, FreshCopies, worker.pc # "idle", NEW cr, AppendFinalizer(cr)
  PROVE  FreshCopies'
<1> DEFINE new == [cr EXCEPT !.finalizers = @ + 1]
           w == [worker EXCEPT !.pc = "firstStatus", !.cr = new, !.fresh = TRUE]
<1>1. worker.env \in Envs
  BY DEF TypeOK
<1>2. Store(worker.env, new) /\ (worker' = w \/ Fail)
  BY DEF AppendFinalizer, Answered
<1>3. w.env = worker.env /\ w.cr = new
  BY DEF TypeOK, Workers
<1> HIDE DEF new, w
<1>4. QED
  BY <1>1, <1>2, <1>3, StoredCopies DEF Fail, Idle

LEMMA UpdateStatusCopies ==
  ASSUME TypeOK, FreshCopies, UpdateStatus
  PROVE  FreshCopies'
<1> DEFINE new == [worker.cr EXCEPT !.phase = "Ready"]
           w == [worker EXCEPT !.pc = "ensure", !.cr = new, !.fresh = TRUE]
<1>1. worker.pc # "idle" /\ worker.env \in Envs
  BY DEF UpdateStatus, TypeOK
<1>2. w.env = worker.env /\ w.cr = new
  BY DEF TypeOK, Workers
<1>3. CASE Abort
  BY <1>3, SameCopies DEF Abort, Fail, Idle
<1>4. CASE ~Abort
  <2>1. /\ worker.fresh
        /\ \/ Store(worker.env, new)
           \/ worker.cr = new /\ UNCHANGED << stored, past, cache >>
        /\ worker' = w \/ worker' = Idle
    BY <1>4 DEF UpdateStatus, Answered, Fail, StatusAnswer
  <2> HIDE DEF new, w
  <2>2. CASE Store(worker.env, new)
    <3>1. \/ worker'.pc = "idle"
          \/ worker'.env = worker.env /\ worker'.cr = new
      BY <1>2, <2>1 DEF Idle
    <3>2. QED
      BY <1>1, <2>2, <3>1, StoredCopies
  <2>3. CASE worker.cr = new /\ UNCHANGED << stored, past, cache >>
    BY <1>1, <1>2, <2>1, <2>3 DEF FreshCopies, Idle
  <2>4. QED
    BY <2>1, <2>2, <2>3
<1>5. QED
  BY <1>3, <1>4

LEMMA UserCopies ==
  ASSUME TypeOK, FreshCopies, NEW e \in Envs, NEW cr, UserWrites(e, cr)
  PROVE  FreshCopies'
<1>1. /\ Store(e, cr)
      /\ worker'.pc = worker.pc /\ worker'.env = worker.env
      /\ worker'.cr = worker.cr
      /\ worker'.fresh = (worker.fresh /\ worker.env # e)
  BY DEF UserWrites, TypeOK, Workers
<1>2. worker.fresh \in BOOLEAN
  BY DEF TypeOK, Workers
<1>3. CASE worker.env = e
  BY <1>1, <1>3, StoredCopies
<1>4. CASE worker.env # e
  BY <1>1, <1>2, <1>4, StoredCopies
<1>5. QED
  BY <1>3, <1>4

(* The other steps of Reconcile keep its copy or end it. *)
LEMMA ReconcileCopies ==
  ASSUME TypeOK, FreshCopies, ReconcileStep
  PROVE  FreshCopies'
<1>1. worker.pc # "idle" /\ worker.env \in Envs
  BY DEF ReconcileStep, AddFinalizer, RefetchFinalizer, UpdateStatus,
         EnsureByGet, EnsureByCreate, UpdateExisting, DatabasePanic,
         Provisioning, FinalizeObject, RemoveFinalizer, TypeOK
<1>2. CASE Abort
  BY <1>2, SameCopies DEF Abort, Fail, Idle
<1>3. CASE AddFinalizer \/ RefetchFinalizer
  <2>1. CASE GoTo([worker EXCEPT !.pc = "refetch"])
    BY <1>1, <2>1, SameCopies DEF GoTo, TypeOK, Workers
  <2>2. CASE ~GoTo([worker EXCEPT !.pc = "refetch"])
    BY <1>1, <1>2, <1>3, <2>2, AppendFinalizerCopies
       DEF AddFinalizer, RefetchFinalizer
  <2>3. QED
    BY <2>1, <2>2
<1>4. CASE UpdateStatus
  BY <1>4, UpdateStatusCopies
<1>5. ASSUME NEW k \in Kinds, WriteObject(k) \/ GoTo(Provisioned(k))
      PROVE  FreshCopies'
  <2>1. /\ worker' = Provisioned(k) \/ worker' = Idle
        /\ UNCHANGED << stored, cache >>
    BY <1>5 DEF WriteObject, Answered, Fail, GoTo
  <2>2. /\ Provisioned(k).env = worker.env /\ Provisioned(k).cr = worker.cr
        /\ Provisioned(k).fresh = worker.fresh
    BY DEF Provisioned, TypeOK, Workers
  <2>3. QED
    BY <1>1, <2>1, <2>2, SameCopies DEF Idle
<1>6. CASE \E k \in Kinds : \/ EnsureByGet(k) \/ EnsureByCreate(k)
                            \/ UpdateExisting(k) \/ DatabasePanic(k)
  <2>1. CASE GoTo([worker EXCEPT !.pc = "update"])
    BY <1>1, <2>1, SameCopies DEF GoTo, TypeOK, Workers
  <2>2. CASE ~GoTo([worker EXCEPT !.pc = "update"])
    BY <1>2, <1>5, <1>6, <2>2
       DEF EnsureByGet, EnsureByCreate, UpdateExisting, DatabasePanic
  <2>3. QED
    BY <2>1, <2>2
<1>7. ASSUME NEW k \in Finalized, FinalizeObject(k)
      PROVE  FreshCopies'
  <2>1. /\ worker' = FinalizedSo(k) \/ worker' = Idle
        /\ UNCHANGED << stored, cache >>
    BY <1>7 DEF FinalizeObject, Answered, Fail
  <2>2. /\ FinalizedSo(k).env = worker.env /\ FinalizedSo(k).cr = worker.cr
        /\ FinalizedSo(k).fresh = worker.fresh
    BY DEF FinalizedSo, TypeOK, Workers
  <2>3. QED
    BY <1>1, <2>1, <2>2, SameCopies DEF Idle
<1>8. CASE RemoveFinalizer
  <2>1. CASE ~Abort
    <3>1. /\ worker'.pc = "idle"
          /\ \E cr : Store(worker.env, cr)
      BY <1>8, <2>1 DEF RemoveFinalizer, Answered, Fail, Idle
    <3>2. QED
      BY <1>1, <3>1, StoredCopies
  <2>2. QED
    BY <1>2, <2>1
<1>9. QED
  BY <1>3, <1>4, <1>6, <1>7, <1>8 DEF ReconcileStep

LEMMA NextCopies == TypeOK /\ FreshCopies /\ [Next]_vars => FreshCopies'
<1> SUFFICES ASSUME TypeOK, FreshCopies, [Next]_vars PROVE FreshCopies'
  OBVIOUS
<1>1. ASSUME NEW e \in Envs, StartReconcile(e) PROVE FreshCopies'
  BY <1>1 DEF StartReconcile, FreshCopies, Idle
<1>2. CASE ReconcileStep
  BY <1>2, ReconcileCopies
<1>3. CASE APIError
  BY <1>3, SameCopies DEF APIError, Fail, Idle
<1>4. ASSUME NEW e \in Envs,
             (\E s \in Specs : CreateCR(e, s) \/ EditSpec(e, s)) \/ DeleteCR(e)
      PROVE  FreshCopies'
  BY <1>4, UserCopies DEF CreateCR, EditSpec, DeleteCR
<1>5. ASSUME NEW e \in Envs, SyncCR(e) PROVE FreshCopies'
  BY <1>5 DEF SyncCR, FreshCopies, TypeOK
<1>6. CASE Restart
  <2>1. PICK behind :
          cache' = [e \in Envs |-> IF e \in behind
                                   THEN [cr |-> past[e], fresh |-> FALSE]
                                   ELSE [cr |-> stored[e], fresh |-> TRUE]]
    BY <1>6 DEF Restart
  <2>2. worker'.pc = "idle" /\ stored' = stored
    BY <1>6 DEF Restart, Idle
  <2>3. QED
    BY <2>1, <2>2 DEF FreshCopies
<1>7. CASE UNCHANGED << stored, cache, worker >>
  BY <1>7 DEF FreshCopies
<1>8. QED
  BY <1>1, <1>2, <1>3, <1>4, <1>5, <1>6, <1>7
     DEF Next, Environment, TimerFires, Tamper, TerminationCompletes,
         SyncObject, vars

(* Optimistic locking, as the operator relies on it: an update with a      *)
(* current resourceVersion is an update of exactly what was read.          *)
THEOREM CopiesCorrect == Spec => []FreshCopies
<1>1. Init => FreshCopies
  BY DEF Init, FreshCopies, Idle
<1>2. QED
  BY <1>1, TypeCorrect, NextCopies, PTL DEF Spec

-----------------------------------------------------------------------------
(* No orphans.  Most steps bring no object to life and let no environment  *)
(* go; the others are the write of an object and the removal of the        *)
(* finalizer.                                                              *)

NothingRevived ==
  \A o \in Objects : objects'[o].state = "live" => objects[o].state = "live"

HeldStay == \A e \in Envs : Held(e) => Held(e)'

(* Reconcile stays where it is, or has ended. *)
WorkerKept ==
  \/ worker'.pc = "idle"
  \/ /\ worker'.pc = worker.pc
     /\ worker'.env = worker.env
     /\ worker'.cr = worker.cr
     /\ worker'.todo = worker.todo

WorkerInv == ReadsExisting /\ ProvisionsHeld /\ DeletedStaysDeleted

LEMMA KeptNoOrphans ==
  ASSUME NoOrphans, NothingRevived, HeldStay
  PROVE  NoOrphans'
<1> SUFFICES ASSUME NEW k \in Finalized, NEW e \in Envs,
                    objects'[Obj(k, e)].state = "live"
             PROVE  \E f \in Sharers(k, e) : Held(f)'
  BY DEF NoOrphans
<1>1. objects[Obj(k, e)].state = "live"
  BY ObjType, FinalizedKinds DEF NothingRevived
<1>2. PICK f \in Sharers(k, e) : Held(f)
  BY <1>1 DEF NoOrphans
<1>3. QED
  BY <1>2, SharersSameObject DEF HeldStay

LEMMA KeptWorkerInv ==
  ASSUME TypeOK, WorkerInv, WorkerKept, NothingRevived, HeldStay
  PROVE  WorkerInv'
<1>1. CASE worker'.pc = "idle"
  BY <1>1 DEF WorkerInv, ReadsExisting, ProvisionsHeld, DeletedStaysDeleted
<1>2. CASE /\ worker'.pc # "idle"
           /\ worker'.pc = worker.pc /\ worker'.env = worker.env
           /\ worker'.cr = worker.cr /\ worker'.todo = worker.todo
  <2>1. worker.env \in Envs
    BY <1>2 DEF TypeOK
  <2>2. ReadsExisting'
    BY <1>2 DEF WorkerInv, ReadsExisting
  <2>3. ProvisionsHeld'
    <3>1. Held(worker.env) => Held(worker.env)'
      BY <2>1, <1>2 DEF HeldStay, Held
    <3>2. QED
      BY <1>2, <3>1 DEF WorkerInv, ProvisionsHeld
  <2>4. DeletedStaysDeleted'
    <3>1. \A k \in Finalized : Obj(k, worker.env) \in Objects
      BY <2>1, ObjType, FinalizedKinds
    <3>2. QED
      BY <1>2, <3>1 DEF WorkerInv, DeletedStaysDeleted, NothingRevived
  <2>5. QED
    BY <2>2, <2>3, <2>4 DEF WorkerInv
<1>3. QED
  BY <1>1, <1>2 DEF WorkerKept

LEMMA KeptInv ==
  ASSUME NoOrphansInv, WorkerKept, NothingRevived, HeldStay, TypeOK', FreshCopies'
  PROVE  NoOrphansInv'
BY KeptNoOrphans, KeptWorkerInv DEF NoOrphansInv, WorkerInv

(* A write that brings no object to life. *)
LEMMA StoreObjectRevivesNothing ==
  ASSUME TypeOK, NEW o \in Objects, NEW r \in Resources, StoreObject(o, r),
         r.state = "live" => objects[o].state = "live"
  PROVE  NothingRevived
BY DEF TypeOK, StoreObject, NothingRevived

LEMMA SameObjects ==
  ASSUME objects' = objects
  PROVE  NothingRevived
BY DEF NothingRevived

LEMMA SameStored ==
  ASSUME stored' = stored
  PROVE  HeldStay
BY DEF HeldStay, Held

LEMMA StoreHolds ==
  ASSUME TypeOK, NEW e \in Envs, NEW cr \in CRs, Store(e, cr),
         Held(e) => cr.exists /\ cr.finalizers > 0
  PROVE  HeldStay
BY DEF TypeOK, Store, HeldStay, Held

LEMMA FailEnds ==
  ASSUME Fail
  PROVE  worker'.pc = "idle"
BY DEF Fail, Idle

LEMMA AbortInv ==
  ASSUME NoOrphansInv, Abort, TypeOK', FreshCopies'
  PROVE  NoOrphansInv'
BY KeptInv, SameObjects, SameStored, FailEnds DEF Abort, WorkerKept

(* The steps of Reconcile. *)
LEMMA StartReconcileInv ==
  ASSUME NoOrphansInv, NEW e \in Envs, StartReconcile(e), TypeOK', FreshCopies'
  PROVE  NoOrphansInv'
<1> DEFINE step == FirstStep(cache[e].cr)
           w == [pc |-> step, env |-> e, cr |-> cache[e].cr,
                 fresh |-> cache[e].fresh,
                 todo |-> IF step = "finalize" THEN Finalized ELSE Kinds]
<1>1. cache[e].cr \in CRs
  BY DEF NoOrphansInv, TypeOK, Copies
<1>2. NoOrphans'
  BY KeptNoOrphans, SameObjects, SameStored DEF StartReconcile, NoOrphansInv
<1>3. worker' = IF step = "idle" THEN Idle ELSE w
  BY DEF StartReconcile
<1>4. CASE step = "idle"
  BY <1>2, <1>3, <1>4 DEF Idle, NoOrphansInv, ReadsExisting, ProvisionsHeld,
                          DeletedStaysDeleted
<1>5. CASE step # "idle"
  <2>1. /\ cache[e].cr.exists
        /\ step \in {"finalize", "addFinalizer", "firstStatus"}
        /\ step = "firstStatus" => cache[e].cr.finalizers # 0
        /\ step = "finalize" => cache[e].cr.deleting
    BY <1>5 DEF FirstStep
  <2>2. step = "firstStatus" => cache[e].cr.finalizers > 0
    <3>1. cache[e].cr.finalizers \in Nat
      BY <1>1 DEF CRs
    <3>2. QED
      BY <2>1, <3>1
  <2>3. /\ worker'.pc = step /\ worker'.cr = cache[e].cr
        /\ step = "finalize" => worker'.todo = Finalized
    BY <1>3, <1>5
  <2> HIDE DEF step, w
  <2>4. ReadsExisting'
    BY <2>1, <2>3 DEF ReadsExisting
  <2>5. ProvisionsHeld'
    BY <2>1, <2>2, <2>3 DEF ProvisionsHeld
  <2>6. DeletedStaysDeleted'
    BY <2>1, <2>3 DEF DeletedStaysDeleted
  <2>7. QED
    BY <1>2, <2>4, <2>5, <2>6 DEF NoOrphansInv
<1>6. QED
  BY <1>4, <1>5

LEMMA AppendFinalizerInv ==
  ASSUME NoOrphansInv, worker.pc # "idle", NEW cr \in CRs, cr.exists,
         AppendFinalizer(cr), TypeOK', FreshCopies'
  PROVE  NoOrphansInv'
<1> DEFINE new == [cr EXCEPT !.finalizers = @ + 1]
           w == [worker EXCEPT !.pc = "firstStatus", !.cr = new, !.fresh = TRUE]
<1>1. TypeOK /\ worker.env \in Envs
  BY DEF NoOrphansInv, TypeOK
<1>2. new.exists /\ new.finalizers > 0
  <2>1. cr.finalizers \in Nat
    BY DEF CRs
  <2>2. new.finalizers = cr.finalizers + 1 /\ new.exists
    BY DEF CRs
  <2> HIDE DEF new
  <2>3. QED
    BY <2>1, <2>2
<1>3. Store(worker.env, new) /\ Answered(w) /\ UNCHANGED objects
  BY DEF AppendFinalizer
<1>4. w.pc = "firstStatus" /\ w.cr = new
  BY <1>1 DEF TypeOK, Workers
<1> HIDE DEF new, w
<1>5. HeldStay
  BY <1>1, <1>2, <1>3 DEF TypeOK, Store, HeldStay, Held
<1>6. CASE worker' = w
  <2>1. NoOrphans'
    BY <1>3, <1>5, KeptNoOrphans, SameObjects DEF NoOrphansInv
  <2>2. QED
    BY <1>2, <1>4, <1>6, <2>1 DEF NoOrphansInv, ReadsExisting, ProvisionsHeld,
                                  DeletedStaysDeleted
<1>7. CASE Fail
  BY <1>3, <1>5, <1>7, KeptInv, SameObjects, FailEnds DEF WorkerKept
<1>8. QED
  BY <1>3, <1>6, <1>7 DEF Answered

LEMMA FinalizerInv ==
  ASSUME NoOrphansInv, AddFinalizer \/ RefetchFinalizer, TypeOK', FreshCopies'
  PROVE  NoOrphansInv'
<1> DEFINE w == [worker EXCEPT !.pc = "refetch"]
<1>1. /\ TypeOK /\ worker.pc # "idle" /\ worker.env \in Envs
      /\ worker.cr \in CRs /\ cache[worker.env].cr \in CRs
  BY DEF AddFinalizer, RefetchFinalizer, NoOrphansInv, TypeOK, Workers, Copies
<1>2. worker.cr.exists
  BY <1>1 DEF NoOrphansInv, ReadsExisting
<1>3. \/ AppendFinalizer(worker.cr)
      \/ cache[worker.env].cr.exists /\ AppendFinalizer(cache[worker.env].cr)
      \/ GoTo(w) \/ Abort
  BY DEF AddFinalizer, RefetchFinalizer
<1>4. CASE GoTo(w)
  <2>1. w.pc = "refetch" /\ w.cr = worker.cr
    BY <1>1 DEF TypeOK, Workers
  <2>2. worker' = w /\ UNCHANGED << stored, objects >>
    BY <1>4 DEF GoTo
  <2> HIDE DEF w
  <2>3. NoOrphans'
    BY <2>2, KeptNoOrphans, SameObjects, SameStored DEF NoOrphansInv
  <2>4. QED
    BY <1>2, <2>1, <2>2, <2>3 DEF NoOrphansInv, ReadsExisting, ProvisionsHeld,
                                  DeletedStaysDeleted
<1>5. CASE ~GoTo(w)
  BY <1>1, <1>2, <1>3, <1>5, AppendFinalizerInv, AbortInv
<1>6. QED
  BY <1>4, <1>5

LEMMA UpdateStatusInv ==
  ASSUME NoOrphansInv, UpdateStatus, TypeOK', FreshCopies'
  PROVE  NoOrphansInv'
<1> DEFINE new == [worker.cr EXCEPT !.phase = "Ready"]
           w == [worker EXCEPT !.pc = "ensure", !.cr = new, !.fresh = TRUE]
<1>1. /\ TypeOK /\ worker.pc # "idle" /\ worker.env \in Envs
      /\ worker.cr \in CRs
  BY DEF UpdateStatus, NoOrphansInv, TypeOK, Workers
<1>2. worker.cr.exists /\ worker.cr.finalizers > 0
  BY <1>1 DEF UpdateStatus, NoOrphansInv, ReadsExisting, ProvisionsHeld
<1>3. new \in CRs /\ new.exists /\ new.finalizers > 0
  BY <1>1, <1>2 DEF CRs
<1>4. w.pc = "ensure" /\ w.cr = new /\ w.env = worker.env
  BY <1>1 DEF TypeOK, Workers
<1>5. CASE Abort
  BY <1>5, AbortInv
<1>6. CASE ~Abort
  <2>1. /\ StatusAnswer(worker.env, worker.fresh) = "OK"
        /\ \/ Store(worker.env, new)
           \/ worker.cr = new /\ UNCHANGED << stored, past, cache >>
        /\ Answered(w) \/ (Fail /\ UNCHANGED faults)
        /\ worker.pc = "firstStatus" \/ Fail
        /\ UNCHANGED << objects, seen, due, edits, tampers >>
    BY <1>6 DEF UpdateStatus
  <2> HIDE DEF new, w
  <2>2. HeldStay
    BY <1>1, <1>3, <2>1, StoreHolds, SameStored
  <2>3. NoOrphans'
    BY <2>1, <2>2, KeptNoOrphans, SameObjects DEF NoOrphansInv
  <2>4. CASE Fail
    BY <2>1, <2>2, <2>4, KeptInv, SameObjects, FailEnds DEF WorkerKept
  <2>5. CASE worker' = w
    <3>1. stored'[worker.env] = new
      BY <1>1, <2>1 DEF Store, TypeOK, StatusAnswer, NoOrphansInv, FreshCopies
    <3>2. QED
      BY <1>3, <1>4, <2>3, <2>5, <3>1
         DEF NoOrphansInv, ReadsExisting, ProvisionsHeld, Held,
             DeletedStaysDeleted
  <2>6. QED
    BY <2>1, <2>4, <2>5 DEF Answered
<1>7. QED
  BY <1>5, <1>6

LEMMA WriteObjectInv ==
  ASSUME NoOrphansInv, NEW k \in Kinds, Provisioning(k) \/ worker.pc = "update",
         WriteObject(k) \/ GoTo(Provisioned(k)) \/ Abort, TypeOK', FreshCopies'
  PROVE  NoOrphansInv'
<1>1. TypeOK /\ worker.pc \in {"ensure", "update"} /\ worker.env \in Envs
  BY DEF Provisioning, NoOrphansInv, TypeOK
<1>2. worker.cr.exists /\ worker.cr.finalizers > 0 /\ Held(worker.env)
  BY <1>1 DEF NoOrphansInv, ReadsExisting, ProvisionsHeld
<1>3. CASE Abort
  BY <1>3, AbortInv
<1>4. CASE WriteObject(k) \/ GoTo(Provisioned(k))
  <2>1. /\ UNCHANGED stored
        /\ worker' = Provisioned(k) \/ Fail
    BY <1>4 DEF WriteObject, Answered, GoTo
  <2>2. /\ Provisioned(k).pc \in {"ensure", "lastStatus"}
        /\ Provisioned(k).cr = worker.cr /\ Provisioned(k).env = worker.env
    BY <1>1 DEF Provisioned, TypeOK, Workers
  <2>3. WorkerInv'
    <3>1. CASE worker' = Provisioned(k)
      BY <1>2, <2>1, <2>2, <3>1
         DEF WorkerInv, ReadsExisting, ProvisionsHeld, DeletedStaysDeleted, Held
    <3>2. CASE Fail
      BY <3>2, FailEnds
         DEF WorkerInv, ReadsExisting, ProvisionsHeld, DeletedStaysDeleted
    <3>3. QED
      BY <2>1, <3>1, <3>2
  <2>4. \A o \in Objects : o # Obj(k, worker.env) => objects'[o] = objects[o]
    BY <1>1, <1>4 DEF WriteObject, StoreObject, GoTo, TypeOK
  <2>5. NoOrphans'
    <3> SUFFICES ASSUME NEW l \in Finalized, NEW e \in Envs,
                        objects'[Obj(l, e)].state = "live"
                 PROVE  \E f \in Sharers(l, e) : Held(f)'
      BY DEF NoOrphans
    <3>1. \A f \in Envs : Held(f) => Held(f)'
      BY <2>1, SameStored DEF HeldStay
    <3>2. CASE Obj(l, e) = Obj(k, worker.env)
      <4>1. worker.env \in Sharers(l, e)
        BY <1>1, <3>2, ObjInjective
      <4>2. QED
        BY <1>1, <1>2, <3>1, <4>1
    <3>3. CASE Obj(l, e) # Obj(k, worker.env)
      <4>1. objects[Obj(l, e)].state = "live"
        BY <2>4, <3>3, ObjType, FinalizedKinds
      <4>2. PICK f \in Sharers(l, e) : Held(f)
        BY <4>1 DEF NoOrphansInv, NoOrphans
      <4>3. QED
        BY <3>1, <4>2, SharersSameObject
    <3>4. QED
      BY <3>2, <3>3
  <2>6. QED
    BY <2>3, <2>5 DEF NoOrphansInv, WorkerInv
<1>5. QED
  BY <1>3, <1>4

LEMMA ProvisionInv ==
  ASSUME NoOrphansInv, NEW k \in Kinds,
         \/ EnsureByGet(k) \/ EnsureByCreate(k)
         \/ UpdateExisting(k) \/ DatabasePanic(k),
         TypeOK', FreshCopies'
  PROVE  NoOrphansInv'
<1> DEFINE w == [worker EXCEPT !.pc = "update"]
<1>1. /\ Provisioning(k) \/ worker.pc = "update"
      /\ WriteObject(k) \/ GoTo(Provisioned(k)) \/ Abort
           \/ (Provisioning(k) /\ GoTo(w))
  BY DEF EnsureByGet, EnsureByCreate, UpdateExisting, DatabasePanic
<1>2. CASE Provisioning(k) /\ GoTo(w)
  <2>1. w.pc = "update" /\ w.cr = worker.cr /\ w.env = worker.env
    BY DEF NoOrphansInv, TypeOK, Workers
  <2>2. worker.pc = "ensure" /\ worker' = w /\ UNCHANGED << stored, objects >>
    BY <1>2 DEF GoTo, Provisioning
  <2> HIDE DEF w
  <2>3. NoOrphans'
    BY <2>2, KeptNoOrphans, SameObjects, SameStored DEF NoOrphansInv
  <2>4. QED
    BY <2>1, <2>2, <2>3 DEF NoOrphansInv, ReadsExisting, ProvisionsHeld, Held,
                            DeletedStaysDeleted
<1>3. QED
  BY <1>1, <1>2, WriteObjectInv

LEMMA FinalizeObjectInv ==
  ASSUME NoOrphansInv, NEW k \in Finalized, FinalizeObject(k),
         TypeOK', FreshCopies'
  PROVE  NoOrphansInv'
<1> DEFINE o == Obj(k, worker.env)
<1>1. /\ TypeOK /\ worker.pc = "finalize" /\ k \in worker.todo
      /\ worker.env \in Envs /\ o \in Objects
  BY ObjType, FinalizedKinds DEF FinalizeObject, IsNext, NoOrphansInv, TypeOK
<1>2. /\ StoreObject(o, Remains(k, o)) /\ UNCHANGED stored
      /\ worker' = FinalizedSo(k) \/ Fail
  BY DEF FinalizeObject, Answered
<1>3. Remains(k, o).state # "live"
  BY <1>1 DEF Remains, NoResource, TypeOK, Resources
<1>4. Remains(k, o) \in Resources
  BY <1>1, RemainsType
<1>5. objects'[o] = Remains(k, o)
  BY <1>1, <1>2 DEF StoreObject, TypeOK
<1> HIDE DEF o
<1>6. NothingRevived /\ HeldStay
  BY <1>1, <1>2, <1>3, <1>4, StoreObjectRevivesNothing, SameStored
<1>7. CASE Fail
  BY <1>6, <1>7, KeptInv, FailEnds DEF WorkerKept
<1>8. CASE worker' = FinalizedSo(k)
  <2>1. /\ worker'.env = worker.env /\ worker'.cr = worker.cr
        /\ worker'.todo = worker.todo \ {k}
        /\ worker'.pc \in {"finalize", "removeFinalizer"}
        /\ worker'.pc = "removeFinalizer" => worker.todo = {k}
    BY <1>1, <1>8 DEF FinalizedSo, TypeOK, Workers
  <2>2. ReadsExisting' /\ ProvisionsHeld'
    BY <1>1, <2>1 DEF NoOrphansInv, ReadsExisting, ProvisionsHeld
  <2>3. DeletedStaysDeleted'
    <3>1. worker'.pc = "removeFinalizer" => worker'.todo = {}
      BY <2>1
    <3>2. ASSUME NEW l \in Finalized \ worker'.todo
          PROVE  objects'[Obj(l, worker'.env)].state # "live"
      <4>1. CASE l = k
        BY <1>3, <1>5, <2>1, <4>1 DEF o
      <4>2. CASE l # k
        <5>1. objects[Obj(l, worker.env)].state # "live"
          BY <1>1, <2>1, <3>2, <4>2 DEF NoOrphansInv, DeletedStaysDeleted
        <5>2. Obj(l, worker.env) \in Objects
          BY <1>1, ObjType, FinalizedKinds
        <5>3. QED
          BY <1>6, <2>1, <5>1, <5>2 DEF NothingRevived
      <4>3. QED
        BY <4>1, <4>2
    <3>3. QED
      BY <3>1, <3>2 DEF DeletedStaysDeleted
  <2>4. QED
    BY <1>6, <2>2, <2>3, KeptNoOrphans DEF NoOrphansInv
<1>9. QED
  BY <1>2, <1>7, <1>8

(* The environment goes: none of the objects it shares is alive. *)
LEMMA RemoveFinalizerInv ==
  ASSUME NoOrphansInv, RemoveFinalizer, TypeOK', FreshCopies'
  PROVE  NoOrphansInv'
<1>1. TypeOK /\ worker.pc = "removeFinalizer" /\ worker.env \in Envs
  BY DEF RemoveFinalizer, NoOrphansInv, TypeOK
<1>2. CASE Abort
  BY <1>2, AbortInv
<1>3. CASE ~Abort
  <2>1. /\ worker'.pc = "idle" /\ objects' = objects
        /\ Store(worker.env, NoCR)
    BY <1>3 DEF RemoveFinalizer, RemoveString, Answered, Fail, Idle
  <2>2. \A f \in Envs : f # worker.env /\ Held(f) => Held(f)'
    BY <1>1, <2>1 DEF Store, TypeOK, Held
  <2>3. NoOrphans'
    <3> SUFFICES ASSUME NEW k \in Finalized, NEW e \in Envs,
                        objects'[Obj(k, e)].state = "live"
                 PROVE  \E f \in Sharers(k, e) : Held(f)'
      BY DEF NoOrphans
    <3>1. PICK f \in Sharers(k, e) : Held(f)
      BY <2>1 DEF NoOrphansInv, NoOrphans
    <3>2. f \in Envs /\ Obj(k, f) = Obj(k, e)
      BY SharersSameObject
    <3>3. f # worker.env
      BY <1>1, <2>1, <3>2 DEF NoOrphansInv, DeletedStaysDeleted
    <3>4. QED
      BY <2>2, <3>1, <3>2, <3>3
  <2>4. WorkerInv'
    BY <2>1 DEF WorkerInv, ReadsExisting, ProvisionsHeld, DeletedStaysDeleted
  <2>5. QED
    BY <2>3, <2>4 DEF NoOrphansInv, WorkerInv
<1>4. QED
  BY <1>2, <1>3

(* What users do lets no environment with a finalizer go. *)
LEMMA UserInv ==
  ASSUME NoOrphansInv, NEW e \in Envs,
         (\E s \in Specs : CreateCR(e, s) \/ EditSpec(e, s)) \/ DeleteCR(e),
         TypeOK', FreshCopies'
  PROVE  NoOrphansInv'
<1>1. TypeOK /\ stored[e] \in CRs
  BY DEF NoOrphansInv, TypeOK
<1>2. PICK cr : UserWrites(e, cr)
                /\ (Held(e) => cr.exists /\ cr.finalizers > 0)
  <2>1. CASE \E s \in Specs : CreateCR(e, s)
    BY <2>1 DEF CreateCR, Held
  <2>2. CASE \E s \in Specs : EditSpec(e, s)
    <3> PICK s \in Specs : EditSpec(e, s)
      BY <2>2
    <3>1. LET cr == [stored[e] EXCEPT !.spec = s]
          IN  cr.exists = stored[e].exists /\ cr.finalizers = stored[e].finalizers
      BY <1>1 DEF CRs
    <3>2. QED
      BY <3>1 DEF EditSpec, Held
  <2>3. CASE DeleteCR(e)
    <3>1. LET cr == [stored[e] EXCEPT !.deleting = TRUE]
          IN  cr.exists = stored[e].exists /\ cr.finalizers = stored[e].finalizers
      BY <1>1 DEF CRs
    <3>2. stored[e].finalizers = 0 => ~Held(e)
      BY DEF Held
    <3>3. QED
      BY <2>3, <3>1, <3>2 DEF DeleteCR, Held
  <2>4. QED
    BY <2>1, <2>2, <2>3
<1>3. HeldStay
  BY <1>1, <1>2 DEF UserWrites, Store, TypeOK, HeldStay, Held
<1>4. NothingRevived
  BY <1>2, SameObjects DEF UserWrites
<1>5. WorkerKept
  BY <1>1, <1>2 DEF UserWrites, WorkerKept, TypeOK, Workers
<1>6. QED
  BY <1>3, <1>4, <1>5, KeptInv

LEMMA OthersInv ==
  ASSUME NoOrphansInv, NEW o \in Objects,
         (\E k \in Kinds : Tamper(k, o)) \/ TerminationCompletes(o),
         TypeOK', FreshCopies'
  PROVE  NoOrphansInv'
<1>1. TypeOK /\ objects[o] \in Resources
  BY DEF NoOrphansInv, TypeOK
<1>2. LET r == [objects[o] EXCEPT !.content = "tampered"]
      IN  r \in Resources /\ r.state = objects[o].state
  BY <1>1 DEF Resources, Contents
<1>3. NoResource \in Resources /\ NoResource.state # "live"
  BY DEF Resources, NoResource, Contents
<1>4. ASSUME NEW k \in Kinds
      PROVE  Remains(k, o) \in Resources /\ Remains(k, o).state # "live"
  BY <1>1, <1>3, RemainsType DEF Remains, Resources
<1>5. \E r \in Resources : /\ StoreObject(o, r)
                           /\ r.state = "live" => objects[o].state = "live"
  BY <1>2, <1>3, <1>4 DEF Tamper, TerminationCompletes
<1>6. NothingRevived
  BY <1>1, <1>5, StoreObjectRevivesNothing
<1>7. UNCHANGED << stored, worker >>
  BY DEF Tamper, TerminationCompletes
<1>8. QED
  BY <1>6, <1>7, KeptInv, SameStored DEF WorkerKept

LEMMA NextInv ==
  NoOrphansInv /\ [Next]_vars /\ TypeOK' /\ FreshCopies' => NoOrphansInv'
<1> SUFFICES ASSUME NoOrphansInv, [Next]_vars, TypeOK', FreshCopies'
             PROVE  NoOrphansInv'
  OBVIOUS
<1>1. CASE \E e \in Envs : StartReconcile(e)
  BY <1>1, StartReconcileInv
<1>2. CASE ReconcileStep
  BY <1>2, FinalizerInv, UpdateStatusInv, ProvisionInv, FinalizeObjectInv,
     RemoveFinalizerInv DEF ReconcileStep
<1>3. CASE \E e \in Envs :
             (\E s \in Specs : CreateCR(e, s) \/ EditSpec(e, s)) \/ DeleteCR(e)
  BY <1>3, UserInv
<1>4. CASE \/ \E k \in Kinds : \E e \in Envs : Tamper(k, Obj(k, e))
           \/ \E o \in Objects : TerminationCompletes(o)
  BY <1>4, ObjType, OthersInv
<1>5. CASE APIError \/ Restart
  <2>1. worker'.pc = "idle" /\ UNCHANGED << stored, objects >>
    BY <1>5 DEF APIError, Restart, Fail, Idle
  <2>2. QED
    BY <2>1, KeptInv, SameObjects, SameStored DEF WorkerKept
<1>6. CASE UNCHANGED << stored, objects, worker >>
  BY <1>6, KeptInv, SameObjects, SameStored DEF WorkerKept
<1>7. QED
  BY <1>1, <1>2, <1>3, <1>4, <1>5, <1>6
     DEF Next, Environment, SyncCR, TimerFires, SyncObject, vars

(* The inductive invariant holds in every reachable state. *)
THEOREM InvCorrect == Spec => []NoOrphansInv
<1>1. Init => NoOrphansInv
  <2>1. ASSUME Init PROVE NoOrphans
    BY <2>1, ObjType, FinalizedKinds DEF Init, NoOrphans, NoResource
  <2>2. QED
    BY <2>1, InitType DEF Init, NoOrphansInv, FreshCopies, ReadsExisting,
                          ProvisionsHeld, DeletedStaysDeleted, Idle
<1>2. QED
  BY <1>1, TypeCorrect, CopiesCorrect, NextInv, PTL DEF Spec

(* An object that finalization deletes is alive only while an environment  *)
(* that will delete it exists and carries the finalizer: for any number of *)
(* environments that share objects, lost answers, restarts, stale lists    *)
(* and edits.                                                              *)
THEOREM NoOrphansCorrect == Spec => []NoOrphans
<1>1. NoOrphansInv => NoOrphans
  BY DEF NoOrphansInv
<1>2. QED
  BY <1>1, InvCorrect, PTL

-----------------------------------------------------------------------------
(* What Reconcile stores over an environment.                              *)

(* The steps that store nothing, and those of users. *)
LEMMA QuietSteps ==
  ASSUME edits' # edits \/ stored' = stored
  PROVE  KeepsEdits /\ RemovesDeleted
BY DEF KeepsEdits, RemovesDeleted

(* One environment is stored anew with its spec and deletion kept. *)
LEMMA StoreKeeps ==
  ASSUME TypeOK, NEW e \in Envs, NEW cr \in CRs, Store(e, cr), cr.exists,
         cr.spec = stored[e].spec, cr.deleting = stored[e].deleting
  PROVE  KeepsEdits /\ RemovesDeleted
BY DEF TypeOK, Store, KeepsEdits, RemovesDeleted

LEMMA AppendFinalizerKeeps ==
  ASSUME TypeOK, worker.pc # "idle", NEW cr \in CRs, cr.exists,
         cr = stored[worker.env], AppendFinalizer(cr)
  PROVE  KeepsEdits /\ RemovesDeleted
<1> DEFINE new == [cr EXCEPT !.finalizers = @ + 1]
<1>1. Store(worker.env, new)
  BY DEF AppendFinalizer
<1>2. /\ new.exists /\ new.spec = cr.spec /\ new.deleting = cr.deleting
  BY DEF CRs
<1>3. worker.env \in Envs
  BY DEF TypeOK
<1> HIDE DEF new
<1>4. QED
  BY <1>1, <1>2, <1>3 DEF TypeOK, Store, KeepsEdits, RemovesDeleted

LEMMA NextKeeps ==
  NoOrphansInv /\ [Next]_vars => [KeepsEdits]_vars /\ [RemovesDeleted]_vars
<1> SUFFICES ASSUME NoOrphansInv, Next
             PROVE  KeepsEdits /\ RemovesDeleted
  OBVIOUS
<1>1. TypeOK /\ FreshCopies /\ ReadsExisting
  BY DEF NoOrphansInv
<1>2. CASE AddFinalizer \/ RefetchFinalizer
  <2>1. /\ worker.pc # "idle" /\ worker.env \in Envs
        /\ worker.cr \in CRs /\ cache[worker.env].cr \in CRs
    BY <1>1, <1>2 DEF AddFinalizer, RefetchFinalizer, TypeOK, Workers, Copies
  <2>2. CASE \/ AppendFinalizer(worker.cr) /\ worker.fresh
             \/ /\ AppendFinalizer(cache[worker.env].cr)
                /\ cache[worker.env].fresh /\ cache[worker.env].cr.exists
    BY <1>1, <2>1, <2>2, AppendFinalizerKeeps DEF FreshCopies, ReadsExisting
  <2>3. CASE stored' = stored
    BY <2>3, QuietSteps
  <2>4. QED
    BY <1>2, <2>2, <2>3
       DEF AddFinalizer, RefetchFinalizer, UpdateAnswer, GoTo, Abort
<1>3. CASE UpdateStatus
  <2> DEFINE new == [worker.cr EXCEPT !.phase = "Ready"]
  <2>1. /\ worker.pc # "idle" /\ worker.env \in Envs /\ worker.cr \in CRs
        /\ worker.cr.exists
    BY <1>1, <1>3 DEF UpdateStatus, TypeOK, Workers, ReadsExisting
  <2>2. /\ new \in CRs /\ new.exists = worker.cr.exists
        /\ new.spec = worker.cr.spec /\ new.deleting = worker.cr.deleting
    BY <2>1 DEF CRs
  <2>3. stored' = stored \/ (Store(worker.env, new) /\ worker.fresh)
    BY <1>3 DEF UpdateStatus, StatusAnswer, Abort
  <2> HIDE DEF new
  <2>4. QED
    BY <1>1, <2>1, <2>2, <2>3, StoreKeeps, QuietSteps DEF FreshCopies
<1>4. CASE RemoveFinalizer
  <2>1. worker.pc = "removeFinalizer" /\ worker.env \in Envs
    BY <1>1, <1>4 DEF RemoveFinalizer, TypeOK
  <2>2. stored' = stored \/ (Store(worker.env, NoCR) /\ worker.fresh)
    BY <1>4 DEF RemoveFinalizer, RemoveString, UpdateAnswer, Abort
  <2>3. CASE Store(worker.env, NoCR) /\ worker.fresh
    <3>1. stored[worker.env].deleting
      BY <1>1, <2>1, <2>3 DEF FreshCopies, ReadsExisting
    <3>2. /\ stored'[worker.env] = NoCR
          /\ \A e \in Envs : e # worker.env => stored'[e] = stored[e]
      BY <1>1, <2>1, <2>3 DEF Store, TypeOK
    <3>3. ~NoCR.exists
      BY DEF NoCR
    <3>4. QED
      BY <3>1, <3>2, <3>3 DEF KeepsEdits, RemovesDeleted
  <2>4. QED
    BY <2>2, <2>3, QuietSteps
<1>5. ASSUME NEW k \in Kinds,
             \/ EnsureByGet(k) \/ EnsureByCreate(k)
             \/ UpdateExisting(k) \/ DatabasePanic(k) \/ FinalizeObject(k)
      PROVE  stored' = stored
  BY <1>5 DEF EnsureByGet, EnsureByCreate, UpdateExisting, DatabasePanic,
              WriteObject, FinalizeObject, GoTo, Abort
<1>6. CASE ReconcileStep
  BY <1>2, <1>3, <1>4, <1>5, <1>6, FinalizedKinds, QuietSteps
     DEF ReconcileStep
<1>7. ASSUME NEW e \in Envs, NEW cr, UserWrites(e, cr)
      PROVE  edits' # edits
  BY <1>1, <1>7 DEF UserWrites, TypeOK
<1>8. CASE Environment
  BY <1>7, <1>8, QuietSteps
     DEF Environment, CreateCR, EditSpec, DeleteCR, SyncCR, TimerFires,
         Tamper, TerminationCompletes, SyncObject, Restart
<1>9. QED
  BY <1>6, <1>8, QuietSteps DEF Next, StartReconcile, APIError

(* No write of Reconcile undoes a user's edit or deletion. *)
THEOREM NoLostEditCorrect == Spec => NoLostEdit
<1>1. QED
  BY InvCorrect, NextKeeps, PTL DEF Spec, NoLostEdit

(* Reconcile lets only environments go whose deletion was asked for. *)
THEOREM GoesWhenAskedCorrect == Spec => GoesWhenAsked
<1>1. QED
  BY InvCorrect, NextKeeps, PTL DEF Spec, GoesWhenAsked
=============================================================================

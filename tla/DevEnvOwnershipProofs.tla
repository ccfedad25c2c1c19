------------------------ MODULE DevEnvOwnershipProofs ------------------------
(***************************************************************************)
(* The operator implements OwnedObjects: what it stores of an environment  *)
(* moves it along the stages of an owner, and what it writes of an object  *)
(* is for a holder.  The step that lets an environment go is the one that  *)
(* needs NoOrphans.                                                        *)
(***************************************************************************)
EXTENDS DevEnvOperatorProofs

owners == [e \in Envs |-> Stage(stored[e])]

things == { o \in OwnedThings : objects[o].state = "live" }

(* An environment is marked as being deleted only while a finalizer keeps  *)
(* it: without one it goes at once.                                        *)
DeletingKept ==
  \A e \in Envs : stored[e].deleting => Stage(stored[e]) = "leaving"

OwnerStep == Ownership!Next \/ UNCHANGED << owners, things >>

Owns == OwnerStep /\ DeletingKept'

(* The moves of an owner other than the last. *)
Onward == { << "absent", "present" >>, << "present", "holding" >>,
            << "holding", "leaving" >>, << "present", "absent" >> }

LEMMA ThingTypes ==
  /\ OwnedThings \subseteq Objects
  /\ \A o \in OwnedThings : o[2] \subseteq Envs
BY FinalizedKinds DEF OwnedThings, Objects, Obj, Sharers

LEMMA HoldersAre ==
  ASSUME TypeOK
  PROVE  Ownership!Holders = { e \in Envs : Held(e) }
<1>1. \A e \in Envs : stored[e].finalizers \in Nat
  BY DEF TypeOK, CRs
<1>2. ASSUME NEW e \in Envs
      PROVE  Stage(stored[e]) \in {"holding", "leaving"} <=> Held(e)
  <2>1. CASE stored[e].exists /\ stored[e].finalizers = 0
    BY <2>1 DEF Stage, Held
  <2>2. CASE stored[e].exists /\ stored[e].finalizers # 0
    BY <1>1, <2>2 DEF Stage, Held
  <2>3. CASE ~stored[e].exists
    BY <2>3 DEF Stage, Held
  <2> QED BY <2>1, <2>2, <2>3
<1> QED BY <1>2 DEF Ownership!Holders

(* One environment moves, none of the things does. *)
LEMMA Moving ==
  ASSUME TypeOK, NEW e \in Envs, NEW cr \in CRs,
         stored' = [stored EXCEPT ![e] = cr], objects' = objects,
         DeletingKept, cr.deleting => Stage(cr) = "leaving",
         Stage(cr) = Stage(stored[e]) \/ << Stage(stored[e]), Stage(cr) >> \in Onward
  PROVE  Owns
<1>0. DeletingKept'
  BY DEF TypeOK, DeletingKept
<1> SUFFICES OwnerStep
  BY <1>0 DEF Owns
<1>1. owners' = [owners EXCEPT ![e] = Stage(cr)] /\ things' = things
  BY DEF TypeOK, owners, things
<1>2. CASE Stage(cr) = Stage(stored[e])
  BY <1>1, <1>2 DEF owners, OwnerStep
<1>3. CASE << Stage(stored[e]), Stage(cr) >> \in Onward
  <2>1. Ownership!Moves(e, Stage(stored[e]), Stage(cr))
    BY <1>1 DEF Ownership!Moves, owners, things
  <2>2. \/ Ownership!Enter(e) \/ Ownership!TakeHold(e)
        \/ Ownership!Ask(e) \/ Ownership!Give(e)
    BY <1>3, <2>1 DEF Onward, Ownership!Enter, Ownership!TakeHold,
                      Ownership!Ask, Ownership!Give
  <2> QED BY <2>2 DEF OwnerStep, Ownership!Next
<1> QED BY <1>2, <1>3

(* An environment that was leaving goes: no orphans are left. *)
LEMMA Releasing ==
  ASSUME TypeOK, TypeOK', NoOrphans', DeletingKept, NEW e \in Envs,
         Stage(stored[e]) = "leaving",
         stored' = [stored EXCEPT ![e] = NoCR], objects' = objects
  PROVE  Owns
<1>1. owners' = [owners EXCEPT ![e] = "absent"] /\ things' = things
  BY DEF TypeOK, owners, things, Stage, NoCR
<1>2. ASSUME NEW o \in things
      PROVE  (o[2] \cap { f \in Envs : Held(f) }) \ {e} # {}
  <2>1. PICK k \in Finalized, f \in Envs : o = Obj(k, f)
    BY <1>2 DEF things, OwnedThings
  <2>2. objects'[Obj(k, f)].state = "live"
    BY <1>2, <2>1 DEF things
  <2>3. PICK g \in Sharers(k, f) : Held(g)'
    BY <2>2 DEF NoOrphans
  <2>4. g \in Envs /\ g \in o[2]
    BY <2>1 DEF Obj, Sharers
  <2>5. g # e
    BY <2>3 DEF TypeOK, Held, NoCR
  <2>6. Held(g)
    BY <2>3, <2>4, <2>5 DEF TypeOK, Held
  <2> QED BY <2>4, <2>5, <2>6
<1>3. Ownership!Moves(e, "leaving", "absent")
  BY <1>1 DEF Ownership!Moves, owners, things
<1>4. Ownership!Release(e)
  BY <1>2, <1>3, HoldersAre DEF Ownership!Release, things
<1>5. DeletingKept'
  BY DEF TypeOK, DeletingKept, NoCR
<1> QED BY <1>4, <1>5 DEF Owns, OwnerStep, Ownership!Next

(* An object is stored: a thing is made for a holder, destroyed, or as it  *)
(* was.                                                                    *)
LEMMA Storing ==
  ASSUME TypeOK, DeletingKept, NEW o \in Objects, NEW r \in Resources,
         StoreObject(o, r), stored' = stored,
         r.state = "live" => \/ objects[o].state = "live"
                             \/ \E e \in Envs : e \in o[2] /\ Held(e)
  PROVE  Owns
<1>0. DeletingKept'
  BY DEF DeletingKept
<1> SUFFICES OwnerStep
  BY <1>0 DEF Owns
<1>1. owners' = owners
  BY DEF owners
<1>2. CASE things' = things
  BY <1>1, <1>2 DEF OwnerStep
<1>3. CASE things' # things
  <2>1. objects' = [objects EXCEPT ![o] = r]
    BY <1>3 DEF StoreObject, things
  <2>2. o \in OwnedThings
    BY <1>3, <2>1 DEF TypeOK, things
  <2>3. o \in Ownership!Things
    BY <2>2 DEF Ownership!Things
  <2>4. CASE r.state = "live"
    <3>1. things' = things \cup {o}
      BY <2>1, <2>2, <2>4, ThingTypes DEF TypeOK, things
    <3>2. objects[o].state # "live"
      BY <1>3, <2>2, <3>1 DEF things
    <3>3. o[2] \cap Ownership!Holders # {}
      BY <2>4, <3>2, HoldersAre
    <3>4. Ownership!Make(o)
      BY <1>1, <2>2, <3>1, <3>3 DEF Ownership!Make, owners, things
    <3> QED BY <2>3, <3>4 DEF OwnerStep, Ownership!Next
  <2>5. CASE r.state # "live"
    <3>1. things' = things \ {o}
      BY <2>1, <2>2, <2>5, ThingTypes DEF TypeOK, things
    <3>2. Ownership!Destroy(o)
      BY <1>1, <3>1 DEF Ownership!Destroy, owners, things
    <3> QED BY <2>3, <3>2 DEF OwnerStep, Ownership!Next
  <2> QED BY <2>4, <2>5
<1> QED BY <1>2, <1>3

LEMMA Resting ==
  ASSUME DeletingKept, UNCHANGED << stored, objects >>
  PROVE  Owns
BY DEF Owns, OwnerStep, DeletingKept, owners, things

-----------------------------------------------------------------------------
(* The steps of Reconcile and of users that store an environment.          *)

LEMMA AppendFinalizerOwns ==
  ASSUME TypeOK, DeletingKept, worker.pc # "idle", NEW cr \in CRs, cr.exists,
         cr = stored[worker.env], AppendFinalizer(cr)
  PROVE  Owns
<1> DEFINE new == [cr EXCEPT !.finalizers = @ + 1]
<1>1. worker.env \in Envs
  BY DEF TypeOK
<1>2. /\ new \in CRs /\ new.exists /\ new.finalizers # 0
      /\ new.deleting = cr.deleting
  <2>1. cr.finalizers \in Nat /\ new.finalizers = cr.finalizers + 1
    BY DEF CRs
  <2>2. cr.finalizers + 1 \in Nat /\ cr.finalizers + 1 # 0
    BY <2>1
  <2>3. new \in CRs /\ new.exists /\ new.deleting = cr.deleting
    BY <2>2 DEF CRs
  <2> HIDE DEF new
  <2> QED BY <2>1, <2>2, <2>3
<1>3. /\ stored' = [stored EXCEPT ![worker.env] = new]
      /\ objects' = objects
  BY DEF AppendFinalizer, Store
<1>4. CASE cr.finalizers = 0
  <2>1. ~cr.deleting
    BY <1>1, <1>4 DEF DeletingKept, Stage
  <2>2. Stage(cr) = "present" /\ Stage(new) = "holding"
    BY <1>2, <1>4, <2>1 DEF Stage
  <2> HIDE DEF new
  <2> QED BY <1>1, <1>2, <1>3, <2>1, <2>2, Moving DEF Onward
<1>5. CASE cr.finalizers # 0
  <2>1. Stage(new) = Stage(cr)
    BY <1>2, <1>5 DEF Stage
  <2>2. cr.deleting => Stage(cr) = "leaving"
    BY <1>1 DEF DeletingKept
  <2> HIDE DEF new
  <2> QED BY <1>1, <1>2, <1>3, <2>1, <2>2, Moving
<1> QED BY <1>4, <1>5

LEMMA FinalizerOwns ==
  ASSUME NoOrphansInv, DeletingKept, AddFinalizer \/ RefetchFinalizer
  PROVE  Owns
<1>1. TypeOK /\ FreshCopies /\ ReadsExisting
  BY DEF NoOrphansInv
<1>2. /\ worker.pc # "idle" /\ worker.env \in Envs
      /\ worker.cr \in CRs /\ cache[worker.env].cr \in CRs
  BY <1>1 DEF AddFinalizer, RefetchFinalizer, TypeOK, Workers, Copies
<1>3. CASE \/ AppendFinalizer(worker.cr) /\ worker.fresh
           \/ /\ AppendFinalizer(cache[worker.env].cr)
              /\ cache[worker.env].fresh /\ cache[worker.env].cr.exists
  BY <1>1, <1>2, <1>3, AppendFinalizerOwns DEF FreshCopies, ReadsExisting
<1>4. CASE UNCHANGED << stored, objects >>
  BY <1>4, Resting
<1> QED BY <1>3, <1>4
        DEF AddFinalizer, RefetchFinalizer, UpdateAnswer, GoTo, Abort

LEMMA UpdateStatusOwns ==
  ASSUME NoOrphansInv, DeletingKept, UpdateStatus
  PROVE  Owns
<1> DEFINE new == [worker.cr EXCEPT !.phase = "Ready"]
<1>1. TypeOK /\ FreshCopies
  BY DEF NoOrphansInv
<1>2. worker.pc # "idle" /\ worker.env \in Envs /\ worker.cr \in CRs
  BY <1>1 DEF UpdateStatus, TypeOK, Workers
<1>3. /\ new \in CRs /\ new.exists = worker.cr.exists
      /\ new.finalizers = worker.cr.finalizers
      /\ new.deleting = worker.cr.deleting
  BY <1>2 DEF CRs
<1>4. Stage(new) = Stage(worker.cr)
  BY <1>3 DEF Stage
<1>5. CASE Store(worker.env, new) /\ worker.fresh /\ objects' = objects
  <2>1. stored' = [stored EXCEPT ![worker.env] = new]
    BY <1>5 DEF Store
  <2>2. stored[worker.env] = worker.cr
    BY <1>1, <1>2, <1>5 DEF FreshCopies
  <2>3. worker.cr.deleting => Stage(worker.cr) = "leaving"
    BY <1>2, <2>2 DEF DeletingKept
  <2> HIDE DEF new
  <2> QED BY <1>1, <1>2, <1>3, <1>4, <1>5, <2>1, <2>2, <2>3, Moving
<1>6. CASE UNCHANGED << stored, objects >>
  BY <1>6, Resting
<1> QED BY <1>5, <1>6 DEF UpdateStatus, StatusAnswer, Abort

LEMMA RemoveFinalizerOwns ==
  ASSUME NoOrphansInv, NoOrphansInv', DeletingKept, RemoveFinalizer
  PROVE  Owns
<1>1. TypeOK /\ FreshCopies /\ ReadsExisting /\ TypeOK' /\ NoOrphans'
  BY DEF NoOrphansInv
<1>2. worker.pc = "removeFinalizer" /\ worker.env \in Envs
  BY <1>1 DEF RemoveFinalizer, TypeOK
<1>3. CASE Store(worker.env, NoCR) /\ worker.fresh /\ objects' = objects
  <2>1. stored' = [stored EXCEPT ![worker.env] = NoCR]
    BY <1>3 DEF Store
  <2>2. stored[worker.env].deleting
    BY <1>1, <1>2, <1>3 DEF FreshCopies, ReadsExisting
  <2>4. Stage(stored[worker.env]) = "leaving"
    BY <1>2, <2>2 DEF DeletingKept
  <2> QED BY <1>1, <1>2, <1>3, <2>1, <2>4, Releasing
<1>4. CASE UNCHANGED << stored, objects >>
  BY <1>4, Resting
<1> QED BY <1>3, <1>4 DEF RemoveFinalizer, RemoveString, UpdateAnswer, Abort

LEMMA UserOwns ==
  ASSUME TypeOK, DeletingKept, NEW e \in Envs,
         (\E s \in Specs : CreateCR(e, s) \/ EditSpec(e, s)) \/ DeleteCR(e)
  PROVE  Owns
<1>1. ASSUME NEW cr \in CRs, UserWrites(e, cr)
      PROVE  stored' = [stored EXCEPT ![e] = cr] /\ objects' = objects
  BY <1>1 DEF UserWrites, Store
<1>2. stored[e] \in CRs /\ NoCR \in CRs
  BY NoCRType DEF TypeOK
<1>3. ASSUME NEW s \in Specs, CreateCR(e, s) PROVE Owns
  <2> DEFINE cr == [NoCR EXCEPT !.exists = TRUE, !.spec = s]
  <2>1. /\ cr \in CRs /\ ~cr.deleting /\ Stage(cr) = "present"
        /\ Stage(stored[e]) = "absent"
    BY <1>3 DEF CRs, NoCR, Stage, CreateCR
  <2>2. UserWrites(e, cr)
    BY <1>3 DEF CreateCR
  <2> HIDE DEF cr
  <2> QED BY <1>1, <2>1, <2>2, Moving DEF Onward
<1>4. ASSUME NEW s \in Specs, EditSpec(e, s) PROVE Owns
  <2> DEFINE cr == [stored[e] EXCEPT !.spec = s]
  <2>1. /\ cr \in CRs /\ Stage(cr) = Stage(stored[e])
        /\ cr.deleting => Stage(stored[e]) = "leaving"
    BY <1>2 DEF CRs, Stage, DeletingKept
  <2>2. UserWrites(e, cr)
    BY <1>4 DEF EditSpec
  <2> HIDE DEF cr
  <2> QED BY <1>1, <2>1, <2>2, Moving
<1>5. CASE DeleteCR(e) /\ stored[e].finalizers = 0
  <2>1. /\ Stage(stored[e]) = "present" /\ Stage(NoCR) = "absent"
        /\ ~NoCR.deleting
    BY <1>5 DEF DeleteCR, Stage, NoCR
  <2>2. UserWrites(e, NoCR)
    BY <1>5 DEF DeleteCR
  <2> QED BY <1>1, <1>2, <2>1, <2>2, Moving DEF Onward
<1>6. CASE DeleteCR(e) /\ stored[e].finalizers # 0
  <2> DEFINE cr == [stored[e] EXCEPT !.deleting = TRUE]
  <2>1. /\ cr \in CRs /\ Stage(cr) = "leaving"
        /\ Stage(stored[e]) = "holding"
    BY <1>2, <1>6 DEF CRs, Stage, DeleteCR
  <2>2. UserWrites(e, cr)
    BY <1>6 DEF DeleteCR
  <2> HIDE DEF cr
  <2> QED BY <1>1, <2>1, <2>2, Moving DEF Onward
<1> QED BY <1>3, <1>4, <1>5, <1>6

-----------------------------------------------------------------------------
(* The steps that write objects.                                           *)

LEMMA WriteObjectOwns ==
  ASSUME NoOrphansInv, DeletingKept, NEW k \in Kinds, WriteObject(k),
         worker.pc \in {"ensure", "update"}
  PROVE  Owns
<1>1. TypeOK /\ Held(worker.env) /\ worker.env \in Envs
  BY DEF NoOrphansInv, ProvisionsHeld, TypeOK
<1>2. Obj(k, worker.env) \in Objects /\ worker.env \in Obj(k, worker.env)[2]
  BY <1>1, ObjType, SharersReflexive DEF Obj
<1>3. worker.cr.spec \in Specs \cup {None}
  BY <1>1 DEF TypeOK, Workers, CRs
<1>4. Wanted(k) \in Resources
  BY <1>3 DEF Wanted, Resources, Render, Contents
<1> QED BY <1>1, <1>2, <1>4, Storing DEF WriteObject

LEMMA ProvisionOwns ==
  ASSUME NoOrphansInv, DeletingKept, NEW k \in Kinds,
         \/ EnsureByGet(k) \/ EnsureByCreate(k)
         \/ UpdateExisting(k) \/ DatabasePanic(k)
  PROVE  Owns
<1>1. CASE WriteObject(k) /\ worker.pc \in {"ensure", "update"}
  BY <1>1, WriteObjectOwns
<1>2. CASE UNCHANGED << stored, objects >>
  BY <1>2, Resting
<1> QED BY <1>1, <1>2 DEF EnsureByGet, EnsureByCreate, UpdateExisting,
           DatabasePanic, Provisioning, GoTo, Abort

(* Deletions by finalization or by others, other changes, and the end of a *)
(* termination bring nothing to life.                                      *)
LEMMA DeletionOwns ==
  ASSUME TypeOK, DeletingKept, NEW o \in Objects, stored' = stored,
         \/ \E k \in Kinds : StoreObject(o, Remains(k, o))
         \/ StoreObject(o, [objects[o] EXCEPT !.content = "tampered"])
         \/ StoreObject(o, NoResource)
  PROVE  Owns
<1>1. objects[o] \in Resources
  BY DEF TypeOK
<1>2. ASSUME NEW r \in Resources, StoreObject(o, r),
             r.state = "live" => objects[o].state = "live"
      PROVE  Owns
  BY <1>2, Storing
<1>3. ASSUME NEW k \in Kinds
      PROVE  Remains(k, o) \in Resources /\ Remains(k, o).state # "live"
  BY <1>1, RemainsType DEF Remains, NoResource, Resources
<1>4. LET r == [objects[o] EXCEPT !.content = "tampered"]
      IN  r \in Resources /\ r.state = objects[o].state
  BY <1>1 DEF Resources, Contents
<1>5. NoResource \in Resources /\ NoResource.state # "live"
  BY DEF NoResource, Resources, Contents
<1> QED BY <1>2, <1>3, <1>4, <1>5

LEMMA FinalizeObjectOwns ==
  ASSUME NoOrphansInv, DeletingKept, NEW k \in Finalized, FinalizeObject(k)
  PROVE  Owns
<1>1. TypeOK /\ k \in Kinds /\ worker.env \in Envs
  BY FinalizedKinds DEF NoOrphansInv, TypeOK, FinalizeObject
<1> QED BY <1>1, ObjType, DeletionOwns DEF FinalizeObject

-----------------------------------------------------------------------------
(* Every step of the operator and its surroundings is one of the owners,   *)
(* or none.                                                                *)
LEMMA NextOwns ==
  ASSUME NoOrphansInv, NoOrphansInv', DeletingKept, [Next]_vars
  PROVE  Owns
<1>1. TypeOK
  BY DEF NoOrphansInv
<1>2. CASE ReconcileStep
  BY <1>2, FinalizerOwns, UpdateStatusOwns, ProvisionOwns, FinalizeObjectOwns,
     RemoveFinalizerOwns DEF ReconcileStep
<1>3. CASE \E e \in Envs :
             (\E s \in Specs : CreateCR(e, s) \/ EditSpec(e, s)) \/ DeleteCR(e)
  BY <1>1, <1>3, UserOwns
<1>4. CASE \/ \E k \in Kinds : \E e \in Envs : Tamper(k, Obj(k, e))
           \/ \E o \in Objects : TerminationCompletes(o)
  BY <1>1, <1>4, ObjType, DeletionOwns DEF Tamper, TerminationCompletes
<1>5. CASE UNCHANGED << stored, objects >>
  BY <1>5, Resting
<1> QED BY <1>2, <1>3, <1>4, <1>5
        DEF Next, StartReconcile, APIError, Environment, SyncCR, TimerFires,
            SyncObject, Restart, vars

LEMMA InitOwns == Init => Ownership!Init /\ DeletingKept
<1> SUFFICES ASSUME Init PROVE Ownership!Init /\ DeletingKept
  OBVIOUS
<1>1. owners = [e \in Envs |-> "absent"] /\ things = {}
  BY ThingTypes DEF Init, owners, things, Stage, NoCR, NoResource
<1> QED BY <1>1 DEF Ownership!Init, owners, things, Init, DeletingKept, NoCR

(* The operator, with all of its conflicts, lost answers, stale lists,     *)
(* restarts and users, implements owners that leave nothing unheld behind. *)
THEOREM ImplementsOwnership == Spec => OwnershipSpec
<1>1. NoOrphansInv /\ NoOrphansInv' /\ DeletingKept /\ [Next]_vars
        => DeletingKept' /\ [Ownership!Next]_<< owners, things >>
  BY NextOwns DEF Owns, OwnerStep
<1>2. [Ownership!Next]_<< owners, things >>
        => [Ownership!Next]_<< [e \in Envs |-> Stage(stored[e])],
                               { o \in OwnedThings : objects[o].state = "live" } >>
  BY DEF owners, things
<1> QED BY InitOwns, InvCorrect, <1>1, <1>2, PTL
        DEF Spec, OwnershipSpec, Ownership!Spec
=============================================================================

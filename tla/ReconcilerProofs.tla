-------------------------- MODULE ReconcilerProofs --------------------------
(***************************************************************************)
(* Theorems about Reconciler, for every number of replicas, references,    *)
(* generations and failovers.                                              *)
(***************************************************************************)
EXTENDS Reconciler, TLAPS

\* The empty object is an object.
LEMMA GoneType == Gone \in Object /\ NoCondition \in Conditions /\ Idle \in Work
<1>1. NoCondition \in Conditions
  BY Zenon DEF NoCondition, Conditions
<1>2. Gone \in Object
  BY <1>1, ConstantsAssumption DEF Gone, Object
<1>3. QED
  BY Zenon, <1>1, <1>2 DEF Idle, Work, Results

\* A write keeps the types of the object and of the set of fresh replicas.
LEMMA StoreType ==
  ASSUME TypeOK, NEW o \in Object, Store(o)
  PROVE  obj' \in Object /\ fresh' \subseteq Replicas
BY Zenon, GoneType DEF TypeOK, Store, Settled

\* Any condition handleReconcileCondition derives is one of the vocabulary.
LEMMA ConditionType ==
  ASSUME NEW result, NEW deprovision \in BOOLEAN
  PROVE  Condition(result, deprovision) \in Conditions
BY Zenon DEF Condition, Conditions

\* A foreign write keeps the types.
LEMMA ForeignType ==
  ASSUME TypeOK, NEW o \in Object, Foreign(o), references' \in 0..MaxReferences
  PROVE  TypeOK'
<1>1. obj' \in Object /\ fresh' \subseteq Replicas
  BY Zenon, StoreType DEF Foreign
<1>2. work' \in Work
  BY Zenon DEF Foreign, TypeOK, Work
<1>3. QED
  BY Zenon, <1>1, <1>2 DEF Foreign, TypeOK

\* The end of a reconcile, and a move within it, keep the types.
LEMMA WorkType ==
  ASSUME TypeOK, Done \/ Requeue \/ Goto("release")
  PROVE  work' \in Work /\ delayed' \in BOOLEAN
BY Zenon, GoneType DEF TypeOK, Done, Requeue, Goto, Work

\* The rest of a reconcile is one of these.
LEMMA ProceedCases ==
  ASSUME Proceed
  PROVE  Done \/ Requeue \/ Goto("release")
BY Zenon DEF Proceed

\* The objects the reconciler writes are well typed.
LEMMA WrittenType ==
  ASSUME TypeOK
  PROVE  Finalized \in Object /\ Conditioned \in Object /\ Released \in Object
<1>1. work.copy \in Object /\ Unikorn \in Finalizers
  BY Zenon DEF TypeOK, Work, Finalizers
<1>2. Finalized \in Object
  BY Zenon, <1>1 DEF Finalized, Object
<1>3. Conditioned \in Object
  <2>1. work.copy.deleting \in BOOLEAN
    BY Zenon, <1>1 DEF Object
  <2>2. Condition(work.result, Deprovisioning) \in Conditions
    BY Zenon, <2>1, ConditionType DEF Deprovisioning
  <2>3. QED
    BY Zenon, <1>1, <2>2 DEF Conditioned, Object
<1>4. Released \in Object
  BY Zenon, <1>1 DEF Released, Object
<1>5. QED
  BY Zenon, <1>2, <1>3, <1>4

\* A write of the reconciler that fails keeps the types.
LEMMA WriteFailsType ==
  ASSUME TypeOK, NEW o \in Object, WriteFails(o)
  PROVE  TypeOK'
<1>1. obj' \in Object /\ fresh' \subseteq Replicas
  BY Zenon, StoreType DEF WriteFails, TypeOK
<1>2. work' \in Work /\ delayed' \in BOOLEAN
  BY Zenon, WorkType DEF WriteFails
<1>3. QED
  BY Zenon, <1>1, <1>2 DEF WriteFails, TypeOK

\* What Provision and Deprovision make of the world is well typed.
LEMMA WorldType ==
  /\ [exists |-> FALSE, gen |-> 0] \in World
  /\ \A gen \in 0..MaxGen : [exists |-> TRUE, gen |-> gen] \in World
  /\ \A w \in World : [w EXCEPT !.exists = TRUE] \in World /\ [w EXCEPT !.gen = 0] \in World
<1>1. 0 \in 0..MaxGen
  BY ConstantsAssumption
<1>2. QED
  BY Zenon, <1>1 DEF World

\* Every step of Reconciler preserves the types.
LEMMA TypeStep ==
  ASSUME TypeOK, [Next]_vars
  PROVE  TypeOK'
<1>1. CASE User
  <2>1. ASSUME NEW paused \in BOOLEAN, UpdateSpec(paused) PROVE TypeOK'
    <3>1. obj \in Object /\ obj.gen + 1 \in 0..MaxGen
      BY <2>1, ConstantsAssumption DEF UpdateSpec, TypeOK, Object
    <3>2. [obj EXCEPT !.gen = @ + 1, !.paused = paused] \in Object
      BY Zenon, <3>1 DEF Object
    <3>3. QED
      BY Zenon, <2>1, <3>2, ForeignType DEF UpdateSpec, TypeOK
  <2>2. ASSUME NEW dependents \in SUBSET {Foreground}, Delete(dependents) PROVE TypeOK'
    <3>1. [obj EXCEPT !.deleting = TRUE, !.finalizers = @ \cup dependents] \in Object
      BY Zenon, <2>2 DEF Delete, TypeOK, Object, Finalizers
    <3>2. QED
      BY Zenon, <2>2, <3>1, ForeignType DEF Delete, TypeOK
  <2>3. QED
    BY Zenon, <1>1, <2>1, <2>2 DEF User
<1>2. CASE Others
  <2>1. CASE GarbageCollect
    <3>1. [obj EXCEPT !.finalizers = @ \ {Foreground}] \in Object
      BY Zenon DEF TypeOK, Object
    <3>2. QED
      BY Zenon, <2>1, <3>1, ForeignType DEF GarbageCollect, TypeOK
  <2>2. ASSUME NEW h \in Holders, AddReference(h) PROVE TypeOK'
    <3>1. [obj EXCEPT !.finalizers = @ \cup {h}] \in Object
      BY Zenon DEF TypeOK, Object, Finalizers
    <3>2. references' \in 0..MaxReferences
      BY <2>2, ConstantsAssumption DEF AddReference, TypeOK
    <3>3. QED
      BY Zenon, <2>2, <3>1, <3>2, ForeignType DEF AddReference
  <2>3. ASSUME NEW h \in Holders, RemoveReference(h) PROVE TypeOK'
    <3>1. [obj EXCEPT !.finalizers = @ \ {h}] \in Object
      BY Zenon DEF TypeOK, Object
    <3>2. QED
      BY Zenon, <2>3, <3>1, ForeignType DEF RemoveReference, TypeOK
  <2>4. QED
    BY Zenon, <1>2, <2>1, <2>2, <2>3 DEF Others
<1>3. ASSUME NEW r \in Replicas, Notify(r) PROVE TypeOK'
  <2>1. queued' \in BOOLEAN
    BY Zenon, <1>3 DEF Notify
  <2>2. lister' \in [Replicas -> Object] /\ fresh' \subseteq Replicas
    BY Zenon, <1>3 DEF Notify, TypeOK
  <2>3. QED
    BY Zenon, <1>3, <2>1, <2>2 DEF Notify, TypeOK
<1>4. ASSUME NEW r \in Replicas, Failover(r) PROVE TypeOK'
  <2>1. lister' \in [Replicas -> Object] /\ fresh' \subseteq Replicas
    BY Zenon, <1>4 DEF Failover, TypeOK
  <2>2. queued' \in BOOLEAN
    BY Zenon, <1>4, <2>1 DEF Failover, Object
  <2>3. failovers' \in 0..MaxFailovers
    BY <1>4, ConstantsAssumption DEF Failover, TypeOK
  <2>4. QED
    BY Zenon, <1>4, <2>1, <2>2, <2>3, GoneType DEF Failover, TypeOK
<1>5. CASE RequeueFires
  BY Zenon, <1>5 DEF RequeueFires, TypeOK
<1>6. CASE Worker
  <2>1. CASE Dequeue
    BY Zenon, <2>1 DEF Dequeue, TypeOK, Work
  <2>2. CASE GetFails
    BY Zenon, <2>2, WorkType DEF GetFails, TypeOK
  <2>3. CASE Reconcile
    <3>1. lister[leader] \in Object /\ (leader \in fresh) \in BOOLEAN
      BY DEF TypeOK
    <3>2. ASSUME NEW at \in {"finalize", "provision", "deprovision", "status"}, NEW result \in {"nil", "yield"}
          PROVE  [at |-> at, copy |-> lister[leader], current |-> leader \in fresh, result |-> result] \in Work
      BY Zenon, <3>1 DEF Work, Results
    <3>3. work' \in Work
      BY Zenon, <2>3, <3>2, GoneType DEF Reconcile
    <3>4. QED
      BY Zenon, <2>3, <3>3 DEF Reconcile, TypeOK
  <2>4. CASE AddFinalizer
    <3>1. obj' \in Object /\ fresh' \subseteq Replicas
      BY Zenon, <2>4, StoreType, WrittenType DEF AddFinalizer
    <3>2. work' \in Work
      BY Zenon, <2>4, WrittenType DEF AddFinalizer, TypeOK, Work
    <3>3. QED
      BY Zenon, <2>4, <3>1, <3>2 DEF AddFinalizer, TypeOK
  <2>5. CASE AddFinalizerFails
    BY Zenon, <2>5, WriteFailsType, WrittenType DEF AddFinalizerFails
  <2>6. ASSUME NEW result \in Results, Returns(result) PROVE work' \in Work /\ delayed' \in BOOLEAN
    <3>1. CASE result # "panic"
      BY Zenon, <2>6, <3>1 DEF Returns, TypeOK, Work
    <3>2. CASE result = "panic"
      BY Zenon, <2>6, <3>2, WorkType DEF Returns
    <3>3. QED
      BY Zenon, <3>1, <3>2
  <2>7. ASSUME NEW result \in Results, Provision(result) PROVE TypeOK'
    <3>1. work.copy.gen \in 0..MaxGen
      BY Zenon DEF TypeOK, Work, Object
    <3>2. world' \in World
      BY Zenon, <2>7, <3>1, WorldType DEF Provision, TypeOK
    <3>3. QED
      BY Zenon, <2>6, <2>7, <3>2 DEF Provision, Returns, TypeOK
  <2>8. ASSUME NEW result \in Results, Deprovision(result) PROVE TypeOK'
    <3>1. world' \in World
      BY Zenon, <2>8, WorldType DEF Deprovision, TypeOK
    <3>2. QED
      BY Zenon, <2>6, <2>8, <3>1 DEF Deprovision, Returns, TypeOK
  <2>9. CASE KeepCondition
    BY Zenon, <2>9, ProceedCases, WorkType DEF KeepCondition, TypeOK
  <2>10. CASE UpdateStatus
    <3>1. obj' \in Object /\ fresh' \subseteq Replicas
      BY Zenon, <2>10, StoreType, WrittenType DEF UpdateStatus
    <3>2. work' \in Work /\ delayed' \in BOOLEAN
      <4>1. CASE Conditioned.cond # work.copy.cond
        BY Zenon, <2>10, <4>1, WrittenType DEF UpdateStatus, TypeOK, Work
      <4>2. CASE Conditioned.cond = work.copy.cond
        BY Zenon, <2>10, <4>2, ProceedCases, WorkType DEF UpdateStatus
      <4>3. QED
        BY Zenon, <4>1, <4>2
    <3>3. QED
      BY Zenon, <2>10, <3>1, <3>2 DEF UpdateStatus, TypeOK
  <2>11. CASE UpdateStatusFails
    BY Zenon, <2>11, WriteFailsType, WrittenType DEF UpdateStatusFails
  <2>12. CASE Emit
    <3>1. logged' \in Conditions
      BY Zenon, <2>12 DEF Emit, TypeOK, Work, Object
    <3>2. QED
      BY Zenon, <2>12, <3>1, ProceedCases, WorkType DEF Emit, TypeOK
  <2>13. CASE RemoveFinalizer
    <3>1. obj' \in Object /\ fresh' \subseteq Replicas
      BY Zenon, <2>13, StoreType, WrittenType DEF RemoveFinalizer
    <3>2. QED
      BY Zenon, <2>13, <3>1, WorkType DEF RemoveFinalizer, TypeOK
  <2>14. CASE RemoveFinalizerFails
    BY Zenon, <2>14, WriteFailsType, WrittenType DEF RemoveFinalizerFails
  <2>15. QED
    BY Zenon, <1>6, <2>1, <2>2, <2>3, <2>4, <2>5, <2>7, <2>8, <2>9, <2>10, <2>11, <2>12, <2>13, <2>14
    DEF Worker
<1>7. CASE Calm
  BY Zenon, <1>7 DEF Calm, TypeOK
<1>8. CASE UNCHANGED vars
  BY Zenon, <1>8 DEF vars, TypeOK
<1>9. QED
  BY Zenon, <1>1, <1>2, <1>3, <1>4, <1>5, <1>6, <1>7, <1>8 DEF Next

\* Every state of Reconciler is well typed.
THEOREM TypeCorrect == Spec => []TypeOK
<1>1. Init => TypeOK
  <2> SUFFICES ASSUME Init PROVE TypeOK
    BY Zenon
  <2>2. obj \in Object
    <3>1. 1 \in 0..MaxGen
      BY ConstantsAssumption
    <3>2. [Gone EXCEPT !.exists = TRUE, !.gen = 1] \in Object
      BY Zenon, <3>1, GoneType DEF Object
    <3>3. QED
      BY Zenon, <3>2 DEF Init
  <2>3. world \in World
    BY Zenon, WorldType DEF Init
  <2>4. references \in 0..MaxReferences /\ failovers \in 0..MaxFailovers
    BY ConstantsAssumption DEF Init
  <2>5. QED
    BY Zenon, <2>2, <2>3, <2>4, GoneType DEF Init, TypeOK
<1>2. TypeOK /\ [Next]_vars => TypeOK'
  BY Zenon, TypeStep
<1>3. QED
  BY <1>1, <1>2, PTL DEF Spec
-----------------------------------------------------------------------------
(***************************************************************************)
(* The inductive invariant behind the safety theorems.                     *)
(***************************************************************************)
\* What the API server never stores otherwise.
Normal(o) ==
  /\ o.exists => o.gen > 0
  /\ ~o.exists => o.finalizers = {} /\ ~o.deleting
  /\ o.deleting => o.finalizers # {}

\* Copy o shows a deletion and b is the resource later: the deletion has not
\* been undone, and nobody has put a finalizer on the resource since.
Follows(o, b) ==
  o.deleting => /\ b.exists => b.deleting
                /\ b.finalizers \ {Unikorn} \subseteq o.finalizers

\* A step from b to c does neither of these.
Evolves(b, c) ==
  b.deleting \/ ~b.exists => /\ c.exists => c.deleting
                             /\ c.finalizers \ {Unikorn} \subseteq b.finalizers

\* The version bookkeeping: equal resourceVersions mean equal content.
Versioned ==
  /\ Normal(obj)
  /\ work.current => work.copy = obj
  /\ \A r \in fresh : lister[r] = obj
  /\ \A r \in Replicas : Normal(lister[r]) /\ Follows(lister[r], obj)
  /\ Follows(work.copy, obj)

\* What the reconcile in progress has established at each of its points.
Staged ==
  /\ work.at \notin {"idle", "get"} => work.copy.exists
  /\ work.at \in {"finalize", "provision"} => ~work.copy.deleting /\ work.copy.gen > 0
  /\ work.at = "deprovision" => work.copy.deleting /\ ~Awaited(work.copy)
  /\ work.at \in {"status", "emit"} /\ work.copy.deleting /\ work.result = "nil" => ~world.exists
  /\ work.at \in {"status", "emit"} /\ ~work.copy.deleting /\ work.result = "nil" => world.gen > 0
  /\ work.at = "release" => work.copy.deleting /\ ~world.exists
  /\ work.at = "emit" /\ obj.exists => obj.cond = work.copy.cond

SafetyInv == Versioned /\ Staged /\ ReadyMeansProvisioned

\* With one replica: a cached copy that shows our finalizer and no deletion is
\* right about the finalizer, also while a teardown is under way.
Held ==
  /\ \A r \in Replicas : ~lister[r].deleting /\ Unikorn \in lister[r].finalizers =>
       Unikorn \in obj.finalizers
  /\ work.copy.deleting =>
       \A r \in Replicas : lister[r].deleting \/ Unikorn \notin lister[r].finalizers
  /\ NoOrphans

\* Follows extends along a step.
LEMMA FollowsStep ==
  ASSUME NEW o \in Object, NEW b \in Object, NEW c \in Object, Follows(o, b), Evolves(b, c)
  PROVE  Follows(o, c)
BY Zenon DEF Follows, Evolves, Object

\* Nothing happens to a resource that is left alone.
LEMMA EvolvesSelf ==
  ASSUME NEW b \in Object, Normal(b)
  PROVE  Evolves(b, b) /\ Follows(b, b)
BY Zenon DEF Evolves, Follows, Normal, Object

\* A write that keeps a deletion and adds no finalizer to it.
LEMMA SettledEvolves ==
  ASSUME NEW b \in Object, NEW o \in Object, b.exists, o.exists, o.gen > 0,
         b.deleting => o.deleting /\ o.finalizers \ {Unikorn} \subseteq b.finalizers
  PROVE  Normal(Settled(o)) /\ Evolves(b, Settled(o))
<1>1. CASE o.deleting /\ o.finalizers = {}
  BY Zenon, <1>1 DEF Settled, Gone, Normal, Evolves
<1>2. CASE ~(o.deleting /\ o.finalizers = {})
  BY Zenon, <1>2 DEF Settled, Normal, Evolves, Object
<1>3. QED
  BY Zenon, <1>1, <1>2

\* A step keeps Versioned if it evolves the resource, caches are only brought
\* up to date, and the reconcile keeps a copy it may hold.
LEMMA VersionedStep ==
  ASSUME TypeOK, TypeOK', Versioned, Normal(obj'), Evolves(obj, obj'),
         \A r \in Replicas : lister'[r] = lister[r] \/ lister'[r] = obj,
         \A r \in fresh' : lister'[r] = obj',
         work'.current => work'.copy = obj',
         Follows(work'.copy, obj) \/ Follows(work'.copy, obj')
  PROVE  Versioned'
<1>1. obj \in Object /\ obj' \in Object /\ work'.copy \in Object
  BY Zenon DEF TypeOK, Work
<1>2. Follows(work'.copy, obj')
  BY Zenon, <1>1, FollowsStep
<1>3. ASSUME NEW r \in Replicas PROVE Normal(lister'[r]) /\ Follows(lister'[r], obj')
  <2>1. lister[r] \in Object /\ Follows(lister[r], obj) /\ Follows(obj, obj)
    BY Zenon, <1>1, EvolvesSelf DEF TypeOK, Versioned
  <2>2. Follows(lister[r], obj') /\ Follows(obj, obj')
    BY Zenon, <1>1, <2>1, FollowsStep
  <2>3. QED
    BY Zenon, <2>2 DEF Versioned
<1>4. QED
  BY Zenon, <1>2, <1>3 DEF Versioned

\* A write by anybody else, which never undoes a deletion or sets a condition.
LEMMA ForeignSafe ==
  ASSUME TypeOK, TypeOK', SafetyInv, NEW o \in Object, Foreign(o),
         obj.exists, o.exists, o.gen > 0, o.cond = obj.cond,
         obj.deleting => o.deleting /\ o.finalizers \ {Unikorn} \subseteq obj.finalizers
  PROVE  SafetyInv'
<1>1. obj \in Object /\ obj' = Settled(o) /\ lister' = lister /\ world' = world
  BY Zenon DEF TypeOK, Foreign, Store
<1>2. (fresh' = fresh /\ obj' = obj) \/ fresh' = {}
  BY Zenon DEF Foreign, Store
<1>3. work'.at = work.at /\ work'.copy = work.copy /\ work'.result = work.result /\ ~work'.current
  BY Zenon DEF Foreign, TypeOK, Work
<1>4. Normal(obj') /\ Evolves(obj, obj')
  BY Zenon, <1>1, SettledEvolves
<1>5. Versioned'
  BY Zenon, <1>1, <1>2, <1>3, <1>4, VersionedStep DEF SafetyInv, Versioned
<1>6. obj'.exists => obj'.cond = obj.cond /\ obj'.deleting = o.deleting
  BY Zenon, <1>1 DEF Settled, Gone
<1>7. Staged'
  BY Zenon, <1>1, <1>3, <1>6 DEF SafetyInv, Staged
<1>8. ReadyMeansProvisioned'
  BY Zenon, <1>1, <1>6 DEF SafetyInv, ReadyMeansProvisioned
<1>9. QED
  BY Zenon, <1>5, <1>7, <1>8 DEF SafetyInv

\* What the reconciler's writes change in its copy.
LEMMA WrittenFields ==
  ASSUME TypeOK
  PROVE  /\ \A o \in {Finalized, Conditioned, Released} :
              /\ o.exists = work.copy.exists
              /\ o.gen = work.copy.gen
              /\ o.deleting = work.copy.deleting
              /\ o.finalizers \ {Unikorn} \subseteq work.copy.finalizers
         /\ Finalized.cond = work.copy.cond
         /\ Released.cond = work.copy.cond
         /\ Conditioned.cond = Condition(work.result, work.copy.deleting)
         /\ Conditioned.finalizers = work.copy.finalizers
         /\ Conditioned.cond = work.copy.cond => Conditioned = work.copy
         /\ Unikorn \in Finalized.finalizers
<1>1. work.copy \in Object
  BY Zenon DEF TypeOK, Work
<1>2. QED
  BY Zenon, <1>1 DEF Finalized, Conditioned, Released, Deprovisioning, Object

\* Only success on the provision path reads Provisioned.
LEMMA ProvisionedCondition ==
  ASSUME NEW result, NEW deprovision \in BOOLEAN,
         Condition(result, deprovision).reason = "Provisioned"
  PROVE  result = "nil" /\ ~deprovision
BY Zenon DEF Condition

\* A write of the reconciler that carries the latest version.
LEMMA OwnWrite ==
  ASSUME TypeOK, SafetyInv, work.current, work.at \notin {"idle", "get"},
         NEW o \in {Finalized, Conditioned, Released}, Store(o)
  PROVE  /\ Normal(obj')
         /\ Evolves(obj, obj')
         /\ obj' = Settled(o)
         /\ obj = work.copy
         /\ \A r \in fresh' : lister[r] = obj'
<1>1. obj \in Object /\ o \in Object /\ obj = work.copy /\ obj.exists
  BY Zenon, WrittenType DEF TypeOK, SafetyInv, Versioned, Staged
<1>2. obj.gen > 0
  BY Zenon, <1>1 DEF SafetyInv, Versioned, Normal
<1>3. o.exists /\ o.gen > 0 /\ (obj.deleting => o.deleting /\ o.finalizers \ {Unikorn} \subseteq obj.finalizers)
  BY Zenon, <1>1, <1>2, WrittenFields
<1>4. Normal(Settled(o)) /\ Evolves(obj, Settled(o))
  BY Zenon, <1>1, <1>3, SettledEvolves
<1>5. QED
  BY Zenon, <1>1, <1>4 DEF Store, SafetyInv, Versioned

\* A write that ends the reconcile, whatever the client is told about it.
LEMMA LastWriteSafe ==
  ASSUME TypeOK, TypeOK', SafetyInv, work.current, work.at \notin {"idle", "get"},
         NEW o \in {Finalized, Conditioned, Released}, Store(o),
         work.at = "status" \/ o.cond = work.copy.cond,
         work' = Idle, lister' = lister, world' = world
  PROVE  SafetyInv'
<1>1. /\ Normal(obj') /\ Evolves(obj, obj') /\ obj' = Settled(o) /\ obj = work.copy
      /\ \A r \in fresh' : lister[r] = obj'
  BY Zenon, OwnWrite
<1>2. ~work'.current /\ ~work'.copy.deleting /\ work'.at = "idle"
  BY Zenon DEF Idle, Gone
<1>3. Versioned'
  BY Zenon, <1>1, <1>2, VersionedStep DEF SafetyInv, Follows
<1>4. Staged'
  BY Zenon, <1>2 DEF Staged
<1>5. ReadyMeansProvisioned'
  <2>1. SUFFICES ASSUME obj'.exists, ~obj'.deleting, obj'.cond.reason = "Provisioned"
                 PROVE  world.gen > 0
    BY Zenon DEF ReadyMeansProvisioned
  <2>2. obj' = o /\ ~work.copy.deleting /\ work.copy.exists
    BY Zenon, <1>1, <2>1, WrittenFields DEF Settled, Gone, SafetyInv, Staged
  <2>3. CASE o.cond # work.copy.cond
    <3> o = Conditioned /\ work.at = "status"
      BY Zenon, <2>3, WrittenFields
    <3>1. work.copy.deleting \in BOOLEAN
      BY Zenon DEF TypeOK, Work, Object
    <3>2. Condition(work.result, work.copy.deleting).reason = "Provisioned"
      BY Zenon, <2>1, <2>2, <2>3, WrittenFields
    <3>3. work.result = "nil"
      BY Zenon, <3>1, <3>2, ProvisionedCondition
    <3>4. QED
      BY Zenon, <2>2, <2>3, <3>3 DEF SafetyInv, Staged
  <2>4. CASE o.cond = work.copy.cond
    BY Zenon, <1>1, <2>1, <2>2, <2>4 DEF SafetyInv, ReadyMeansProvisioned
  <2>5. QED
    BY Zenon, <2>3, <2>4
<1>6. QED
  BY Zenon, <1>3, <1>4, <1>5 DEF SafetyInv

\* A step that leaves the resource alone, given what it does to the reconcile.
LEMMA QuietSafe ==
  ASSUME TypeOK, TypeOK', SafetyInv, obj' = obj,
         \A r \in Replicas : lister'[r] = lister[r] \/ lister'[r] = obj,
         \A r \in fresh' : lister'[r] = obj,
         work'.current => work'.copy = obj,
         Follows(work'.copy, obj), Staged', ReadyMeansProvisioned'
  PROVE  SafetyInv'
<1>1. Normal(obj') /\ Evolves(obj, obj')
  BY Zenon, EvolvesSelf DEF SafetyInv, Versioned, TypeOK
<1>2. Versioned'
  BY Zenon, <1>1, VersionedStep DEF SafetyInv
<1>3. QED
  BY Zenon, <1>2 DEF SafetyInv

\* A step that only ends the reconcile, or leaves it alone.
LEMMA IdleSafe ==
  ASSUME TypeOK, TypeOK', SafetyInv, obj' = obj, world' = world,
         \A r \in Replicas : lister'[r] = lister[r] \/ lister'[r] = obj,
         \A r \in fresh' : lister'[r] = obj,
         work' = Idle \/ work' = work
  PROVE  SafetyInv'
<1>1. ReadyMeansProvisioned'
  BY Zenon DEF SafetyInv, ReadyMeansProvisioned
<1>2. CASE work' = Idle
  <2>1. ~work'.current /\ ~work'.copy.deleting /\ work'.at = "idle"
    BY Zenon, <1>2 DEF Idle, Gone
  <2>2. Staged' /\ Follows(work'.copy, obj)
    BY Zenon, <2>1 DEF Staged, Follows
  <2>3. QED
    BY Zenon, <1>1, <2>1, <2>2, QuietSafe
<1>3. CASE work' = work
  <2>1. Staged'
    BY Zenon, <1>3 DEF SafetyInv, Staged
  <2>2. QED
    BY Zenon, <1>1, <1>3, <2>1, QuietSafe DEF SafetyInv, Versioned
<1>4. QED
  BY Zenon, <1>2, <1>3

\* The end of the reconcile after Deprovision or Provision.
LEMMA ProceedSafe ==
  ASSUME TypeOK, TypeOK', SafetyInv, Proceed, work.at \in {"status", "emit"},
         obj' = obj, lister' = lister, fresh' = fresh, world' = world
  PROVE  SafetyInv'
<1>1. CASE work' = Idle
  BY Zenon, <1>1, IdleSafe DEF SafetyInv, Versioned
<1>2. CASE work' # Idle
  <2>1. work.copy.deleting /\ work.result = "nil" /\ Goto("release")
    BY Zenon, <1>2 DEF Proceed, Deprovisioning, Done, Requeue
  <2>2. /\ work'.at = "release" /\ work'.copy = work.copy /\ work'.current = work.current
        /\ work'.result = "nil"
    BY Zenon, <2>1 DEF Goto, TypeOK, Work
  <2>3. Staged'
    BY Zenon, <2>1, <2>2 DEF SafetyInv, Staged
  <2>4. ReadyMeansProvisioned'
    BY Zenon DEF SafetyInv, ReadyMeansProvisioned
  <2>5. QED
    BY Zenon, <2>2, <2>3, <2>4, QuietSafe DEF SafetyInv, Versioned
<1>3. QED
  BY Zenon, <1>1, <1>2

\* A write of the reconciler that fails, or of which the reply is lost.
LEMMA WriteFailsSafe ==
  ASSUME TypeOK, TypeOK', SafetyInv, work.at \notin {"idle", "get"},
         NEW o \in {Finalized, Conditioned, Released}, WriteFails(o),
         work.at = "status" \/ o.cond = work.copy.cond
  PROVE  SafetyInv'
<1>1. work' = Idle /\ lister' = lister /\ world' = world
  BY Zenon DEF WriteFails, Requeue
<1>2. CASE UNCHANGED <<obj, fresh>>
  BY Zenon, <1>1, <1>2, IdleSafe DEF SafetyInv, Versioned
<1>3. CASE work.current /\ Store(o)
  BY Zenon, <1>1, <1>3, LastWriteSafe
<1>4. QED
  BY Zenon, <1>2, <1>3 DEF WriteFails

\* Reading the resource from the cache.
LEMMA ReconcileSafe ==
  ASSUME TypeOK, TypeOK', SafetyInv, Reconcile
  PROVE  SafetyInv'
<1>1. obj' = obj /\ lister' = lister /\ fresh' = fresh /\ world' = world
  BY Zenon DEF Reconcile
<1>2. CASE work' = Idle
  BY Zenon, <1>1, <1>2, IdleSafe DEF SafetyInv, Versioned
<1>3. CASE work' # Idle
  <2>1. leader \in Replicas /\ Normal(lister[leader]) /\ Follows(lister[leader], obj)
    BY Zenon DEF TypeOK, SafetyInv, Versioned
  <2>2. work'.copy = lister[leader] /\ work'.current = (leader \in fresh)
    BY <1>3 DEF Reconcile
  <2>3. work'.current => work'.copy = obj
    BY Zenon, <2>2 DEF SafetyInv, Versioned
  <2>4. \/ work'.at = "status" /\ lister[leader].deleting /\ work'.result = "yield"
        \/ work'.at = "deprovision" /\ lister[leader].deleting /\ ~Awaited(lister[leader])
        \/ /\ work'.at \in {"finalize", "provision"}
           /\ lister[leader].exists /\ ~lister[leader].deleting
    BY <1>3 DEF Reconcile
  <2>5. Staged'
    BY Zenon, <1>1, <2>1, <2>2, <2>4 DEF Staged, Normal, Awaited, GetResourceReferences
  <2>6. ReadyMeansProvisioned'
    BY Zenon, <1>1 DEF SafetyInv, ReadyMeansProvisioned
  <2>7. QED
    BY Zenon, <1>1, <2>1, <2>2, <2>3, <2>5, <2>6, QuietSafe DEF SafetyInv, Versioned
<1>4. QED
  BY Zenon, <1>2, <1>3

\* Adding our finalizer.
LEMMA AddFinalizerSafe ==
  ASSUME TypeOK, TypeOK', SafetyInv, AddFinalizer
  PROVE  SafetyInv'
<1>1. work.at = "finalize" /\ work.current /\ Store(Finalized) /\ lister' = lister /\ world' = world
  BY Zenon DEF AddFinalizer
<1>2. /\ Normal(obj') /\ Evolves(obj, obj') /\ obj' = Settled(Finalized) /\ obj = work.copy
      /\ \A r \in fresh' : lister[r] = obj'
  BY Zenon, <1>1, OwnWrite
<1>3. ~Finalized.deleting /\ Finalized.exists /\ Finalized.gen > 0 /\ Finalized.cond = obj.cond
  BY Zenon, <1>1, <1>2, WrittenFields DEF SafetyInv, Staged
<1>4. obj' = Finalized
  BY Zenon, <1>2, <1>3 DEF Settled
<1>5. work'.at = "provision" /\ work'.copy = Finalized
  BY Zenon DEF AddFinalizer, TypeOK, Work
<1>6. Versioned'
  BY Zenon, <1>1, <1>2, <1>3, <1>4, <1>5, VersionedStep DEF SafetyInv, Follows
<1>7. Staged'
  BY Zenon, <1>3, <1>5 DEF Staged
<1>8. ReadyMeansProvisioned'
  BY Zenon, <1>1, <1>2, <1>3, <1>4, WrittenFields DEF SafetyInv, ReadyMeansProvisioned, Staged
<1>9. QED
  BY Zenon, <1>6, <1>7, <1>8 DEF SafetyInv

\* Writing the condition.
LEMMA UpdateStatusSafe ==
  ASSUME TypeOK, TypeOK', SafetyInv, UpdateStatus
  PROVE  SafetyInv'
<1>1. work.at = "status" /\ work.current /\ Store(Conditioned) /\ lister' = lister /\ world' = world
  BY Zenon DEF UpdateStatus
<1>2. /\ Normal(obj') /\ Evolves(obj, obj') /\ obj' = Settled(Conditioned) /\ obj = work.copy
      /\ \A r \in fresh' : lister[r] = obj'
  BY Zenon, <1>1, OwnWrite
<1>3. ~(Conditioned.deleting /\ Conditioned.finalizers = {})
  BY Zenon, <1>2, WrittenFields DEF SafetyInv, Versioned, Normal
<1>4. obj' = Conditioned
  BY Zenon, <1>2, <1>3 DEF Settled
<1>5. CASE Conditioned.cond = work.copy.cond
  <2>1. obj' = obj /\ fresh' = fresh
    BY Zenon, <1>1, <1>2, <1>4, <1>5, WrittenFields DEF Store
  <2>2. QED
    BY Zenon, <1>1, <1>5, <2>1, ProceedSafe DEF UpdateStatus
<1>6. CASE Conditioned.cond # work.copy.cond
  <2>1. /\ work'.at = "emit" /\ work'.copy = Conditioned /\ work'.current = work.current
        /\ work'.result = work.result
    BY Zenon, <1>6 DEF UpdateStatus, TypeOK, Work
  <2>2. Follows(work'.copy, obj')
    <3>1. obj' \in Object
      BY Zenon DEF TypeOK
    <3>2. QED
      BY Zenon, <1>2, <1>4, <2>1, <3>1, EvolvesSelf
  <2>3. Versioned'
    BY Zenon, <1>1, <1>2, <1>4, <2>1, <2>2, VersionedStep DEF SafetyInv
  <2>4. Staged'
    BY Zenon, <1>1, <1>4, <2>1, WrittenFields DEF SafetyInv, Staged
  <2>5. ReadyMeansProvisioned'
    <3>1. SUFFICES ASSUME ~obj'.deleting, obj'.cond.reason = "Provisioned"
                   PROVE  world.gen > 0
      BY Zenon, <1>1 DEF ReadyMeansProvisioned
    <3>2. work.copy.deleting \in BOOLEAN
      BY Zenon DEF TypeOK, Work, Object
    <3>3. work.result = "nil"
      BY Zenon, <1>4, <3>1, <3>2, WrittenFields, ProvisionedCondition
    <3>4. QED
      BY Zenon, <1>1, <1>4, <3>1, <3>3, WrittenFields DEF SafetyInv, Staged
  <2>6. QED
    BY Zenon, <2>3, <2>4, <2>5 DEF SafetyInv
<1>7. QED
  BY Zenon, <1>5, <1>6

\* Running the provisioner, in either direction, whatever it returns.
LEMMA ProvisionerSafe ==
  ASSUME TypeOK, TypeOK', SafetyInv, NEW result \in Results,
         Provision(result) \/ Deprovision(result)
  PROVE  SafetyInv'
<1>1. obj' = obj /\ lister' = lister /\ fresh' = fresh
  BY Zenon DEF Provision, Deprovision, Returns
<1>2. world \in World /\ work.copy.gen \in Nat
  BY DEF TypeOK, Work, Object
<1>3. ReadyMeansProvisioned'
  <2>1. CASE Provision(result)
    <3>1. world'.gen = world.gen \/ world'.gen = work.copy.gen
      BY <1>2, <2>1 DEF Provision, World
    <3>2. work.copy.gen > 0
      BY Zenon, <2>1 DEF Provision, SafetyInv, Staged
    <3>3. QED
      BY Zenon, <1>1, <3>1, <3>2 DEF SafetyInv, ReadyMeansProvisioned
  <2>2. CASE Deprovision(result)
    BY Zenon, <1>1, <2>2 DEF Deprovision, SafetyInv, Staged, Versioned, Follows, ReadyMeansProvisioned
  <2>3. QED
    BY Zenon, <2>1, <2>2
<1>4. CASE result = "panic"
  <2>1. work' = Idle
    BY Zenon, <1>4 DEF Provision, Deprovision, Returns, Requeue
  <2>2. ~work'.current /\ ~work'.copy.deleting /\ work'.at = "idle"
    BY Zenon, <2>1 DEF Idle, Gone
  <2>3. Staged' /\ Follows(work'.copy, obj)
    BY Zenon, <2>2 DEF Staged, Follows
  <2>4. QED
    BY Zenon, <1>1, <1>3, <2>2, <2>3, QuietSafe DEF SafetyInv, Versioned
<1>5. CASE result # "panic"
  <2>1. /\ work'.at = "status" /\ work'.result = result
        /\ work'.copy = work.copy /\ work'.current = work.current
    BY Zenon, <1>5 DEF Provision, Deprovision, Returns, TypeOK, Work
  <2>2. Staged'
    <3>1. CASE Provision(result)
      BY <2>1, <3>1 DEF Provision, SafetyInv, Staged
    <3>2. CASE Deprovision(result)
      BY <2>1, <3>2 DEF Deprovision, SafetyInv, Staged
    <3>3. QED
      BY Zenon, <3>1, <3>2
  <2>3. QED
    BY Zenon, <1>1, <1>3, <2>1, <2>2, QuietSafe DEF SafetyInv, Versioned
<1>6. QED
  BY Zenon, <1>4, <1>5

\* Every step preserves the invariant, action by action.
LEMMA SafetyNext ==
  ASSUME TypeOK, TypeOK', SafetyInv, [Next]_vars
  PROVE  SafetyInv'
<1>1. obj \in Object /\ (obj.exists => obj.gen > 0) /\ (obj.finalizers # {} => obj.exists)
  BY Zenon DEF TypeOK, SafetyInv, Versioned, Normal
<1>2. CASE User
  <2>1. ASSUME NEW paused \in BOOLEAN, UpdateSpec(paused) PROVE SafetyInv'
    <3> DEFINE o == [obj EXCEPT !.gen = @ + 1, !.paused = paused]
    <3>1. o.gen > 0 /\ o \in Object
      <4>1. obj.gen + 1 \in 0..MaxGen /\ obj.gen + 1 > 0
        BY <1>1, <2>1, ConstantsAssumption DEF UpdateSpec, Object
      <4>2. QED
        BY Zenon, <1>1, <4>1 DEF Object
    <3>2. /\ o.exists = obj.exists /\ o.deleting = obj.deleting
          /\ o.finalizers = obj.finalizers /\ o.cond = obj.cond
      BY Zenon, <1>1 DEF Object
    <3>3. obj.exists /\ Foreign(o)
      BY Zenon, <2>1 DEF UpdateSpec
    <3> HIDE DEF o
    <3>4. QED
      BY Zenon, <3>1, <3>2, <3>3, ForeignSafe
  <2>2. ASSUME NEW dependents \in SUBSET {Foreground}, Delete(dependents) PROVE SafetyInv'
    <3> DEFINE o == [obj EXCEPT !.deleting = TRUE, !.finalizers = @ \cup dependents]
    <3>1. /\ o \in Object /\ o.exists = obj.exists /\ o.gen = obj.gen /\ o.cond = obj.cond
      BY Zenon, <1>1 DEF Object, Finalizers
    <3>2. obj.exists /\ ~obj.deleting /\ Foreign(o)
      BY Zenon, <2>2 DEF Delete
    <3> HIDE DEF o
    <3>3. QED
      BY Zenon, <1>1, <3>1, <3>2, ForeignSafe
  <2>3. QED
    BY Zenon, <1>2, <2>1, <2>2 DEF User
<1>3. CASE Others
  <2>1. ASSUME NEW f \in Finalizers, f \in obj.finalizers, Foreign([obj EXCEPT !.finalizers = @ \ {f}])
        PROVE  SafetyInv'
    <3> DEFINE o == [obj EXCEPT !.finalizers = @ \ {f}]
    <3>1. /\ o \in Object /\ o.exists = obj.exists /\ o.gen = obj.gen /\ o.cond = obj.cond
          /\ o.deleting = obj.deleting /\ o.finalizers \subseteq obj.finalizers
      BY Zenon, <1>1 DEF Object
    <3>2. obj.exists /\ Foreign(o)
      BY Zenon, <1>1, <2>1
    <3> HIDE DEF o
    <3>3. QED
      BY Zenon, <1>1, <3>1, <3>2, ForeignSafe
  <2>2. ASSUME NEW h \in Holders, AddReference(h) PROVE SafetyInv'
    <3> DEFINE o == [obj EXCEPT !.finalizers = @ \cup {h}]
    <3>1. /\ o \in Object /\ o.exists = obj.exists /\ o.gen = obj.gen /\ o.cond = obj.cond
          /\ o.deleting = obj.deleting
      BY Zenon, <1>1 DEF Object, Finalizers
    <3>2. obj.exists /\ ~obj.deleting /\ Foreign(o)
      BY Zenon, <2>2 DEF AddReference
    <3> HIDE DEF o
    <3>3. QED
      BY Zenon, <1>1, <3>1, <3>2, ForeignSafe
  <2>3. QED
    BY Zenon, <1>3, <2>1, <2>2 DEF Others, GarbageCollect, RemoveReference, Finalizers
<1>4. ASSUME NEW r \in Replicas, Notify(r) PROVE SafetyInv'
  <2>1. /\ \A q \in Replicas : lister'[q] = lister[q] \/ lister'[q] = obj
        /\ \A q \in fresh' : lister'[q] = obj
    BY Zenon, <1>4 DEF Notify, TypeOK, SafetyInv, Versioned
  <2>2. QED
    BY Zenon, <1>4, <2>1, IdleSafe DEF Notify
<1>5. ASSUME NEW r \in Replicas, Failover(r) PROVE SafetyInv'
  <2>1. /\ \A q \in Replicas : lister'[q] = lister[q] \/ lister'[q] = obj
        /\ \A q \in fresh' : lister'[q] = obj
    BY Zenon, <1>5 DEF Failover, TypeOK, SafetyInv, Versioned
  <2>2. QED
    BY Zenon, <1>5, <2>1, IdleSafe DEF Failover
<1>6. CASE RequeueFires \/ GetFails \/ Calm \/ UNCHANGED vars
  <2>1. obj' = obj /\ lister' = lister /\ fresh' = fresh /\ world' = world /\ (work' = Idle \/ work' = work)
    BY Zenon, <1>6 DEF RequeueFires, GetFails, Requeue, Calm, vars
  <2>2. QED
    BY Zenon, <2>1, IdleSafe DEF SafetyInv, Versioned
<1>7. CASE Dequeue
  <2>1. /\ work'.at = "get" /\ work'.copy = work.copy /\ work'.current = work.current
        /\ obj' = obj /\ lister' = lister /\ fresh' = fresh /\ world' = world
    BY Zenon, <1>7 DEF Dequeue, TypeOK, Work
  <2>2. Staged' /\ ReadyMeansProvisioned'
    BY Zenon, <2>1 DEF Staged, SafetyInv, ReadyMeansProvisioned
  <2>3. QED
    BY Zenon, <2>1, <2>2, QuietSafe DEF SafetyInv, Versioned
<1>8. CASE KeepCondition \/ Emit
  BY Zenon, <1>8, ProceedSafe DEF KeepCondition, Emit
<1>9. CASE RemoveFinalizer
  BY Zenon, <1>9, LastWriteSafe, WrittenFields DEF RemoveFinalizer, Done
<1>10. CASE AddFinalizerFails \/ UpdateStatusFails \/ RemoveFinalizerFails
  BY Zenon, <1>10, WriteFailsSafe, WrittenFields DEF AddFinalizerFails, UpdateStatusFails, RemoveFinalizerFails
<1>11. QED
  BY Zenon, <1>2, <1>3, <1>4, <1>5, <1>6, <1>7, <1>8, <1>9, <1>10,
     ReconcileSafe, AddFinalizerSafe, UpdateStatusSafe, ProvisionerSafe
  DEF Next, Worker

\* The invariant holds in every state.
THEOREM SafetyInvariant == Spec => []SafetyInv
<1>1. Init => SafetyInv
  <2> SUFFICES ASSUME Init PROVE SafetyInv
    BY Zenon
  <2>1. obj.exists /\ obj.gen = 1 /\ ~obj.deleting /\ obj.cond = NoCondition
    BY Zenon DEF Init, Gone
  <2>2. work.at = "idle" /\ ~work.current /\ ~work.copy.deleting
    BY Zenon DEF Init, Idle, Gone
  <2>3. \A r \in Replicas : Normal(lister[r]) /\ Follows(lister[r], obj)
    BY Zenon DEF Init, Normal, Follows, Gone
  <2>4. Versioned
    BY <2>1, <2>2, <2>3 DEF Init, Versioned, Normal, Follows
  <2>5. Staged /\ ReadyMeansProvisioned
    BY <2>1, <2>2 DEF Staged, ReadyMeansProvisioned, NoCondition
  <2>6. QED
    BY Zenon, <2>4, <2>5 DEF SafetyInv
<1>2. TypeOK /\ TypeOK' /\ SafetyInv /\ [Next]_vars => SafetyInv'
  BY Zenon, SafetyNext
<1>3. QED
  BY <1>1, <1>2, TypeCorrect, PTL DEF Spec

(***************************************************************************)
(* Teardown never starts on a resource somebody references or whose        *)
(* dependents are still there, whatever copy reconcileDelete decided on    *)
(* and however often the leader changed.                                   *)
(***************************************************************************)
THEOREM DeprovisionUnreferencedHolds == Spec => []DeprovisionUnreferenced
<1>1. SafetyInv => DeprovisionUnreferenced
  BY Zenon DEF SafetyInv, Staged, Versioned, Follows, Awaited, GetResourceReferences, DeprovisionUnreferenced,
         Unikorn, Foreground
<1>2. QED
  BY <1>1, SafetyInvariant, PTL

(***************************************************************************)
(* A resource that reads Provisioned and is not being deleted has been     *)
(* provisioned and not torn down since.                                    *)
(***************************************************************************)
THEOREM ReadyMeansProvisionedHolds == Spec => []ReadyMeansProvisioned
<1>1. SafetyInv => ReadyMeansProvisioned
  BY Zenon DEF SafetyInv
<1>2. QED
  BY <1>1, SafetyInvariant, PTL

(***************************************************************************)
(* What handleReconcileCondition logs is what the API server holds.        *)
(***************************************************************************)
THEOREM LogCommittedHolds == Spec => LogCommitted
<1>1. SafetyInv /\ [Next]_vars => [logged' # logged /\ obj.exists => logged' = obj.cond]_vars
  <2> SUFFICES ASSUME SafetyInv, [Next]_vars, logged' # logged, obj.exists
               PROVE  logged' = obj.cond
    BY SMTT(30)
  <2>1. Emit
    BY Zenon DEF Next, User, Others, Worker, UpdateSpec, Delete, GarbageCollect, AddReference, RemoveReference,
           Foreign, Notify, Failover, RequeueFires, Calm, Dequeue, GetFails, Reconcile, AddFinalizer,
           AddFinalizerFails, WriteFails, Provision, Deprovision, Returns, KeepCondition, UpdateStatus,
           UpdateStatusFails, RemoveFinalizer, RemoveFinalizerFails, vars
  <2>2. QED
    BY Zenon, <2>1 DEF Emit, SafetyInv, Staged
<1>2. QED
  BY <1>1, SafetyInvariant, PTL DEF Spec, LogCommitted
-----------------------------------------------------------------------------
\* Our finalizer only goes in the last step of a teardown.
LEMMA FinalizerStep ==
  ASSUME TypeOK, SafetyInv, [Next]_vars, Unikorn \in obj.finalizers, Unikorn \notin obj'.finalizers
  PROVE  /\ work.at = "release"
         /\ work' = Idle
         /\ world' = world
         /\ lister' = lister
<1>1. obj \in Object
  BY Zenon DEF TypeOK
<1>2. ASSUME NEW o \in Object, Unikorn \in o.finalizers, Store(o) PROVE FALSE
  BY Zenon, <1>2 DEF Store, Settled
<1>3. ~User
  <2>1. ASSUME NEW paused \in BOOLEAN PROVE ~UpdateSpec(paused)
    BY Zenon, <1>1 DEF UpdateSpec, Foreign, Store, Settled, Object
  <2>2. ASSUME NEW dependents \in SUBSET {Foreground} PROVE ~Delete(dependents)
    BY Zenon, <1>1 DEF Delete, Foreign, Store, Settled, Object
  <2>3. QED
    BY Zenon, <2>1, <2>2 DEF User
<1>4. ~Others
  <2>1. ASSUME NEW h \in Holders PROVE ~AddReference(h)
    BY Zenon, <1>1 DEF AddReference, Foreign, Store, Settled, Object
  <2>2. ASSUME NEW h \in Holders PROVE ~RemoveReference(h)
    BY <1>1, ConstantsAssumption DEF RemoveReference, Foreign, Store, Settled, Object
  <2>3. ~GarbageCollect
    BY <1>1 DEF GarbageCollect, Foreign, Store, Settled, Object, Unikorn, Foreground
  <2>4. QED
    BY Zenon, <2>1, <2>2, <2>3 DEF Others
<1>5. obj' # obj
  BY Zenon
<1>6. ASSUME work.current, Store(Finalized) PROVE FALSE
  BY Zenon, <1>2, <1>6, WrittenType, WrittenFields
<1>7. ASSUME work.current, Store(Conditioned) PROVE FALSE
  BY SMTT(30), <1>2, <1>7, WrittenType, WrittenFields DEF SafetyInv, Versioned
<1>8. RemoveFinalizer \/ RemoveFinalizerFails
  BY Zenon, <1>3, <1>4, <1>5, <1>6, <1>7
  DEF Next, Worker, Notify, Failover, RequeueFires, Calm, Dequeue, GetFails, Reconcile, AddFinalizer,
      AddFinalizerFails, WriteFails, Provision, Deprovision, Returns, KeepCondition, UpdateStatus,
      UpdateStatusFails, Emit, vars
<1>9. QED
  BY Zenon, <1>8 DEF RemoveFinalizer, RemoveFinalizerFails, WriteFails, Done, Requeue

(***************************************************************************)
(* The finalizer is given up only when the infrastructure is gone, also    *)
(* when a reply is lost or the leader changes in the middle.               *)
(***************************************************************************)
THEOREM FinalizerLastHolds == Spec => FinalizerLast
<1>1. TypeOK /\ SafetyInv /\ [Next]_vars =>
        [(Unikorn \in obj.finalizers \ obj'.finalizers) => ~world.exists]_vars
  BY SMTT(30), FinalizerStep DEF SafetyInv, Staged
<1>2. QED
  BY <1>1, TypeCorrect, SafetyInvariant, PTL DEF Spec, FinalizerLast

\* One process runs the controller: there is no standby with a lagging cache.
OneReplica == \A r, q \in Replicas : r = q

\* A cache changes by catching up with the resource.
LEMMA ListerStep ==
  ASSUME TypeOK, [Next]_vars, NEW r \in Replicas
  PROVE  lister'[r] = lister[r] \/ (lister'[r] = obj /\ obj' = obj)
BY ZenonT(30) DEF TypeOK, Next, User, Others, Worker, UpdateSpec, Delete, GarbageCollect, AddReference, RemoveReference,
       Foreign, Notify, Failover, RequeueFires, Calm, Dequeue, GetFails, Reconcile, AddFinalizer,
       AddFinalizerFails, WriteFails, Provision, Deprovision, Returns, KeepCondition, UpdateStatus,
       UpdateStatusFails, Emit, RemoveFinalizer, RemoveFinalizerFails, vars

\* The reconcile gets to see a deletion only by reading it from the cache, and
\* gets to provision only with the finalizer on its copy or just written.
LEMMA WorkStep ==
  ASSUME TypeOK, [Next]_vars
  PROVE  \/ Reconcile
         \/ /\ work'.copy.deleting => work.copy.deleting
            /\ work'.at = "provision" => work.at = "provision" \/ AddFinalizer
<1>1. CASE User \/ Others
  BY Zenon, <1>1 DEF User, Others, UpdateSpec, Delete, GarbageCollect, AddReference, RemoveReference, Foreign,
              TypeOK, Work
<1>2. CASE work' = Idle \/ work' = work
  BY <1>2 DEF Idle, Gone
<1>3. ASSUME Goto("release") PROVE work'.copy = work.copy /\ work'.at = "release"
  BY Zenon, <1>3 DEF Goto, TypeOK, Work
<1>4. CASE UpdateStatus /\ Conditioned.cond # work.copy.cond
  <2>1. work'.copy = Conditioned /\ work'.at = "emit"
    BY Zenon, <1>4 DEF UpdateStatus, TypeOK, Work
  <2>2. QED
    BY Zenon, <2>1, WrittenFields
<1>5. CASE AddFinalizer
  <2>1. work'.copy = Finalized
    BY Zenon, <1>5 DEF AddFinalizer, TypeOK, Work
  <2>2. QED
    BY Zenon, <1>5, <2>1, WrittenFields
<1>6. CASE Dequeue
  BY Zenon, <1>6 DEF Dequeue, TypeOK, Work
<1>7. ASSUME NEW result \in Results, Returns(result), result # "panic"
      PROVE  work'.copy = work.copy /\ work'.at = "status"
  BY Zenon, <1>7 DEF Returns, TypeOK, Work
<1>8. ASSUME Proceed PROVE work' = Idle \/ (work'.copy = work.copy /\ work'.at = "release")
  BY Zenon, <1>3, <1>8, ProceedCases DEF Done, Requeue
<1>9. QED
  BY Zenon, <1>1, <1>2, <1>4, <1>5, <1>6, <1>7, <1>8
  DEF Next, Worker, Notify, Failover, RequeueFires, Calm, GetFails, AddFinalizerFails, WriteFails, Requeue,
      Done, Provision, Deprovision, Returns, KeepCondition, UpdateStatus, UpdateStatusFails, Emit,
      RemoveFinalizer, RemoveFinalizerFails, vars

\* Infrastructure appears only while the provisioner runs.
LEMMA WorldStep ==
  ASSUME TypeOK, [Next]_vars, world'.exists
  PROVE  world.exists \/ work.at = "provision"
<1>1. ASSUME NEW result \in Results, Deprovision(result) PROVE world.exists
  BY <1>1 DEF Deprovision, TypeOK, World
<1>2. QED
  BY Zenon, <1>1
  DEF Next, User, Others, Worker, UpdateSpec, Delete, GarbageCollect, AddReference, RemoveReference,
      Foreign, Notify, Failover, RequeueFires, Calm, Dequeue, GetFails, Reconcile, AddFinalizer,
      AddFinalizerFails, WriteFails, Provision, KeepCondition, UpdateStatus,
      UpdateStatusFails, Emit, RemoveFinalizer, RemoveFinalizerFails, vars

\* Every step of a single replica preserves Held.
LEMMA HeldNext ==
  ASSUME OneReplica, TypeOK, SafetyInv, SafetyInv', Held, [Next]_vars
  PROVE  Held'
<1>1. ASSUME NEW r \in Replicas, ~lister'[r].deleting, Unikorn \in lister'[r].finalizers
      PROVE  Unikorn \in obj'.finalizers
  <2>1. CASE Unikorn \in obj.finalizers /\ Unikorn \notin obj'.finalizers
    BY Zenon, <1>1, <2>1, FinalizerStep DEF Held, SafetyInv, Staged
  <2>2. QED
    BY Zenon, <1>1, <2>1, ListerStep DEF Held
<1>2. ASSUME work'.copy.deleting, NEW r \in Replicas
      PROVE  lister'[r].deleting \/ Unikorn \notin lister'[r].finalizers
  <2>1. CASE Reconcile
    <3>1. r = leader /\ lister' = lister
      BY Zenon, <2>1 DEF OneReplica, TypeOK, Reconcile
    <3>2. work'.copy = lister[leader]
      BY <1>2, <2>1 DEF Reconcile, Idle, Gone
    <3>3. QED
      BY Zenon, <1>2, <3>1, <3>2
  <2>2. CASE work.copy.deleting
    BY Zenon, <2>2, ListerStep DEF Held, SafetyInv, Versioned, Follows, Normal
  <2>3. QED
    BY Zenon, <1>2, <2>1, <2>2, WorkStep
<1>3. ASSUME world'.exists \/ work'.at = "provision" PROVE Unikorn \in obj'.finalizers
  <2>1. CASE Unikorn \in obj.finalizers
    <3>1. ASSUME Unikorn \notin obj'.finalizers PROVE FALSE
      BY <1>3, <2>1, <3>1, FinalizerStep DEF SafetyInv, Staged, Idle
    <3>2. QED
      BY Zenon, <3>1
  <2>2. CASE Unikorn \notin obj.finalizers
    <3>1. ~world.exists /\ work.at # "provision"
      BY Zenon, <2>2 DEF Held, NoOrphans
    <3>2. work'.at = "provision"
      BY Zenon, <1>3, <3>1, WorldStep
    <3>3. ~Reconcile
      BY <2>2, <3>2 DEF Reconcile, Held, TypeOK, Idle
    <3>4. AddFinalizer
      BY Zenon, <3>1, <3>2, <3>3, WorkStep
    <3>5. QED
      BY Zenon, <3>4, WrittenFields DEF AddFinalizer, Store, Settled
  <2>3. QED
    BY Zenon, <2>1, <2>2
<1>4. NoOrphans'
  BY Zenon, <1>3 DEF NoOrphans, SafetyInv, Versioned, Normal
<1>5. QED
  BY Zenon, <1>1, <1>2, <1>4 DEF Held

(***************************************************************************)
(* A controller that runs as one process, restarts included, never leaves  *)
(* infrastructure behind without a resource that holds our finalizer.      *)
(***************************************************************************)
THEOREM NoOrphansHolds == ASSUME OneReplica PROVE Spec => []NoOrphans
<1>1. Init => Held
  BY DEF Init, Held, NoOrphans, Idle, Gone
<1>2. TypeOK /\ SafetyInv /\ SafetyInv' /\ Held /\ [Next]_vars => Held'
  BY Zenon, HeldNext
<1>3. Held => NoOrphans
  BY Zenon DEF Held
<1>4. QED
  BY <1>1, <1>2, <1>3, TypeCorrect, SafetyInvariant, PTL DEF Spec
-----------------------------------------------------------------------------
(***************************************************************************)
(* Nothing is forgotten. The resource is at rest, or the leader has a      *)
(* reason to look again: a queued or delayed key, an event on its way, or  *)
(* a reconcile in progress that has not missed one.                        *)
(***************************************************************************)
AtRest(o) ==
  /\ ~o.deleting
  /\ ~o.paused /\ o.gen \notin Terminal => world.gen = o.gen /\ o.cond = Condition("nil", FALSE)
  /\ ~o.paused /\ o.gen \in Terminal => o.cond.status = "False"

\* A cached copy is of an earlier generation, or of the same spec.
Ordered ==
  \A r \in Replicas : lister[r].exists /\ obj.exists =>
    lister[r].gen <= obj.gen /\ (lister[r].gen = obj.gen => lister[r].paused = obj.paused)

\* The reconcile works on what the leader's cache shows, or runs again.
Seen == work.at \notin {"idle", "get"} => queued \/ ~Wakes(work.copy, lister[leader])

\* What the result in hand says about the copy it was obtained for.
Outcome ==
  /\ work.at \in {"deprovision", "release"} => work.copy.finalizers = {Unikorn}
  /\ work.at \in {"status", "emit"} =>
       /\ work.copy.deleting /\ work.result = "nil" => work.copy.finalizers = {Unikorn}
       /\ ~work.copy.deleting /\ work.result = "nil" => world.gen = work.copy.gen /\ work.copy.gen \notin Terminal
       /\ ~work.copy.deleting /\ work.result = "terminal" => work.copy.gen \in Terminal
  /\ work.at = "emit" => work.copy.cond = Condition(work.result, work.copy.deleting)

Remembered ==
  work.at = "idle" /\ obj.exists => queued \/ delayed \/ Wakes(lister[leader], obj) \/ AtRest(obj)

QuietInv == Ordered /\ Seen /\ Outcome /\ Remembered

\* Writes by anybody else keep the condition and a deletion; they keep the spec
\* too or give it the next generation.
LEMMA ForeignCases ==
  ASSUME TypeOK, SafetyInv, User \/ Others
  PROVE  \E o \in Object :
           /\ Foreign(o) /\ obj.exists /\ o.exists /\ o.cond = obj.cond
           /\ obj.deleting => o.deleting
           /\ (o.gen = obj.gen /\ o.paused = obj.paused) \/ o.gen = obj.gen + 1
<1>1. obj \in Object /\ (obj.finalizers # {} => obj.exists)
  BY Zenon DEF TypeOK, SafetyInv, Versioned, Normal
<1>2. ASSUME NEW paused \in BOOLEAN, UpdateSpec(paused)
      PROVE  \E o \in Object :
               /\ Foreign(o) /\ obj.exists /\ o.exists /\ o.cond = obj.cond
               /\ obj.deleting => o.deleting
               /\ o.gen = obj.gen + 1
  <2> DEFINE o == [obj EXCEPT !.gen = @ + 1, !.paused = paused]
  <2>1. obj.gen + 1 \in 0..MaxGen /\ obj.exists /\ Foreign(o)
    BY <1>1, <1>2, ConstantsAssumption DEF UpdateSpec, Object
  <2>2. /\ o \in Object /\ o.exists = obj.exists /\ o.cond = obj.cond /\ o.deleting = obj.deleting
        /\ o.gen = obj.gen + 1
    BY Zenon, <1>1, <2>1 DEF Object
  <2> HIDE DEF o
  <2>3. QED
    BY Zenon, <2>1, <2>2
<1>3. ASSUME NEW fs \in SUBSET Finalizers, NEW deleting \in BOOLEAN, obj.deleting => deleting, obj.exists,
             Foreign([obj EXCEPT !.deleting = deleting, !.finalizers = fs])
      PROVE  \E o \in Object :
               /\ Foreign(o) /\ obj.exists /\ o.exists /\ o.cond = obj.cond
               /\ obj.deleting => o.deleting
               /\ o.gen = obj.gen /\ o.paused = obj.paused
  <2> DEFINE o == [obj EXCEPT !.deleting = deleting, !.finalizers = fs]
  <2>1. /\ o \in Object /\ o.exists = obj.exists /\ o.cond = obj.cond /\ o.deleting = deleting
        /\ o.gen = obj.gen /\ o.paused = obj.paused
    BY Zenon, <1>1 DEF Object
  <2> HIDE DEF o
  <2>2. QED
    BY Zenon, <1>3, <2>1 DEF o
<1>4. CASE \E dependents \in SUBSET {Foreground} : Delete(dependents)
  <2>1. PICK dependents \in SUBSET {Foreground} : Delete(dependents)
    BY Zenon, <1>4
  <2>2. obj.finalizers \cup dependents \in SUBSET Finalizers /\ obj.exists
    BY SMTT(30), <1>1, <2>1 DEF Object, Finalizers, Delete
  <2>3. QED
    BY Zenon, <1>3, <2>1, <2>2 DEF Delete
<1>5. ASSUME NEW fs \in SUBSET Finalizers, obj.exists, Foreign([obj EXCEPT !.finalizers = fs])
      PROVE  \E o \in Object :
               /\ Foreign(o) /\ obj.exists /\ o.exists /\ o.cond = obj.cond
               /\ obj.deleting => o.deleting
               /\ o.gen = obj.gen /\ o.paused = obj.paused
  <2>1. obj.deleting \in BOOLEAN
    BY Zenon, <1>1 DEF Object
  <2>2. [obj EXCEPT !.finalizers = fs] = [obj EXCEPT !.deleting = obj.deleting, !.finalizers = fs]
    BY Zenon, <1>1 DEF Object
  <2>3. QED
    BY Zenon, <1>3, <1>5, <2>1, <2>2
<1>6. CASE Others
  <2>1. \A f : obj.finalizers \ {f} \in SUBSET Finalizers
    BY Zenon, <1>1 DEF Object
  <2>2. \A h \in Holders : obj.finalizers \cup {h} \in SUBSET Finalizers
    BY Zenon, <1>1 DEF Object, Finalizers
  <2>3. CASE GarbageCollect
    BY Zenon, <1>1, <1>5, <2>1, <2>3 DEF GarbageCollect
  <2>4. ASSUME NEW h \in Holders, AddReference(h)
        PROVE  \E fs \in SUBSET Finalizers : obj.exists /\ Foreign([obj EXCEPT !.finalizers = fs])
    BY Zenon, <2>2, <2>4 DEF AddReference
  <2>5. ASSUME NEW h \in Holders, RemoveReference(h)
        PROVE  \E fs \in SUBSET Finalizers : obj.exists /\ Foreign([obj EXCEPT !.finalizers = fs])
    BY Zenon, <1>1, <2>1, <2>5 DEF RemoveReference
  <2>6. QED
    BY Zenon, <1>5, <1>6, <2>3, <2>4, <2>5 DEF Others
<1>7. QED
  BY Zenon, <1>2, <1>4, <1>6 DEF User

\* The reconciler never writes the spec.
LEMMA WrittenSpec ==
  ASSUME TypeOK
  PROVE  \A o \in {Finalized, Conditioned, Released} : o.paused = work.copy.paused
<1>1. work.copy \in Object
  BY Zenon DEF TypeOK, Work
<1>2. QED
  BY Zenon, <1>1 DEF Finalized, Conditioned, Released, Object

\* A write of the reconciler that lands was made on the latest version.
LEMMA OwnSpec ==
  ASSUME TypeOK, SafetyInv, work.current, NEW o \in {Finalized, Conditioned, Released}, Store(o), obj'.exists
  PROVE  obj.exists /\ obj'.gen = obj.gen /\ obj'.paused = obj.paused /\ obj'.deleting = obj.deleting
<1>1. obj = work.copy /\ obj' = Settled(o)
  BY Zenon DEF SafetyInv, Versioned, Store
<1>2. obj' = o
  BY Zenon, <1>1 DEF Settled, Gone
<1>3. QED
  BY Zenon, <1>1, <1>2, WrittenFields, WrittenSpec

\* A step keeps the spec of the resource, or gives it a later generation.
LEMMA SpecStep ==
  ASSUME TypeOK, SafetyInv, [Next]_vars, obj'.exists
  PROVE  obj.exists /\ ((obj'.gen = obj.gen /\ obj'.paused = obj.paused) \/ obj'.gen = obj.gen + 1)
<1>1. CASE UNCHANGED obj
  BY Zenon, <1>1
<1>2. CASE User \/ Others
  <2>1. PICK o \in Object : /\ Foreign(o) /\ obj.exists
                            /\ (o.gen = obj.gen /\ o.paused = obj.paused) \/ o.gen = obj.gen + 1
    BY Zenon, <1>2, ForeignCases
  <2>2. obj' = o
    BY Zenon, <2>1 DEF Foreign, Store, Settled, Gone
  <2>3. QED
    BY Zenon, <2>1, <2>2
<1>3. ASSUME NEW o \in {Finalized, Conditioned, Released}, work.current, Store(o)
      PROVE  obj.exists /\ obj'.gen = obj.gen /\ obj'.paused = obj.paused
  BY Zenon, <1>3, OwnSpec
<1>4. QED
  BY Zenon, <1>1, <1>2, <1>3
  DEF Next, Worker, Notify, Failover, RequeueFires, Calm, Dequeue, GetFails, Reconcile, AddFinalizer,
      AddFinalizerFails, WriteFails, Provision, Deprovision, Returns, KeepCondition, UpdateStatus,
      UpdateStatusFails, Emit, RemoveFinalizer, RemoveFinalizerFails, vars

\* Caches stay behind the resource.
LEMMA OrderedNext ==
  ASSUME TypeOK, TypeOK', SafetyInv, Ordered, [Next]_vars
  PROVE  Ordered'
<1> SUFFICES ASSUME NEW r \in Replicas, lister'[r].exists, obj'.exists
             PROVE  /\ lister'[r].gen <= obj'.gen
                    /\ lister'[r].gen = obj'.gen => lister'[r].paused = obj'.paused
  BY Zenon DEF Ordered
<1>1. lister[r].gen \in Nat /\ obj.gen \in Nat /\ obj'.gen \in Nat
  BY DEF TypeOK, Object
<1>2. obj.exists /\ ((obj'.gen = obj.gen /\ obj'.paused = obj.paused) \/ obj'.gen = obj.gen + 1)
  BY Zenon, SpecStep
<1>3. CASE lister'[r] = lister[r]
  <2>1. lister[r].gen <= obj.gen /\ (lister[r].gen = obj.gen => lister[r].paused = obj.paused)
    BY Zenon, <1>2, <1>3 DEF Ordered
  <2>2. QED
    BY <1>1, <1>2, <1>3, <2>1
<1>4. CASE lister'[r] = obj /\ obj' = obj
  BY <1>1, <1>4
<1>5. QED
  BY Zenon, <1>3, <1>4, ListerStep

\* A reconcile that is to be tried again forgets nothing.
LEMMA RequeueQuiet ==
  ASSUME Ordered', work' = Idle, queued' \/ delayed'
  PROVE  QuietInv'
BY Zenon DEF QuietInv, Seen, Outcome, Remembered, Idle

\* A foreign write leaves the resource at rest or wakes the leader.
LEMMA ForeignQuiet ==
  ASSUME TypeOK, TypeOK', SafetyInv, QuietInv, Ordered', User \/ Others
  PROVE  QuietInv'
<1>1. PICK o \in Object :
        /\ Foreign(o) /\ obj.exists /\ o.exists /\ o.cond = obj.cond
        /\ obj.deleting => o.deleting
        /\ (o.gen = obj.gen /\ o.paused = obj.paused) \/ o.gen = obj.gen + 1
  BY Zenon, ForeignCases
<1>2. UNCHANGED <<lister, leader, queued, delayed, world>> /\ obj' = Settled(o)
  BY Zenon, <1>1 DEF Foreign, Store
<1>3. work'.at = work.at /\ work'.copy = work.copy /\ work'.result = work.result
  BY Zenon, <1>1 DEF Foreign, TypeOK, Work
<1>4. Seen'
  BY SMTT(30), <1>2, <1>3 DEF QuietInv, Seen
<1>5. Outcome'
  BY Zenon, <1>2, <1>3 DEF QuietInv, Outcome
<1>6. Remembered'
  <2> SUFFICES ASSUME work.at = "idle", obj'.exists, ~queued, ~delayed, ~Wakes(lister[leader], obj')
               PROVE  AtRest(obj)'
    BY Zenon, <1>2, <1>3 DEF Remembered
  <2> DEFINE l == lister[leader]
  <2>1. obj' = o
    BY Zenon, <1>2 DEF Settled, Gone
  <2>2. l.exists /\ l.gen = o.gen /\ l.deleting = o.deleting
    BY Zenon, <1>1, <2>1 DEF Wakes
  <2>3. l.gen <= obj.gen /\ (l.deleting => obj.deleting) /\ leader \in Replicas
    BY Zenon, <1>1, <2>2 DEF QuietInv, Ordered, TypeOK, SafetyInv, Versioned, Follows
  <2>4. obj.gen \in Nat /\ o.deleting \in BOOLEAN /\ obj.deleting \in BOOLEAN /\ obj.exists \in BOOLEAN
    BY DEF TypeOK, Object
  <2> HIDE DEF l
  <2>5. o.gen = obj.gen /\ o.paused = obj.paused /\ o.deleting = obj.deleting
    BY <1>1, <2>2, <2>3, <2>4
  <2>6. ~Wakes(l, obj)
    BY Zenon, <1>1, <2>2, <2>4, <2>5 DEF Wakes, l, TypeOK, Object
  <2>7. AtRest(obj)
    BY Zenon, <1>1, <2>6 DEF QuietInv, Remembered, l
  <2>8. QED
    BY Zenon, <1>1, <1>2, <2>1, <2>5, <2>7 DEF AtRest
<1>7. QED
  BY Zenon, <1>4, <1>5, <1>6 DEF QuietInv

\* An event the leader's cache takes in either wakes it or changes nothing the
\* reconcile depends on.
LEMMA NotifyQuiet ==
  ASSUME TypeOK, QuietInv, Ordered', NEW r \in Replicas, Notify(r)
  PROVE  QuietInv'
<1>1. UNCHANGED <<obj, leader, delayed, work, world>>
  BY Zenon DEF Notify
<1>2. Outcome'
  BY Zenon, <1>1 DEF QuietInv, Outcome
<1>3. CASE queued'
  BY Zenon, <1>2, <1>3 DEF QuietInv, Seen, Remembered
<1>4. CASE ~queued'
  <2>1. ~queued /\ (r = leader => ~Wakes(lister[leader], obj))
    BY Zenon, <1>4 DEF Notify
  <2>2. lister'[leader] = IF r = leader THEN obj ELSE lister[leader]
    BY Zenon DEF Notify, TypeOK
  <2>3. Seen'
    BY Zenon, <1>1, <2>1, <2>2 DEF QuietInv, Seen, Wakes
  <2>4. Remembered'
    BY Zenon, <1>1, <2>1, <2>2 DEF QuietInv, Remembered, Wakes, AtRest
  <2>5. QED
    BY Zenon, <1>2, <2>3, <2>4 DEF QuietInv
<1>5. QED
  BY Zenon, <1>3, <1>4

\* A new leader queues the resource or has yet to hear of it.
LEMMA FailoverQuiet ==
  ASSUME TypeOK, TypeOK', QuietInv, Ordered', NEW r \in Replicas, Failover(r)
  PROVE  QuietInv'
<1>1. work' = Idle /\ leader' = r /\ queued' = lister'[r].exists /\ obj' = obj
  BY Zenon DEF Failover
<1>2. Seen' /\ Outcome'
  BY Zenon, <1>1 DEF Seen, Outcome, Idle
<1>3. obj'.exists => queued' \/ Wakes(lister'[r], obj')
  BY Zenon, <1>1 DEF Wakes
<1>4. Remembered'
  BY Zenon, <1>1, <1>3 DEF Remembered
<1>5. QED
  BY Zenon, <1>2, <1>4 DEF QuietInv

\* Reading the resource from the cache: what is ignored is at rest or gone.
LEMMA ReconcileQuiet ==
  ASSUME TypeOK, SafetyInv, QuietInv, Ordered', Reconcile
  PROVE  QuietInv'
<1> DEFINE l == lister[leader]
<1>1. UNCHANGED <<obj, lister, leader, queued, delayed, world>>
  BY Zenon DEF Reconcile
<1>2. l \in Object /\ Normal(l) /\ obj \in Object /\ leader \in Replicas
  BY Zenon DEF TypeOK, SafetyInv, Versioned
<1>3. CASE work' = Idle
  <2>1. Seen' /\ Outcome'
    BY SMTT(30), <1>3 DEF Seen, Outcome, Idle
  <2>2. ~l.exists \/ (~l.deleting /\ l.paused)
    BY Zenon, <1>2, <1>3 DEF Reconcile, Idle, Normal
  <2>3. obj.exists /\ ~Wakes(l, obj) => ~obj.deleting /\ obj.paused
    BY Zenon, <1>2, <2>2 DEF Wakes, QuietInv, Ordered, Object
  <2>4. Remembered'
    BY Zenon, <1>1, <2>3 DEF Remembered, AtRest
  <2>5. QED
    BY Zenon, <2>1, <2>4 DEF QuietInv
<1>4. CASE work' # Idle
  <2>1. /\ work'.copy = l
        /\ \/ work'.at = "status" /\ l.deleting /\ work'.result = "yield"
           \/ work'.at = "deprovision" /\ ~Awaited(l) /\ l.finalizers # {}
           \/ work'.at \in {"finalize", "provision"}
    BY <1>4 DEF Reconcile
  <2>2. Seen'
    BY Zenon, <1>1, <2>1 DEF Seen, Wakes
  <2>3. ~Awaited(l) /\ l.finalizers # {} => l.finalizers = {Unikorn}
    BY Zenon, <1>2 DEF Awaited, GetResourceReferences
  <2>4. Outcome'
    BY Zenon, <2>1, <2>3 DEF Outcome
  <2>5. Remembered'
    BY Zenon, <2>1 DEF Remembered
  <2>6. QED
    BY Zenon, <2>2, <2>4, <2>5 DEF QuietInv
<1>5. QED
  BY Zenon, <1>3, <1>4

\* A reconcile that ends for good leaves the resource at rest.
LEMMA ProceedQuiet ==
  ASSUME TypeOK, SafetyInv, QuietInv, Ordered', Proceed, work.at \in {"status", "emit"},
         work.result \notin {"nil", "terminal"} \/ (obj.exists => obj.cond = Condition(work.result, work.copy.deleting)),
         UNCHANGED <<obj, lister, leader, queued, world>>
  PROVE  QuietInv'
<1>1. work \in Work /\ work.copy \in Object /\ obj \in Object /\ lister[leader] \in Object
  BY Zenon DEF TypeOK, Work
<1>2. CASE Requeue
  BY SMTT(30), <1>2, RequeueQuiet DEF Requeue
<1>3. CASE work.copy.deleting /\ work.result = "nil"
  <2>1. work.copy.finalizers = {Unikorn}
    BY Zenon, <1>3 DEF QuietInv, Outcome
  <2>2. Goto("release")
    BY Zenon, <1>3, <2>1 DEF Proceed, Deprovisioning
  <2>3. work'.at = "release" /\ work'.copy = work.copy
    BY Zenon, <1>1, <2>2 DEF Goto, Work
  <2>4. QED
    BY Zenon, <2>1, <2>3 DEF QuietInv, Seen, Outcome, Remembered
<1>4. CASE ~work.copy.deleting /\ work.result \in {"nil", "terminal"} /\ Done
  <2>1. Seen' /\ Outcome' /\ delayed' = delayed
    BY Zenon, <1>4 DEF Done, Seen, Outcome, Idle
  <2>2. ASSUME obj.exists, ~queued, ~Wakes(lister[leader], obj) PROVE AtRest(obj)
    <3>1. ~Wakes(work.copy, lister[leader])
      BY Zenon, <2>2 DEF QuietInv, Seen
    <3>2. obj.gen = work.copy.gen /\ ~obj.deleting
      BY Zenon, <1>1, <1>4, <2>2, <3>1 DEF Wakes, Object
    <3>3. obj.cond = Condition(work.result, FALSE)
      BY Zenon, <1>1, <1>4, <2>2 DEF Object
    <3>4. CASE work.result = "nil"
      BY Zenon, <1>4, <3>2, <3>3, <3>4 DEF QuietInv, Outcome, AtRest
    <3>5. CASE work.result = "terminal"
      <4>1. Condition("terminal", FALSE).status = "False"
        BY Zenon DEF Condition
      <4>2. QED
        BY Zenon, <1>4, <3>2, <3>3, <3>5, <4>1 DEF QuietInv, Outcome, AtRest
    <3>6. QED
      BY Zenon, <1>4, <3>4, <3>5
  <2>3. Remembered'
    BY Zenon, <2>1, <2>2 DEF Remembered, AtRest
  <2>4. QED
    BY Zenon, <2>1, <2>3 DEF QuietInv
<1>5. QED
  BY Zenon, <1>2, <1>3, <1>4 DEF Proceed, Deprovisioning

\* A write of the reconciler that succeeds and does not end the reconcile.
LEMMA WriteQuiet ==
  ASSUME TypeOK, SafetyInv, QuietInv, Ordered', AddFinalizer \/ UpdateStatus
  PROVE  QuietInv'
<1>1. UNCHANGED <<lister, leader, queued, world>>
  BY Zenon DEF AddFinalizer, UpdateStatus
<1>2. CASE AddFinalizer
  <2>1. work'.at = "provision" /\ work'.copy = Finalized /\ work.at = "finalize"
    BY Zenon, <1>2 DEF AddFinalizer, TypeOK, Work
  <2>2. Seen'
    BY Zenon, <1>1, <2>1, WrittenFields DEF QuietInv, Seen, Wakes
  <2>3. QED
    BY Zenon, <2>1, <2>2 DEF QuietInv, Outcome, Remembered
<1>3. CASE UpdateStatus
  <2>1. work.at = "status" /\ obj = work.copy /\ Store(Conditioned)
    BY Zenon, <1>3 DEF UpdateStatus, SafetyInv, Versioned
  <2>2. CASE Conditioned.cond # work.copy.cond
    <3>1. work'.at = "emit" /\ work'.copy = Conditioned /\ work'.result = work.result
      BY Zenon, <1>3, <2>2 DEF UpdateStatus, TypeOK, Work
    <3>2. Seen'
      BY Zenon, <1>1, <2>1, <3>1, WrittenFields DEF QuietInv, Seen, Wakes
    <3>3. Outcome'
      BY Zenon, <1>1, <2>1, <3>1, WrittenFields DEF QuietInv, Outcome
    <3>4. QED
      BY Zenon, <3>1, <3>2, <3>3 DEF QuietInv, Remembered
  <2>3. CASE Conditioned.cond = work.copy.cond
    <3>1. Conditioned = obj /\ obj.cond = Condition(work.result, work.copy.deleting)
      BY Zenon, <2>1, <2>3, WrittenFields
    <3>2. obj.deleting => obj.finalizers # {}
      BY Zenon DEF SafetyInv, Versioned, Normal
    <3>3. obj' = obj
      BY Zenon, <2>1, <3>1, <3>2 DEF Store, Settled
    <3>4. Proceed
      BY Zenon, <1>3, <2>3 DEF UpdateStatus
    <3>5. QED
      BY Zenon, <1>1, <2>1, <3>1, <3>3, <3>4, ProceedQuiet
  <2>4. QED
    BY Zenon, <2>2, <2>3
<1>4. QED
  BY Zenon, <1>2, <1>3

\* Running the provisioner.
LEMMA ProvisionerQuiet ==
  ASSUME TypeOK, SafetyInv, QuietInv, Ordered', NEW result \in Results,
         Provision(result) \/ Deprovision(result)
  PROVE  QuietInv'
<1>1. UNCHANGED <<lister, leader, queued>> /\ work.at \in {"provision", "deprovision"}
  BY Zenon DEF Provision, Deprovision, Returns
<1>2. CASE result = "panic"
  BY SMTT(30), <1>2, RequeueQuiet DEF Provision, Deprovision, Returns, Requeue
<1>3. CASE result # "panic"
  <2>1. work'.at = "status" /\ work'.result = result /\ work'.copy = work.copy
    BY Zenon, <1>3 DEF Provision, Deprovision, Returns, TypeOK, Work
  <2>2. Seen'
    BY Zenon, <1>1, <2>1 DEF QuietInv, Seen
  <2>3. Outcome'
    <3>1. CASE Provision(result)
      <4>1. ~work.copy.deleting /\ (result = "nil" => world'.gen = work.copy.gen /\ work.copy.gen \notin Terminal)
        BY <3>1 DEF Provision, SafetyInv, Staged
      <4>2. result = "terminal" => work.copy.gen \in Terminal
        BY Zenon, <3>1 DEF Provision
      <4>3. QED
        BY Zenon, <2>1, <4>1, <4>2 DEF Outcome
    <3>2. CASE Deprovision(result)
      <4>1. work.copy.deleting /\ work.copy.finalizers = {Unikorn}
        BY Zenon, <3>2 DEF Deprovision, SafetyInv, Staged, QuietInv, Outcome
      <4>2. QED
        BY Zenon, <2>1, <4>1 DEF Outcome
    <3>3. QED
      BY Zenon, <3>1, <3>2
  <2>4. QED
    BY Zenon, <2>1, <2>2, <2>3 DEF QuietInv, Remembered
<1>4. QED
  BY Zenon, <1>2, <1>3

\* Every step preserves QuietInv, action by action.
LEMMA QuietNext ==
  ASSUME TypeOK, TypeOK', SafetyInv, QuietInv, [Next]_vars
  PROVE  QuietInv'
<1>1. Ordered'
  BY Zenon, OrderedNext DEF QuietInv
<1>2. CASE User \/ Others
  BY Zenon, <1>1, <1>2, ForeignQuiet
<1>3. ASSUME NEW r \in Replicas, Notify(r) \/ Failover(r) PROVE QuietInv'
  BY Zenon, <1>1, <1>3, NotifyQuiet, FailoverQuiet
<1>4. CASE GetFails \/ AddFinalizerFails \/ UpdateStatusFails \/ RemoveFinalizerFails
  BY SMTT(30), <1>1, <1>4, RequeueQuiet
     DEF GetFails, AddFinalizerFails, UpdateStatusFails, RemoveFinalizerFails, WriteFails, Requeue
<1>5. CASE Calm \/ UNCHANGED vars
  BY ZenonT(30), <1>1, <1>5 DEF Calm, vars, QuietInv, Seen, Outcome, Remembered, AtRest
<1>6. CASE RequeueFires
  BY SMTT(30), <1>1, <1>6 DEF RequeueFires, QuietInv, Seen, Outcome, Remembered
<1>7. CASE Dequeue
  <2>1. work'.at = "get"
    BY Zenon, <1>7 DEF Dequeue, TypeOK, Work
  <2>2. QED
    BY Zenon, <1>1, <2>1 DEF QuietInv, Seen, Outcome, Remembered
<1>8. CASE KeepCondition
  <2>1. work.at = "status" /\ work.result \notin {"nil", "terminal"} /\ Proceed
    BY Zenon, <1>8 DEF KeepCondition
  <2>2. UNCHANGED <<obj, lister, leader, queued, world>>
    BY Zenon, <1>8 DEF KeepCondition
  <2>3. QED
    BY Zenon, <1>1, <2>1, <2>2, ProceedQuiet
<1>9. CASE Emit
  <2>1. work.at = "emit" /\ Proceed /\ UNCHANGED <<obj, lister, leader, queued, world>>
    BY Zenon, <1>9 DEF Emit
  <2>2. obj.exists => obj.cond = Condition(work.result, work.copy.deleting)
    BY SMTT(30), <2>1 DEF SafetyInv, Staged, QuietInv, Outcome
  <2>3. QED
    BY Zenon, <1>1, <2>1, <2>2, ProceedQuiet
<1>10. CASE RemoveFinalizer
  <2>1. work.at = "release" /\ work' = Idle /\ obj' = Settled(Released)
    BY SMTT(30), <1>10 DEF RemoveFinalizer, Done, Store
  <2>2. work.copy.deleting /\ work.copy.finalizers = {Unikorn} /\ work.copy \in Object
    BY Zenon, <2>1 DEF SafetyInv, Staged, QuietInv, Outcome, TypeOK, Work
  <2>3. Released.deleting /\ Released.finalizers = {}
    BY Zenon, <2>2 DEF Released, Object
  <2>4. ~obj'.exists
    BY Zenon, <2>1, <2>3 DEF Settled, Gone
  <2>5. QED
    BY Zenon, <1>1, <2>1, <2>4 DEF QuietInv, Seen, Outcome, Remembered, Idle
<1>11. QED
  BY Zenon, <1>1, <1>2, <1>3, <1>4, <1>5, <1>6, <1>7, <1>8, <1>9, <1>10,
     ReconcileQuiet, WriteQuiet, ProvisionerQuiet
  DEF Next, Worker

(***************************************************************************)
(* Nothing is forgotten: a leader that has seen the latest version and has *)
(* nothing queued, delayed or running has provisioned the latest           *)
(* generation or reported it as refused, and is not sitting on a deletion, *)
(* whatever conflicts, lost replies, panics and elections came before.     *)
(***************************************************************************)
THEOREM QuietMeansSettledHolds == Spec => []QuietMeansSettled
<1>1. Init => QuietInv
  <2> SUFFICES ASSUME Init PROVE QuietInv
    BY Zenon
  <2>1. work.at = "idle" /\ \A r \in Replicas : ~lister[r].exists
    BY Zenon DEF Init, Idle, Gone
  <2>2. obj.exists /\ leader \in Replicas
    BY Zenon DEF Init, Gone
  <2>3. QED
    BY Zenon, <2>1, <2>2 DEF QuietInv, Ordered, Seen, Outcome, Remembered, Wakes
<1>2. TypeOK /\ TypeOK' /\ SafetyInv /\ QuietInv /\ [Next]_vars => QuietInv'
  BY Zenon, QuietNext
<1>3. SafetyInv /\ QuietInv => QuietMeansSettled
  <2> SUFFICES ASSUME SafetyInv, QuietInv, leader \in fresh, ~queued, ~delayed, work.at = "idle", obj.exists
               PROVE  AtRest(obj)
    BY Zenon DEF QuietMeansSettled, AtRest
  <2>1. ~Wakes(lister[leader], obj)
    BY Zenon DEF SafetyInv, Versioned, Wakes
  <2>2. QED
    BY Zenon, <2>1 DEF QuietInv, Remembered
<1>4. QED
  BY <1>1, <1>2, <1>3, TypeCorrect, SafetyInvariant, PTL DEF Spec
=============================================================================

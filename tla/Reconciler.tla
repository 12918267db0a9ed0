----------------------------- MODULE Reconciler -----------------------------
(***************************************************************************)
(* The generic reconciler of pkg/manager/reconcile.go, driving one managed *)
(* resource through its life.                                              *)
(*                                                                         *)
(* Actors: the user who edits and deletes the resource, other controllers  *)
(* that reference it, the garbage collector, the informer that feeds each  *)
(* replica's cache, the work queue, and the reconciler of the leader. The  *)
(* API server, informer, queue and election are Kubernetes' (external).    *)
(* Every client call of the reconciler is a step of its own.               *)
(***************************************************************************)
EXTENDS Naturals

CONSTANTS
  Replicas,       \* processes of the controller, one of them the leader
  Holders,        \* references other resources may put on this one
  MaxGen,         \* bound: generations of the spec
  MaxReferences,  \* bound: references added
  MaxFailovers,   \* bound: restarts of the leader and elections of another
  Terminal,       \* generations the provisioner refuses for good
  LostReplies,    \* a write may be applied although the client sees an error
  FaultsCease     \* calls that can succeed do so from some time on

Unikorn    == "unikorn"
Foreground == "foregroundDeletion"
Finalizers == {Unikorn, Foreground} \cup Holders

ASSUME ConstantsAssumption ==
  /\ Unikorn \notin Holders
  /\ Foreground \notin Holders
  /\ MaxGen \in Nat \ {0}
  /\ MaxReferences \in Nat
  /\ MaxFailovers \in Nat
  /\ Terminal \subseteq 1..MaxGen
  /\ LostReplies \in BOOLEAN
  /\ FaultsCease \in BOOLEAN

VARIABLES
  obj,         \* the resource in the API server
  lister,      \* each replica's cached copy of it
  fresh,       \* replicas whose copy has obj's resourceVersion
  leader,      \* the replica that reconciles
  queued,      \* the work queue holds the resource
  delayed,     \* the resource is to be queued again later
  work,        \* the reconcile in progress and its local variables
  world,       \* the infrastructure the provisioner manages
  logged,      \* the condition last emitted on the provisioning log
  references,  \* references added so far
  failovers,   \* restarts and elections so far
  calm         \* faults have ceased

vars == <<obj, lister, fresh, leader, queued, delayed, work, world, logged,
          references, failovers, calm>>

NoCondition == [status |-> "None", reason |-> "None"]

Gone == [exists |-> FALSE, gen |-> 0, paused |-> FALSE, deleting |-> FALSE,
         finalizers |-> {}, cond |-> NoCondition]

Idle == [at |-> "idle", copy |-> Gone, current |-> FALSE, result |-> "nil"]

Init ==
  /\ obj        = [Gone EXCEPT !.exists = TRUE, !.gen = 1]
  /\ lister     = [r \in Replicas |-> Gone]
  /\ fresh      = {}
  /\ leader     \in Replicas
  /\ queued     = FALSE
  /\ delayed    = FALSE
  /\ work       = Idle
  /\ world      = [exists |-> FALSE, gen |-> 0]
  /\ logged     = NoCondition
  /\ references = 0
  /\ failovers  = 0
  /\ calm       = FALSE
-----------------------------------------------------------------------------
(***************************************************************************)
(* The API server. A write that carries an old resourceVersion is refused; *)
(* one that changes nothing keeps the resourceVersion; a resource that is  *)
(* being deleted takes no new finalizer and goes with its last one.        *)
(***************************************************************************)
Settled(o) == IF o.deleting /\ o.finalizers = {} THEN Gone ELSE o

Store(o) ==
  /\ obj' = Settled(o)
  /\ fresh' = IF Settled(o) = obj THEN fresh ELSE {}

\* A write by anybody but the reconciler.
Foreign(o) ==
  /\ Store(o)
  /\ work' = [work EXCEPT !.current = FALSE]
  /\ UNCHANGED <<lister, leader, queued, delayed, world, logged, failovers, calm>>

UpdateSpec(paused) ==
  /\ obj.exists
  /\ obj.gen < MaxGen
  /\ Foreign([obj EXCEPT !.gen = @ + 1, !.paused = paused])
  /\ UNCHANGED references

Delete(dependents) ==
  /\ obj.exists
  /\ ~obj.deleting
  /\ Foreign([obj EXCEPT !.deleting = TRUE, !.finalizers = @ \cup dependents])
  /\ UNCHANGED references

GarbageCollect ==
  /\ Foreground \in obj.finalizers
  /\ Foreign([obj EXCEPT !.finalizers = @ \ {Foreground}])
  /\ UNCHANGED references

AddReference(h) ==
  /\ obj.exists
  /\ ~obj.deleting
  /\ h \notin obj.finalizers
  /\ references < MaxReferences
  /\ references' = references + 1
  /\ Foreign([obj EXCEPT !.finalizers = @ \cup {h}])

RemoveReference(h) ==
  /\ h \in obj.finalizers
  /\ Foreign([obj EXCEPT !.finalizers = @ \ {h}])
  /\ UNCHANGED references
-----------------------------------------------------------------------------
(***************************************************************************)
(* The informer and the work queue. The watch predicate passes creation,   *)
(* deletion and a change of generation, which a deletionTimestamp is too.  *)
(***************************************************************************)
\* Mutant of Wakes: a new generation is filtered out.
WakesOnLifecycle(old, new) == old.exists # new.exists \/ old.deleting # new.deleting

Wakes(old, new) == old.exists # new.exists \/ old.gen # new.gen \/ old.deleting # new.deleting

Notify(r) ==
  /\ r \notin fresh
  /\ lister' = [lister EXCEPT ![r] = obj]
  /\ fresh' = fresh \cup {r}
  /\ queued' = (queued \/ (r = leader /\ Wakes(lister[r], obj)))
  /\ UNCHANGED <<obj, leader, delayed, work, world, logged, references, failovers, calm>>

RequeueFires ==
  /\ delayed
  /\ delayed' = FALSE
  /\ queued' = TRUE
  /\ UNCHANGED <<obj, lister, fresh, leader, work, world, logged, references, failovers, calm>>

Dequeue ==
  /\ work.at = "idle"
  /\ queued
  /\ queued' = FALSE
  /\ work' = [work EXCEPT !.at = "get"]
  /\ UNCHANGED <<obj, lister, fresh, leader, delayed, world, logged, references, failovers, calm>>

(***************************************************************************)
(* The leader restarts with a new list, or a standby takes over with the   *)
(* cache it has. The queue and the reconcile in progress are lost; the new *)
(* controller queues what its cache holds.                                 *)
(***************************************************************************)
Failover(r) ==
  /\ failovers < MaxFailovers
  /\ failovers' = failovers + 1
  /\ leader' = r
  /\ lister' = IF r = leader THEN [lister EXCEPT ![r] = obj] ELSE lister
  /\ fresh' = IF r = leader THEN fresh \cup {r} ELSE fresh
  /\ queued' = lister'[r].exists
  /\ delayed' = FALSE
  /\ work' = Idle
  /\ UNCHANGED <<obj, world, logged, references, calm>>
-----------------------------------------------------------------------------
(***************************************************************************)
(* Reconcile.                                                              *)
(***************************************************************************)
\* Result{} and nil: nothing more happens until the next event.
Done == work' = Idle /\ UNCHANGED delayed

\* RequeueAfter, or an error that the queue answers with back-off.
Requeue == work' = Idle /\ delayed' = TRUE

Goto(at) == work' = [work EXCEPT !.at = at] /\ UNCHANGED delayed

GetResourceReferences(o) == o.finalizers \ {Unikorn, Foreground}

\* Mutant of Awaited: references are not looked at.
AwaitedDependents(o) == Foreground \in o.finalizers

\* A deletion waits for references and for owned resources.
Awaited(o) == GetResourceReferences(o) # {} \/ Foreground \in o.finalizers

GetFails ==
  /\ work.at = "get"
  /\ ~calm
  /\ Requeue
  /\ UNCHANGED <<obj, lister, fresh, leader, queued, world, logged, references, failovers, calm>>

Reconcile ==
  /\ work.at = "get"
  /\ LET object == lister[leader]
         Read(at, result) == work' = [at |-> at, copy |-> object, current |-> leader \in fresh,
                                      result |-> result]
     IN  \/ /\ \/ ~object.exists
               \/ object.deleting /\ object.finalizers = {}
               \/ ~object.deleting /\ object.paused
            /\ work' = Idle
         \/ /\ object.deleting /\ Awaited(object)
            /\ Read("status", "yield")
         \/ /\ object.deleting /\ ~Awaited(object) /\ object.finalizers # {}
            /\ Read("deprovision", "nil")
         \/ /\ object.exists /\ ~object.deleting /\ ~object.paused
            /\ Read(IF Unikorn \in object.finalizers THEN "provision" ELSE "finalize", "nil")
  /\ UNCHANGED <<obj, lister, fresh, leader, queued, delayed, world, logged, references, failovers, calm>>

\* A client write fails: it conflicts, is refused, or only its reply is lost.
WriteFails(o) ==
  /\ \/ /\ calm => ~work.current
        /\ UNCHANGED <<obj, fresh>>
     \/ /\ LostReplies /\ ~calm /\ work.current
        /\ Store(o)
  /\ Requeue
  /\ UNCHANGED <<lister, leader, queued, world, logged, references, failovers, calm>>

\* Mutant of Finalized: the update goes out without the finalizer.
FinalizedNot == work.copy

Finalized == [work.copy EXCEPT !.finalizers = @ \cup {Unikorn}]

AddFinalizer ==
  /\ work.at = "finalize"
  /\ work.current
  /\ Store(Finalized)
  /\ work' = [work EXCEPT !.at = "provision", !.copy = Finalized]
  /\ UNCHANGED <<lister, leader, queued, delayed, world, logged, references, failovers, calm>>

AddFinalizerFails == work.at = "finalize" /\ WriteFails(Finalized)

(***************************************************************************)
(* Provision and Deprovision (external) make partial progress and say how  *)
(* it went: "blocked" is a typed yield, "terminal" stands for ErrTerminal  *)
(* and ErrUserActionRequired, and a panic is recovered by the controller.  *)
(* world.gen is the generation Provision last succeeded for, 0 once        *)
(* teardown has begun.                                                     *)
(***************************************************************************)
Results == {"nil", "yield", "blocked", "canceled", "error", "terminal", "panic"}

Returns(result) ==
  /\ \/ result # "panic" /\ work' = [work EXCEPT !.at = "status", !.result = result] /\ UNCHANGED delayed
     \/ result = "panic" /\ Requeue
  /\ UNCHANGED <<obj, lister, fresh, leader, queued, logged, references, failovers, calm>>

Provision(result) ==
  /\ work.at = "provision"
  /\ result = "nil" => work.copy.gen \notin Terminal
  /\ result = "terminal" => work.copy.gen \in Terminal
  /\ calm => result \in {"nil", "terminal"}
  /\ \/ result = "nil" /\ world' = [exists |-> TRUE, gen |-> work.copy.gen]
     \/ result # "nil" /\ world' \in {world, [world EXCEPT !.exists = TRUE]}
  /\ Returns(result)

Deprovision(result) ==
  /\ work.at = "deprovision"
  /\ calm => result = "nil"
  /\ \/ result = "nil" /\ world' = [exists |-> FALSE, gen |-> 0]
     \/ result # "nil" /\ world' \in {world, [world EXCEPT !.gen = 0]}
  /\ Returns(result)
-----------------------------------------------------------------------------
(***************************************************************************)
(* handleReconcileCondition, and what follows it in reconcileNormal and    *)
(* reconcileDelete.                                                        *)
(***************************************************************************)
\* Mutant of Condition: a yield is reported like success.
ConditionOptimistic(result, deprovision) ==
  [status |-> IF result \in {"nil", "yield"} THEN "True" ELSE "False",
   reason |-> IF deprovision THEN "Deprovisioned" ELSE "Provisioned"]

Condition(result, deprovision) ==
  CASE result = "nil"     -> [status |-> "True",
                              reason |-> IF deprovision THEN "Deprovisioned" ELSE "Provisioned"]
    [] result = "yield"   -> [status |-> "False",
                              reason |-> IF deprovision THEN "Deprovisioning" ELSE "Provisioning"]
    [] result = "blocked" -> [status |-> "False", reason |-> "Dependency"]
    [] OTHER              -> [status |-> "False", reason |-> "Errored"]

\* reconcileDelete is running, not reconcileNormal.
Deprovisioning == work.copy.deleting

\* Mutant of Proceed: every failed provision is parked.
ProceedParksErrors ==
  \/ Deprovisioning /\ work.result = "nil" /\ Goto("release")
  \/ Deprovisioning /\ work.result # "nil" /\ Requeue
  \/ ~Deprovisioning /\ Done

\* Mutant of Proceed: a yield does not keep the finalizer.
ProceedReleasesOnYield ==
  \/ Deprovisioning /\ work.result \in {"nil", "yield"} /\ Goto("release")
  \/ Deprovisioning /\ work.result \notin {"nil", "yield"} /\ Requeue
  \/ ~Deprovisioning /\ Requeue

\* The rest of the reconcile once the condition is dealt with.
Proceed ==
  \/ /\ Deprovisioning /\ work.result = "nil"
     /\ IF Unikorn \in work.copy.finalizers THEN Goto("release") ELSE Done
  \/ Deprovisioning /\ work.result # "nil" /\ Requeue
  \/ ~Deprovisioning /\ work.result \in {"nil", "terminal"} /\ Done
  \/ ~Deprovisioning /\ work.result \notin {"nil", "terminal"} /\ Requeue

Conditioned == [work.copy EXCEPT !.cond = Condition(work.result, Deprovisioning)]

\* context.Canceled leaves the condition as it is.
KeepCondition ==
  /\ work.at = "status"
  /\ work.result = "canceled"
  /\ Proceed
  /\ UNCHANGED <<obj, lister, fresh, leader, queued, world, logged, references, failovers, calm>>

\* Status().Update, and the edge that makes the change worth logging.
UpdateStatus ==
  /\ work.at = "status"
  /\ work.result # "canceled"
  /\ work.current
  /\ Store(Conditioned)
  /\ \/ /\ Conditioned.cond # work.copy.cond
        /\ work' = [work EXCEPT !.at = "emit", !.copy = Conditioned]
        /\ UNCHANGED delayed
     \/ /\ Conditioned.cond = work.copy.cond
        /\ Proceed
  /\ UNCHANGED <<lister, leader, queued, world, logged, references, failovers, calm>>

\* Mutant of UpdateStatusFails: the log is written before the update.
UpdateStatusFailsLogged ==
  /\ work.at = "status"
  /\ work.result # "canceled"
  /\ logged' = Conditioned.cond
  /\ Requeue
  /\ UNCHANGED <<obj, lister, fresh, leader, queued, world, references, failovers, calm>>

UpdateStatusFails ==
  /\ work.at = "status"
  /\ work.result # "canceled"
  /\ WriteFails(Conditioned)

Emit ==
  /\ work.at = "emit"
  /\ logged' = work.copy.cond
  /\ Proceed
  /\ UNCHANGED <<obj, lister, fresh, leader, queued, world, references, failovers, calm>>

Released == [work.copy EXCEPT !.finalizers = @ \ {Unikorn}]

RemoveFinalizer ==
  /\ work.at = "release"
  /\ work.current
  /\ Store(Released)
  /\ Done
  /\ UNCHANGED <<lister, leader, queued, world, logged, references, failovers, calm>>

RemoveFinalizerFails == work.at = "release" /\ WriteFails(Released)
-----------------------------------------------------------------------------
\* From now on the API server answers and provisioners are not in the way.
Calm ==
  /\ FaultsCease
  /\ ~calm
  /\ calm' = TRUE
  /\ UNCHANGED <<obj, lister, fresh, leader, queued, delayed, work, world, logged,
                 references, failovers>>

User ==
  \/ \E paused \in BOOLEAN : UpdateSpec(paused)
  \/ \E dependents \in SUBSET {Foreground} : Delete(dependents)

Others ==
  \/ GarbageCollect
  \/ \E h \in Holders : AddReference(h) \/ RemoveReference(h)

Worker ==
  \/ Dequeue
  \/ GetFails
  \/ Reconcile
  \/ AddFinalizer
  \/ AddFinalizerFails
  \/ \E result \in Results : Provision(result) \/ Deprovision(result)
  \/ KeepCondition
  \/ UpdateStatus
  \/ UpdateStatusFails
  \/ Emit
  \/ RemoveFinalizer
  \/ RemoveFinalizerFails

Next ==
  \/ User
  \/ Others
  \/ \E r \in Replicas : Notify(r) \/ Failover(r)
  \/ RequeueFires
  \/ Worker
  \/ Calm

Spec == Init /\ [][Next]_vars

(***************************************************************************)
(* Kubernetes delivers events, fires timers and runs the worker; faults    *)
(* cease; references are dropped and dependents collected. Nothing is      *)
(* assumed of the user.                                                    *)
(***************************************************************************)
Fairness ==
  /\ \A r \in Replicas : WF_vars(Notify(r))
  /\ WF_vars(RequeueFires)
  /\ WF_vars(Worker)
  /\ WF_vars(Calm)
  /\ WF_vars(GarbageCollect)
  /\ \A h \in Holders : WF_vars(RemoveReference(h))

FairSpec == Spec /\ Fairness
-----------------------------------------------------------------------------
Conditions == [status : {"None", "True", "False"},
               reason : {"None", "Provisioned", "Provisioning", "Deprovisioned",
                         "Deprovisioning", "Dependency", "Errored"}]

Object == [exists : BOOLEAN, gen : 0..MaxGen, paused : BOOLEAN, deleting : BOOLEAN,
           finalizers : SUBSET Finalizers, cond : Conditions]

World == [exists : BOOLEAN, gen : 0..MaxGen]

Work == [at : {"idle", "get", "finalize", "provision", "deprovision", "status", "emit", "release"},
         copy : Object, current : BOOLEAN, result : Results]

\* Types of the state.
TypeOK ==
  /\ obj \in Object
  /\ lister \in [Replicas -> Object]
  /\ fresh \subseteq Replicas
  /\ leader \in Replicas
  /\ queued \in BOOLEAN
  /\ delayed \in BOOLEAN
  /\ work \in Work
  /\ world \in World
  /\ logged \in Conditions
  /\ references \in 0..MaxReferences
  /\ failovers \in 0..MaxFailovers
  /\ calm \in BOOLEAN

(***************************************************************************)
(* No orphans: infrastructure exists, or is about to be made, only for a   *)
(* resource that is still there and held by our finalizer.                 *)
(***************************************************************************)
NoOrphans ==
  world.exists \/ work.at = "provision" => obj.exists /\ Unikorn \in obj.finalizers

(***************************************************************************)
(* "Resources from one service can inhibit the deletion of those in        *)
(* others": Deprovision only runs when nobody references the resource and  *)
(* its dependents are gone, however old the copy it was decided on.        *)
(***************************************************************************)
DeprovisionUnreferenced ==
  work.at = "deprovision" => GetResourceReferences(obj) = {} /\ Foreground \notin obj.finalizers

(***************************************************************************)
(* Our finalizer is given up only when the infrastructure is gone.         *)
(***************************************************************************)
FinalizerLast ==
  [][(Unikorn \in obj.finalizers \ obj'.finalizers) => ~world.exists]_vars

(***************************************************************************)
(* ResourceReady: a resource that is not being deleted and says it is      *)
(* Provisioned has been provisioned and not torn down since.               *)
(***************************************************************************)
ReadyMeansProvisioned ==
  obj.exists /\ ~obj.deleting /\ obj.cond.reason = "Provisioned" => world.gen > 0

(***************************************************************************)
(* Nothing is forgotten: when the leader has seen the latest version and   *)
(* has nothing queued, delayed or running, an unpaused resource is         *)
(* provisioned for its latest generation and says so, or that generation   *)
(* is refused for good and says so; and no deletion is waiting.            *)
(***************************************************************************)
QuietMeansSettled ==
  leader \in fresh /\ ~queued /\ ~delayed /\ work.at = "idle" /\ obj.exists =>
    /\ ~obj.deleting
    /\ ~obj.paused /\ obj.gen \notin Terminal =>
         world.gen = obj.gen /\ obj.cond = Condition("nil", FALSE)
    /\ ~obj.paused /\ obj.gen \in Terminal => obj.cond.status = "False"

(***************************************************************************)
(* The provisioning log "reflects committed state": what is emitted is the *)
(* condition the API server holds.                                         *)
(***************************************************************************)
LogCommitted == [][logged' # logged /\ obj.exists => logged' = obj.cond]_vars

(***************************************************************************)
(* Once faults cease, and through references, dependents, failed           *)
(* teardowns, conflicts and restarts: a resource whose deletion was        *)
(* requested goes away, and one that is neither deleted nor paused is      *)
(* provisioned for its latest generation, also when an earlier generation  *)
(* was parked as terminal.                                                 *)
(***************************************************************************)
Converges ==
  <>[](obj.exists =>
         /\ ~obj.deleting
         /\ ~obj.paused /\ obj.gen \notin Terminal =>
              world.gen = obj.gen /\ obj.cond = Condition("nil", FALSE))

(***************************************************************************)
(* "a failed update simply retries and re-evaluates the edge next          *)
(* reconcile": the log catches up with the condition in the end.           *)
(***************************************************************************)
LogCatchesUp == <>[](obj.exists /\ ~obj.deleting => logged = obj.cond)
=============================================================================

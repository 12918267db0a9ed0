------------------------- MODULE ResourceReferences -------------------------
(***************************************************************************)
(* The reference helpers of pkg/manager/reference.go: consumers keep the   *)
(* resources they use alive by putting a finalizer of their own on them.   *)
(*                                                                         *)
(* A consumer's reconcile calls the helpers as their comments say: it adds *)
(* references before it uses resources, and removes them after it stopped. *)
(* The bulk helpers work on a List, the others on a Get of one resource;   *)
(* both are reads of the consumer's informer cache. A resource that is     *)
(* being deleted goes only when nobody references it: that is what         *)
(* Reconciler shows of its owner (DeprovisionUnreferenced).                *)
(***************************************************************************)
EXTENDS Naturals

CONSTANTS
  Resources,   \* what is referenced
  Consumers,   \* what references, each with a controller and a cache
  Singles,     \* consumers that use the helpers for one resource, of the only one
  MaxChanges,  \* bound: changes of what a consumer wants
  MaxFaults,   \* bound: requests and provisioners that fail for no reason of the model
  StaleReads   \* a read may find a cache that lags

ASSUME ConstantsAssumption ==
  /\ Singles \subseteq Consumers
  /\ Singles # {} => \A x, y \in Resources : x = y
  /\ MaxChanges \in Nat
  /\ MaxFaults \in Nat
  /\ StaleReads \in BOOLEAN

VARIABLES
  res,        \* the resources in the API server
  cache,      \* each consumer's cached copies
  synced,     \* the resources of which a consumer's copy is the latest version
  consumers,  \* the consumers and their reconciles
  changes,    \* changes so far
  faults      \* faults so far

vars == <<res, cache, synced, consumers, changes, faults>>

Gone == [exists |-> FALSE, deleting |-> FALSE, refs |-> {}]

Live == [Gone EXCEPT !.exists = TRUE]

Init ==
  /\ res       = [x \in Resources |-> Live]
  /\ cache     = [c \in Consumers |-> [x \in Resources |-> Live]]
  /\ synced    = [c \in Consumers |-> Resources]
  /\ consumers = [c \in Consumers |->
                   [at |-> "idle", wanted |-> {}, deleting |-> FALSE, uses |-> {}, ids |-> {},
                    todo |-> {}, copy |-> [x \in Resources |-> Live], current |-> {}]]
  /\ changes   = 0
  /\ faults    = 0
-----------------------------------------------------------------------------
(***************************************************************************)
(* The API server: a write makes every cached and listed copy old, that of *)
(* the writer included, since the helpers do not read again.               *)
(***************************************************************************)
Write(x, r) ==
  /\ res' = [res EXCEPT ![x] = r]
  /\ synced' = [c \in Consumers |-> synced[c] \ {x}]
  /\ UNCHANGED <<cache, changes>>

\* The consumers after a write to x: nobody holds its latest version.
Outdated(x) == [c \in Consumers |-> [consumers[c] EXCEPT !.current = @ \ {x}]]

Delete(x) ==
  /\ res[x].exists
  /\ ~res[x].deleting
  /\ Write(x, [res[x] EXCEPT !.deleting = TRUE])
  /\ consumers' = Outdated(x)
  /\ UNCHANGED faults

\* The owner's reconciler tears the resource down.
Reap(x) ==
  /\ res[x].deleting
  /\ res[x].refs = {}
  /\ Write(x, Gone)
  /\ consumers' = Outdated(x)
  /\ UNCHANGED faults

Sync(c, x) ==
  /\ x \notin synced[c]
  /\ cache' = [cache EXCEPT ![c][x] = res[x]]
  /\ synced' = [synced EXCEPT ![c] = @ \cup {x}]
  /\ UNCHANGED <<res, consumers, changes, faults>>

\* The user changes what a consumer wants, or deletes the consumer.
Want(c, ids) ==
  /\ ~consumers[c].deleting
  /\ ids # consumers[c].wanted
  /\ changes < MaxChanges
  /\ changes' = changes + 1
  /\ consumers' = [consumers EXCEPT ![c].wanted = ids]
  /\ UNCHANGED <<res, cache, synced, faults>>

DeleteConsumer(c) ==
  /\ ~consumers[c].deleting
  /\ consumers' = [consumers EXCEPT ![c] = [@ EXCEPT !.deleting = TRUE, !.wanted = {}]]
  /\ UNCHANGED <<res, cache, synced, changes, faults>>
-----------------------------------------------------------------------------
(***************************************************************************)
(* The reconcile of a consumer.                                            *)
(***************************************************************************)
\* A Get or List: the caller keeps the copies, and their resourceVersions.
Read(c, at, ids, todo) ==
  /\ StaleReads \/ synced[c] = Resources
  /\ consumers' = [consumers EXCEPT ![c] = [@ EXCEPT !.at = at, !.ids = ids, !.todo = todo,
                                                     !.copy = cache[c], !.current = synced[c]]]
  /\ UNCHANGED <<res, cache, synced, changes, faults>>

\* The helper returns an error or ErrYield: the reconcile ends and is retried.
Retry(c) ==
  /\ consumers' = [consumers EXCEPT ![c].at = "idle"]
  /\ UNCHANGED <<res, cache, synced, changes, faults>>

Fault ==
  /\ faults < MaxFaults
  /\ faults' = faults + 1

\* The helper has nothing to do for x.
Skip(c, x) ==
  /\ consumers' = [consumers EXCEPT ![c].todo = @ \ {x}]
  /\ UNCHANGED <<res, cache, synced, changes, faults>>

\* Mutant of Update: no optimistic lock, the copy's list of references wins.
UpdateLastWins(c, x, refs) ==
  /\ res[x].exists
  /\ Write(x, [res[x] EXCEPT !.refs = refs])
  /\ consumers' = [Outdated(x) EXCEPT ![c].todo = @ \ {x}]
  /\ UNCHANGED faults

\* An Update of x that the API server accepts.
Update(c, x, refs) ==
  /\ x \in consumers[c].current
  /\ Write(x, [res[x] EXCEPT !.refs = refs])
  /\ consumers' = [Outdated(x) EXCEPT ![c].todo = @ \ {x}]
  /\ UNCHANGED faults

AddResourceReferences(c) ==
  /\ consumers[c].at = "idle"
  /\ Read(c, "add", consumers[c].wanted, consumers[c].wanted)

\* Mutant of AddReference: a resource that is not found is passed over.
AddReferenceLenient(c, x) ==
  /\ consumers[c].at = "add"
  /\ x \in consumers[c].todo
  /\ LET copy == consumers[c].copy[x]
     IN  \/ (~copy.exists \/ c \in copy.refs) /\ Skip(c, x)
         \/ /\ copy.exists
            /\ c \notin copy.refs
            /\ \/ ~res[x].deleting /\ Update(c, x, copy.refs \cup {c})
               \/ (x \notin consumers[c].current \/ res[x].deleting) /\ Retry(c)

\* The loop body, or AddResourceReference: an unknown resource is an error; no
\* Update if the copy has the reference; a conflict yields. No finalizer can be
\* added to a resource that is being deleted.
AddReference(c, x) ==
  /\ consumers[c].at = "add"
  /\ x \in consumers[c].todo
  /\ LET copy == consumers[c].copy[x]
     IN  \/ ~copy.exists /\ Retry(c)
         \/ copy.exists /\ c \in copy.refs /\ Skip(c, x)
         \/ /\ copy.exists
            /\ c \notin copy.refs
            /\ \/ ~res[x].deleting /\ Update(c, x, copy.refs \cup {c})
               \/ (x \notin consumers[c].current \/ res[x].deleting) /\ Retry(c)

\* The consumer's provisioner (external) takes up what it wants and lets go of
\* the rest, or fails when it has only taken up.
Use(c) ==
  /\ consumers[c].at = "add"
  /\ consumers[c].todo = {}
  /\ consumers' = [consumers EXCEPT ![c] = [@ EXCEPT !.at = "used", !.uses = consumers[c].ids]]
  /\ UNCHANGED <<res, cache, synced, changes, faults>>

UseFails(c) ==
  /\ Fault
  /\ consumers[c].at = "add"
  /\ consumers[c].todo = {}
  /\ consumers' = [consumers EXCEPT ![c] = [@ EXCEPT !.at = "idle", !.uses = consumers[c].uses \cup consumers[c].ids]]
  /\ UNCHANGED <<res, cache, synced, changes>>

RemoveResourceReferences(c) ==
  /\ consumers[c].at = "used"
  /\ Read(c, "remove", consumers[c].ids, {x \in Resources : cache[c][x].exists} \ consumers[c].ids)

\* Mutant of RemoveReference: a conflict is passed over.
RemoveReferenceOnce(c, x) ==
  /\ consumers[c].at = "remove"
  /\ x \in consumers[c].todo
  /\ LET copy == consumers[c].copy[x]
     IN  \/ (c \notin copy.refs \/ x \notin consumers[c].current) /\ Skip(c, x)
         \/ c \in copy.refs /\ Update(c, x, copy.refs \ {c})

\* Mutant of RemoveReference: a resource that is being deleted is left to others.
RemoveReferenceWaits(c, x) ==
  /\ consumers[c].at = "remove"
  /\ x \in consumers[c].todo
  /\ LET copy == consumers[c].copy[x]
     IN  \/ c \notin copy.refs /\ Skip(c, x)
         \/ c \in copy.refs /\ ~copy.deleting /\ Update(c, x, copy.refs \ {c})
         \/ c \in copy.refs /\ (copy.deleting \/ x \notin consumers[c].current) /\ Retry(c)

\* The callback, or RemoveResourceReference, which takes a resource that is gone
\* for success.
RemoveReference(c, x) ==
  /\ consumers[c].at = "remove"
  /\ x \in consumers[c].todo
  /\ LET copy == consumers[c].copy[x]
     IN  \/ c \notin copy.refs /\ Skip(c, x)
         \/ /\ c \in copy.refs
            /\ \/ Update(c, x, copy.refs \ {c})
               \/ c \in Singles /\ ~res[x].exists /\ Skip(c, x)
               \/ /\ x \notin consumers[c].current
                  /\ c \in Singles => res[x].exists
                  /\ Retry(c)

\* An Update is applied but its reply is lost.
UpdateLost(c, x) ==
  /\ Fault
  /\ x \in consumers[c].todo \cap consumers[c].current
  /\ \/ /\ consumers[c].at = "add"
        /\ c \notin res[x].refs
        /\ res[x].exists /\ ~res[x].deleting
        /\ Write(x, [res[x] EXCEPT !.refs = @ \cup {c}])
     \/ /\ consumers[c].at = "remove"
        /\ c \in res[x].refs
        /\ Write(x, [res[x] EXCEPT !.refs = @ \ {c}])
  /\ consumers' = [Outdated(x) EXCEPT ![c].at = "idle"]

\* A List, Get or Update fails, or the consumer's controller restarts.
RequestFails(c) ==
  /\ Fault
  /\ consumers[c].at \in {"add", "used", "remove"}
  /\ consumers' = [consumers EXCEPT ![c].at = "idle"]
  /\ UNCHANGED <<res, cache, synced, changes>>

\* The reconcile is complete; that of a deletion is the last one.
Done(c) ==
  /\ consumers[c].at = "remove"
  /\ consumers[c].todo = {}
  /\ consumers' = [consumers EXCEPT ![c].at =
                     IF consumers[c].deleting /\ consumers[c].ids = {} THEN "gone" ELSE "idle"]
  /\ UNCHANGED <<res, cache, synced, changes, faults>>
-----------------------------------------------------------------------------
Reconcile(c) ==
  \/ AddResourceReferences(c)
  \/ \E x \in Resources : AddReference(c, x)
  \/ Use(c)
  \/ RemoveResourceReferences(c)
  \/ \E x \in Resources : RemoveReference(c, x)
  \/ Done(c)

Next ==
  \/ \E x \in Resources : Delete(x) \/ Reap(x)
  \/ \E c \in Consumers, x \in Resources : Sync(c, x) \/ UpdateLost(c, x)
  \/ \E c \in Consumers, ids \in SUBSET Resources : Want(c, ids)
  \/ \E c \in Consumers : DeleteConsumer(c) \/ Reconcile(c) \/ UseFails(c) \/ RequestFails(c)

Spec == Init /\ [][Next]_vars

\* Controllers requeue what failed, informers catch up, and the owner tears down.
Fairness ==
  /\ \A x \in Resources : WF_vars(Reap(x))
  /\ \A c \in Consumers : WF_vars(Reconcile(c))
  /\ \A c \in Consumers, x \in Resources : WF_vars(Sync(c, x))

FairSpec == Spec /\ Fairness
-----------------------------------------------------------------------------
(***************************************************************************)
(* Properties.                                                             *)
(***************************************************************************)
Object == [exists : BOOLEAN, deleting : BOOLEAN, refs : SUBSET Consumers]

Consumer ==
  [at : {"idle", "add", "used", "remove", "gone"}, wanted : SUBSET Resources,
   deleting : BOOLEAN, uses : SUBSET Resources, ids : SUBSET Resources,
   todo : SUBSET Resources, copy : [Resources -> Object], current : SUBSET Resources]

\* The type invariant; a resource that is gone carries no reference: the Update
\* of a copy read before does not bring it back.
TypeOK ==
  /\ res \in [Resources -> Object]
  /\ \A x \in Resources : res[x].exists \/ res[x] = Gone
  /\ cache \in [Consumers -> [Resources -> Object]]
  /\ synced \in [Consumers -> SUBSET Resources]
  /\ consumers \in [Consumers -> Consumer]
  /\ changes \in 0..MaxChanges
  /\ faults \in 0..MaxFaults

\* A resource in use exists and carries the user's reference: what
\* AddResourceReferences is called for before the resource is consumed.
UsedIsHeld ==
  \A c \in Consumers : \A x \in consumers[c].uses :
    res[x].exists /\ c \in res[x].refs

\* When RemoveResourceReferences has returned, no resource outside the given set
\* carries the reference; a consumer that is gone left none behind.
RemovedIsGone ==
  \A c \in Consumers :
    \/ consumers[c].at = "remove" /\ consumers[c].todo = {}
    \/ consumers[c].at = "gone"
    => \A x \in Resources \ consumers[c].ids : c \notin res[x].refs

\* A reference is taken off only by the consumer it belongs to: the Update writes
\* the whole list of finalizers of an older copy, and loses nobody else's.
OwnReferencesOnly ==
  [][\A x \in Resources, c \in Consumers :
       (c \in res[x].refs /\ c \notin res'[x].refs) => (consumers[c].at = "remove" /\ x \notin consumers[c].ids)]_vars

\* A deletion is not blocked by references for ever: the resource goes, unless a
\* consumer still wants it, or wants another one that it cannot have and so never
\* gets to RemoveResourceReferences.
DeletionUnblocked ==
  \A x \in Resources :
    res[x].deleting ~> \/ ~res[x].exists
                       \/ \E c \in Consumers : \E y \in consumers[c].wanted :
                            x = y \/ res[y].deleting \/ ~res[y].exists
=============================================================================

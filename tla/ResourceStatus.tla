---------------------------- MODULE ResourceStatus --------------------------
(***************************************************************************)
(* What a user is told of a resource that depends on another. Its          *)
(* provisioner looks at the dependency and returns one of the errors of    *)
(* pkg/provisioners/errors.go; the reconciler writes the error's reason on *)
(* the Available condition and decides whether to try again; the API       *)
(* projects the condition on a status (pkg/server/conversion).             *)
(*                                                                         *)
(* An error is [disposition, reason]; its reason is None unless it is one  *)
(* of the package's own. External: the provisioner's own work, which       *)
(* succeeds, waits or fails as it likes.                                   *)
(***************************************************************************)
EXTENDS Naturals

CONSTANTS Resources,     \* A set of resources.
          DependsOn,     \* What each depends on, or None.
          None

\* None is no reason.
ASSUME StatusAssumption ==
  /\ DependsOn \in [Resources -> Resources \cup {None}]
  /\ None \notin Resources \cup {"Provisioned", "Provisioning", "Errored", "Deprovisioning", "Deprovisioned",
                               "DependencyNotReady", "DependencyFailed", "DependencyNotFound"}

VARIABLES
  resource,    \* Each resource: its existence, deletion and conditions.
  parked       \* Those nobody will reconcile before their spec changes.

statusVars == <<resource, parked>>

Absent == [exists |-> FALSE, deleting |-> FALSE, available |-> None]

StatusInit == resource = [r \in Resources |-> Absent] /\ parked = {}
-----------------------------------------------------------------------------
(***************************************************************************)
(* The errors, and who tells them apart.                                   *)
(***************************************************************************)
Terminal(reason)           == [disposition |-> "ErrTerminal", reason |-> reason]
UserActionRequired(reason) == [disposition |-> "ErrUserActionRequired", reason |-> reason]
Yield(reason)              == [disposition |-> "ErrYield", reason |-> reason]
NilError                   == [disposition |-> "nil", reason |-> None]
Untyped                    == [disposition |-> "other", reason |-> None]
Canceled                   == [disposition |-> "context.Canceled", reason |-> None]

DependencyNotReady == Yield("DependencyNotReady")
DependencyFailed   == Yield("DependencyFailed")
DependencyNotFound == Terminal("DependencyNotFound")

IsTerminal(err) == err.disposition \in {"ErrTerminal", "ErrUserActionRequired"}

\* handleReconcileCondition: a default by disposition, and the error's own reason.
ConditionReason(err) ==
  IF err.reason # None THEN err.reason
  ELSE CASE err.disposition = "nil"      -> "Provisioned"
         [] err.disposition = "ErrYield" -> "Provisioning"
         [] OTHER                        -> "Errored"

\* ResourceReady, nil or ErrYield: the condition is looked at and nothing else.
ResourceReady(r) == resource[r].available = "Provisioned"
-----------------------------------------------------------------------------
(***************************************************************************)
(* The API's projection.                                                   *)
(***************************************************************************)
\* Mutant of ProjectReason: what cannot heal is shown as still in flight.
ProjectReasonOptimistic(reason) ==
  IF reason = "Provisioned" THEN "provisioned"
  ELSE IF reason = "Errored" THEN "error"
  ELSE IF reason \in {"Deprovisioned", "Deprovisioning"} THEN "deprovisioning"
  ELSE "provisioning"

ProjectReason(reason) ==
  IF reason = "Provisioned" THEN "provisioned"
  ELSE IF reason \in {"Errored", "DependencyNotFound"} THEN "error"
  ELSE IF reason \in {"Deprovisioned", "Deprovisioning"} THEN "deprovisioning"
  ELSE "provisioning"

convertStatusCondition(in) ==
  IF in.deleting THEN "deprovisioning"
  ELSE IF in.available = None THEN "pending"
  ELSE ProjectReason(in.available)
-----------------------------------------------------------------------------
(***************************************************************************)
(* Steps.                                                                  *)
(***************************************************************************)
CreateResource(r) ==
  /\ ~resource[r].exists
  /\ resource' = [resource EXCEPT ![r] = [Absent EXCEPT !.exists = TRUE]]
  /\ UNCHANGED parked

\* What Provision may return, going by the dependency.
Outcomes(r) ==
  LET d == DependsOn[r]
  IN  IF d # None /\ ~resource[d].exists THEN {DependencyNotFound}
      ELSE IF d # None /\ resource[d].available = "Errored" THEN {DependencyFailed}
      ELSE IF d # None /\ ~ResourceReady(d) THEN {DependencyNotReady, Yield(None)}
      ELSE {NilError, Yield(None), Untyped, Canceled, Terminal(None), UserActionRequired("Errored")}

\* A canceled call leaves the condition as it was.
ReconcileResource(r) ==
  /\ resource[r].exists /\ ~resource[r].deleting /\ r \notin parked
  /\ \E err \in Outcomes(r) :
       /\ resource' = IF err = Canceled THEN resource
                      ELSE [resource EXCEPT ![r].available = ConditionReason(err)]
       /\ parked' = IF IsTerminal(err) THEN parked \cup {r} ELSE parked

\* A new generation wakes the controller.
ChangeSpec(r) ==
  /\ r \in parked
  /\ parked' = parked \ {r}
  /\ UNCHANGED resource

\* A controller that starts looks at everything once.
RestartController ==
  /\ parked # {} /\ parked' = {}
  /\ UNCHANGED resource

DeleteResource(r) ==
  /\ resource[r].exists /\ ~resource[r].deleting
  /\ resource' = [resource EXCEPT ![r].deleting = TRUE]
  /\ parked' = parked \ {r}

FinishDeletion(r) ==
  /\ resource[r].deleting
  /\ resource' = [resource EXCEPT ![r] = Absent]
  /\ UNCHANGED parked

StatusNext ==
  \/ \E r \in Resources :
       \/ CreateResource(r) \/ ReconcileResource(r) \/ ChangeSpec(r)
       \/ DeleteResource(r) \/ FinishDeletion(r)
  \/ RestartController

StatusSpec == StatusInit /\ [][StatusNext]_statusVars
-----------------------------------------------------------------------------
(***************************************************************************)
(* A resource that nobody will try again is shown as failed, not as one    *)
(* still being provisioned, through changes of its dependency, edits and   *)
(* restarts: the reasons the errors carry agree with their dispositions    *)
(* (errors.go:195-214, conversion.go:65).                                  *)
(***************************************************************************)
ParkedShowsError ==
  \A r \in parked : convertStatusCondition(resource[r]) = "error"
=============================================================================

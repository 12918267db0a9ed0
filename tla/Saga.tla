-------------------------------- MODULE Saga --------------------------------
(***************************************************************************)
(* Run of pkg/server/saga/saga.go: the actions of a handler in order, and  *)
(* on an error the compensations of those before it in reverse.            *)
(*                                                                         *)
(* An action is a call to some other service. It may fail with its effect  *)
(* in place, when only the reply was lost. All calls share the context of  *)
(* the request, and fail once it has expired. An action may also panic,    *)
(* which Run does not catch.                                               *)
(***************************************************************************)
EXTENDS Naturals, Sequences, FiniteSets

CONSTANTS SagaLen,        \* How many actions the handler has.
          Compensable,    \* Those whose compensation is not nil.
          SagaErrors      \* The errors an action may return.

ASSUME SagaAssumption ==
  SagaLen \in Nat /\ Compensable \subseteq 1..SagaLen /\ <<>> \notin SagaErrors

VARIABLES
  saga,       \* Run's progress: phase, the index it is at, the error it will return.
  effects,    \* The actions whose effect is in place.
  failed,     \* The action that failed, 0 if none. History.
  stuck,      \* The compensation that failed, 0 if none. History.
  expired     \* The request's context is done.

sagaVars == <<saga, effects, failed, stuck, expired>>

SagaIdle == [phase |-> "idle", at |-> 0, err |-> <<>>]

SagaInit == saga = SagaIdle /\ effects = {} /\ failed = 0 /\ stuck = 0 /\ expired = FALSE

SagaBegin ==
  /\ saga = SagaIdle
  /\ saga' = [saga EXCEPT !.phase = IF SagaLen = 0 THEN "returned" ELSE "acting", !.at = 1]
  /\ UNCHANGED <<effects, failed, stuck, expired>>

ActionDone ==
  /\ saga.phase = "acting" /\ ~expired
  /\ effects' = effects \cup {saga.at}
  /\ saga' = [saga EXCEPT !.at = @ + 1, !.phase = IF saga.at = SagaLen THEN "returned" ELSE "acting"]
  /\ UNCHANGED <<failed, stuck, expired>>

\* Mutant of Undo: it starts one short.
UndoShort(at) == at - 2

\* Where compensation starts when the action at has failed.
Undo(at) == at - 1

ActionFails ==
  /\ saga.phase = "acting"
  /\ effects' \in {effects} \cup (IF expired THEN {} ELSE {effects \cup {saga.at}})
  /\ \E err \in SagaErrors : saga' = [phase |-> "undoing", at |-> Undo(saga.at), err |-> err]
  /\ failed' = saga.at
  /\ UNCHANGED <<stuck, expired>>

ActionPanics ==
  /\ saga.phase = "acting"
  /\ saga' = [saga EXCEPT !.phase = "panicked"]
  /\ UNCHANGED <<effects, failed, stuck, expired>>

\* A nil compensation is passed over.
Compensate ==
  /\ saga.phase = "undoing" /\ saga.at >= 1 /\ (saga.at \in Compensable => ~expired)
  /\ effects' = IF saga.at \in Compensable THEN effects \ {saga.at} ELSE effects
  /\ saga' = [saga EXCEPT !.at = @ - 1]
  /\ UNCHANGED <<failed, stuck, expired>>

\* The error of a compensation is logged; the one that started it all is returned.
CompensateFails ==
  /\ saga.phase = "undoing" /\ saga.at \in Compensable
  /\ effects' \in {effects} \cup (IF expired THEN {} ELSE {effects \ {saga.at}})
  /\ saga' = [saga EXCEPT !.phase = "returned"]
  /\ stuck' = saga.at
  /\ UNCHANGED <<failed, expired>>

Compensated ==
  /\ saga.phase = "undoing" /\ saga.at < 1
  /\ saga' = [saga EXCEPT !.phase = "returned"]
  /\ UNCHANGED <<effects, failed, stuck, expired>>

SagaStep == ActionDone \/ ActionFails \/ ActionPanics \/ Compensate \/ CompensateFails \/ Compensated

Expire ==
  /\ ~expired /\ saga.phase \in {"acting", "undoing"}
  /\ expired' = TRUE
  /\ UNCHANGED <<saga, effects, failed, stuck>>

SagaNext == SagaBegin \/ SagaStep \/ Expire

SagaSpec == SagaInit /\ [][SagaNext]_sagaVars
-----------------------------------------------------------------------------
(***************************************************************************)
(* All or nothing, as far as it goes: a Run that returns nil has done all  *)
(* its actions. One that returns an error leaves nothing behind that has a *)
(* compensation, except the action that failed, whose own effect nobody    *)
(* undoes, and what a failed compensation kept it from reaching            *)
(* (saga.go:66-89).                                                        *)
(***************************************************************************)
AllOrNothing ==
  saga.phase = "returned" =>
    IF saga.err = <<>> THEN effects = 1..SagaLen
    ELSE \A k \in effects \cap Compensable : k = failed \/ k <= stuck

(***************************************************************************)
(* Later effects are undone before the ones they rest on: whenever         *)
(* compensation runs, what has a compensation and is still in place is all *)
(* of a beginning of the saga (saga.go:69).                                *)
(***************************************************************************)
UndoneInReverse ==
  \A j, k \in Compensable : (j < k /\ k \in effects /\ k # failed) => j \in effects
=============================================================================

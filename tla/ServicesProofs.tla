--------------------------- MODULE ServicesProofs ---------------------------
(***************************************************************************)
(* What the parts of the library that services are made of promise: a      *)
(* saga, the request it runs in, the resources requests create and update, *)
(* and the status clients are shown; and, sharing no state with those, the *)
(* message queue with the cascading delete, the source of the client       *)
(* certificate, and the two smaller caches.                                *)
(***************************************************************************)
EXTENDS ApiServer, ResourceApi, ResourceStatus, MessageQueue, CertificateSource, LRUExpireCache, TimeoutCache,
        WellFoundedInduction, TLAPS

(***************************************************************************)
(* The two promises of Run, for a saga of any length, any choice of the    *)
(* actions that have a compensation, and any errors.                       *)
(*                                                                         *)
(* Neither is inductive: what is left when compensation ends follows from  *)
(* what is left at each index it passes. SagaInv says so, phase by phase.  *)
(***************************************************************************)

Phases == {"idle", "acting", "undoing", "returned", "panicked"}

SagaTypeOK ==
  /\ saga \in [phase : Phases, at : Nat, err : SagaErrors \cup {<<>>}]
  /\ failed \in Nat /\ stuck \in Nat

\* The compensations from index at on have run, or been passed over.
UndoneDownTo(at) ==
  /\ failed \in 1..SagaLen /\ at \in 0..(failed - 1)
  /\ \A k \in Compensable : k # failed => (k \in effects <=> k <= at)

\* Those after stuck have run, and it is not known how far stuck itself got.
StuckAt ==
  /\ failed \in 1..SagaLen /\ stuck \in 0..(failed - 1)
  /\ \A k \in Compensable : k # failed => /\ k \in effects => k <= stuck
                                          /\ k < stuck => k \in effects

SagaInv ==
  /\ SagaTypeOK
  /\ saga.phase = "idle" => saga.err = <<>> /\ effects = {} /\ failed = 0 /\ stuck = 0
  /\ saga.phase \in {"acting", "panicked"} =>
       saga.err = <<>> /\ saga.at \in 1..SagaLen /\ effects = 1..(saga.at - 1) /\ failed = 0 /\ stuck = 0
  /\ saga.phase = "undoing" => saga.err # <<>> /\ stuck = 0 /\ UndoneDownTo(saga.at)
  /\ saga.phase = "returned" =>
       IF saga.err = <<>> THEN effects = 1..SagaLen /\ failed = 0 ELSE StuckAt

(***************************************************************************)
(* SagaInv holds before Run starts.                                        *)
(***************************************************************************)
LEMMA SagaInvInit == SagaInit => SagaInv
BY SagaAssumption DEF SagaInit, SagaIdle, SagaInv, SagaTypeOK, Phases

(***************************************************************************)
(* Every call that Run makes, and the end of the request's context, keep   *)
(* SagaInv.                                                                *)
(***************************************************************************)
LEMMA SagaInvStep == SagaInv /\ [SagaNext]_sagaVars => SagaInv'
<1> SUFFICES ASSUME SagaInv, [SagaNext]_sagaVars PROVE SagaInv'
    BY Zenon
<1> USE SagaAssumption
<1>1. CASE SagaBegin
  <2>1. /\ saga.err = <<>> /\ effects = {} /\ failed = 0 /\ stuck = 0
        /\ saga' = [phase |-> IF SagaLen = 0 THEN "returned" ELSE "acting", at |-> 1, err |-> <<>>]
        /\ effects' = {} /\ failed' = 0 /\ stuck' = 0
        BY Zenon, <1>1 DEF SagaBegin, SagaIdle, SagaInv
  <2>2. SagaTypeOK'
        BY Zenon, <2>1 DEF SagaTypeOK, Phases
  <2>3. 1..0 = {}
        OBVIOUS
  <2>4. CASE SagaLen = 0
        BY Zenon, <2>1, <2>2, <2>3, <2>4 DEF SagaInv
  <2>5. CASE SagaLen # 0
        BY SMTT(30), <2>1, <2>2, <2>3, <2>5 DEF SagaInv
  <2>6. QED
        BY Zenon, <2>4, <2>5
<1>2. CASE ActionDone
  <2>1. /\ saga.phase = "acting" /\ saga.err = <<>> /\ saga.at \in 1..SagaLen
        /\ effects = 1..(saga.at - 1) /\ failed = 0 /\ stuck = 0
        /\ saga' = [phase |-> IF saga.at = SagaLen THEN "returned" ELSE "acting",
                    at |-> saga.at + 1, err |-> <<>>]
        /\ effects' = effects \cup {saga.at} /\ failed' = 0 /\ stuck' = 0
        BY Zenon, <1>2 DEF ActionDone, SagaInv, SagaTypeOK
  <2>2. SagaTypeOK'
        BY <2>1 DEF SagaTypeOK, Phases
  <2>3. effects' = 1..saga.at
        BY <2>1
  <2>4. QED
        BY <2>1, <2>2, <2>3 DEF SagaInv
<1>3. CASE ActionFails
      BY <1>3 DEF ActionFails, Undo, SagaInv, SagaTypeOK, Phases, UndoneDownTo
<1>4. CASE ActionPanics
      BY Zenon, <1>4 DEF ActionPanics, SagaInv, SagaTypeOK, Phases
<1>5. CASE Compensate
      BY <1>5 DEF Compensate, SagaInv, SagaTypeOK, Phases, UndoneDownTo
<1>6. CASE CompensateFails
      BY <1>6 DEF CompensateFails, SagaInv, SagaTypeOK, Phases, UndoneDownTo, StuckAt
<1>7. CASE Compensated
      BY <1>7 DEF Compensated, SagaInv, SagaTypeOK, Phases, UndoneDownTo, StuckAt
<1>8. CASE Expire
      BY Zenon, <1>8 DEF Expire, SagaInv, SagaTypeOK, UndoneDownTo, StuckAt
<1>9. CASE UNCHANGED sagaVars
      BY Zenon, <1>9 DEF sagaVars, SagaInv, SagaTypeOK, UndoneDownTo, StuckAt
<1>10. QED
      BY Zenon, <1>1, <1>2, <1>3, <1>4, <1>5, <1>6, <1>7, <1>8, <1>9 DEF SagaNext, SagaStep

(***************************************************************************)
(* SagaInv holds all through Run.                                          *)
(***************************************************************************)
LEMMA SagaInvariant == SagaSpec => []SagaInv
BY SagaInvInit, SagaInvStep, PTL DEF SagaSpec

(***************************************************************************)
(* Run returns nil with every action done, or an error with nothing left   *)
(* that has a compensation but the action that failed and what a failed    *)
(* compensation kept it from reaching.                                     *)
(***************************************************************************)
THEOREM SagaAllOrNothing == SagaSpec => []AllOrNothing
<1>1. SagaInv => AllOrNothing
      BY Zenon, SagaAssumption DEF SagaInv, SagaTypeOK, StuckAt, AllOrNothing
<1>2. QED
      BY <1>1, SagaInvariant, PTL

(***************************************************************************)
(* At every moment what can be compensated and is in place is a beginning  *)
(* of the saga: later effects are undone first.                            *)
(***************************************************************************)
THEOREM SagaUndoneInReverse == SagaSpec => []UndoneInReverse
<1>1. SagaInv => UndoneInReverse
  <2> SUFFICES ASSUME SagaInv, NEW j \in Compensable, NEW k \in Compensable,
                      j < k, k \in effects, k # failed
               PROVE  j \in effects
      BY Zenon DEF UndoneInReverse
  <2> USE SagaAssumption DEF SagaInv, SagaTypeOK, Phases
  <2>1. CASE saga.phase \in {"idle", "acting", "panicked"}
        BY <2>1
  <2>2. CASE saga.phase = "undoing"
        BY <2>2 DEF UndoneDownTo
  <2>3. CASE saga.phase = "returned"
        BY <2>3 DEF StuckAt
  <2>4. QED
        BY Zenon, <2>1, <2>2, <2>3
<1>2. QED
      BY <1>1, SagaInvariant, PTL
-----------------------------------------------------------------------------
(***************************************************************************)
(* What users are shown of resources that depend on each other, whatever   *)
(* the resources are and whatever depends on what.                         *)
(*                                                                         *)
(* What is shown of a parked resource changes with its deletion, which     *)
(* also wakes it, and with its condition, which only a reconcile changes   *)
(* and nobody reconciles it: its condition is the one it was parked with.  *)
(***************************************************************************)
Reasons == {None, "Provisioned", "Provisioning", "Errored",
            "DependencyNotReady", "DependencyFailed", "DependencyNotFound"}

StatusInv ==
  /\ resource \in [Resources -> [exists : BOOLEAN, deleting : BOOLEAN, available : Reasons]]
  /\ parked \subseteq Resources
  /\ \A r \in parked : /\ resource[r].exists /\ ~resource[r].deleting
                       /\ resource[r].available \in {"Errored", "DependencyNotFound"}

(***************************************************************************)
(* Only an error with a reason of failure ends the attempts.               *)
(***************************************************************************)
LEMMA TerminalShowsError ==
  ASSUME NEW r \in Resources, NEW err \in Outcomes(r), IsTerminal(err)
  PROVE  err # Canceled /\ ConditionReason(err) \in {"Errored", "DependencyNotFound"}
<1>1. err \in {DependencyNotFound, Terminal(None), UserActionRequired("Errored")}
      BY DEF Outcomes, IsTerminal, DependencyNotFound, DependencyFailed, DependencyNotReady,
             NilError, Untyped, Canceled, Yield, Terminal, UserActionRequired
<1>2. QED
      BY <1>1, StatusAssumption
         DEF ConditionReason, Canceled, DependencyNotFound, Terminal, UserActionRequired

(***************************************************************************)
(* What the reconciler writes is one of the reasons.                       *)
(***************************************************************************)
LEMMA ConditionReasonType ==
  ASSUME NEW r \in Resources, NEW err \in Outcomes(r)
  PROVE  ConditionReason(err) \in Reasons
<1>1. err \in {DependencyNotFound, DependencyFailed, DependencyNotReady, Yield(None), NilError, Untyped,
               Canceled, Terminal(None), UserActionRequired("Errored")}
      BY Zenon DEF Outcomes
<1>2. QED
      BY <1>1 DEF ConditionReason, Reasons, DependencyNotFound, DependencyFailed, DependencyNotReady, Yield,
                  NilError, Untyped, Canceled, Terminal, UserActionRequired

(***************************************************************************)
(* Every step of users, controllers and the API server keeps StatusInv.    *)
(***************************************************************************)
LEMMA StatusInvStep == StatusInv /\ [StatusNext]_statusVars => StatusInv'
<1> SUFFICES ASSUME StatusInv, [StatusNext]_statusVars PROVE StatusInv'
    BY Zenon
<1> USE DEF StatusInv
<1>1. ASSUME NEW r \in Resources, CreateResource(r) PROVE StatusInv'
      BY Zenon, <1>1 DEF CreateResource, Absent, Reasons
<1>2. ASSUME NEW r \in Resources, ReconcileResource(r) PROVE StatusInv'
  <2>1. PICK err \in Outcomes(r) :
          /\ resource' = IF err = Canceled THEN resource
                         ELSE [resource EXCEPT ![r].available = ConditionReason(err)]
          /\ parked' = IF IsTerminal(err) THEN parked \cup {r} ELSE parked
        BY Zenon, <1>2 DEF ReconcileResource
  <2>2. resource[r].exists /\ ~resource[r].deleting /\ r \notin parked
        BY Zenon, <1>2 DEF ReconcileResource
  <2>3. ConditionReason(err) \in Reasons
        BY Zenon, ConditionReasonType
  <2>4. IsTerminal(err) => err # Canceled /\ ConditionReason(err) \in {"Errored", "DependencyNotFound"}
        BY Zenon, TerminalShowsError
  <2>5. QED
        BY Zenon, <2>1, <2>2, <2>3, <2>4
<1>3. ASSUME NEW r \in Resources, ChangeSpec(r) \/ DeleteResource(r) PROVE StatusInv'
      BY ZenonT(40), <1>3 DEF ChangeSpec, DeleteResource
<1>4. ASSUME NEW r \in Resources, FinishDeletion(r) PROVE StatusInv'
      BY Zenon, <1>4 DEF FinishDeletion, Absent, Reasons
<1>5. CASE RestartController \/ UNCHANGED statusVars
      BY Zenon, <1>5 DEF RestartController, statusVars
<1>6. QED
      BY Zenon, <1>1, <1>2, <1>3, <1>4, <1>5 DEF StatusNext

(***************************************************************************)
(* A resource nobody will try again is shown as failed, for any resources  *)
(* and any dependencies between them, cyclic ones too.                     *)
(***************************************************************************)
THEOREM StatusParkedShowsError == StatusSpec => []ParkedShowsError
<1>1. StatusInit => StatusInv
      BY DEF StatusInit, StatusInv, Absent, Reasons
<1>2. StatusInv => ParkedShowsError
      BY Zenon, StatusAssumption DEF StatusInv, ParkedShowsError, convertStatusCondition, ProjectReason
<1>3. QED
      BY <1>1, <1>2, StatusInvStep, PTL DEF StatusSpec
-----------------------------------------------------------------------------
(***************************************************************************)
(* A request, for any saga, any routes and any way other services fail.    *)
(*                                                                         *)
(* First the errors. HandleError looks for the first HTTP error of a       *)
(* chain: that there is a first one is the least-number principle.         *)
(***************************************************************************)
Errors == Seq({Plain} \cup HTTPErrors)

ServerError == [status |-> 500, code |-> "server_error", header |-> FALSE]

(***************************************************************************)
(* A set of natural numbers that is not empty has a least one.             *)
(***************************************************************************)
LEMMA LeastOf ==
  ASSUME NEW T \in SUBSET Nat, T # {}
  PROVE  \E x \in T : \A y \in T : x <= y
<1> DEFINE Less == OpToRel(<, Nat)
<1>1. IsWellFoundedOn(Less, Nat)
      BY NatLessThanWellFounded, Zenon
<1>2. \A x, y \in Nat : y < x => <<y, x>> \in Less
      BY Zenon DEF OpToRel
<1> HIDE DEF Less
<1>3. PICK x \in T : \A y \in T : ~(<<y, x>> \in Less)
      BY Zenon, <1>1, WFMin
<1>4. \A y \in T : ~(y < x) /\ x \in Nat /\ y \in Nat
      BY Zenon, <1>2, <1>3
<1>5. \A y \in T : x <= y
      BY <1>4
<1>6. QED
      BY Zenon, <1>3, <1>5

(***************************************************************************)
(* errors.As finds a link that is an HTTP error, and no other before it.   *)
(***************************************************************************)
LEMMA AsErrorFinds ==
  ASSUME NEW err \in Errors
  PROVE  \/ asError(err) = <<>> /\ \A i \in DOMAIN err : err[i] = Plain
         \/ \E i \in DOMAIN err : /\ asError(err) = <<err[i]>> /\ err[i] # Plain
                                  /\ \A j \in DOMAIN err : j < i => err[j] = Plain
<1> DEFINE http == {i \in DOMAIN err : err[i] # Plain}
<1>1. DOMAIN err = 1..Len(err) /\ Len(err) \in Nat
      BY DEF Errors
<1>2. CASE http = {}
      BY Zenon, <1>2 DEF asError, Nil
<1>3. CASE http # {}
  <2>1. \E i \in http : \A j \in http : i <= j
    <3>1. http \in SUBSET Nat
          BY <1>1
    <3>2. QED
          BY Zenon, <1>3, <3>1, LeastOf
  <2>2. PICK i : i = CHOOSE k \in http : \A j \in http : k <= j
        BY Zenon
  <2>3. i \in http /\ \A j \in http : i <= j
        BY Zenon, <2>1, <2>2
  <2>4. asError(err) = <<err[i]>>
        BY Zenon, <1>3, <2>2 DEF asError
  <2>5. \A j \in DOMAIN err : j < i => err[j] = Plain
        BY <1>1, <2>3
  <2>6. QED
        BY Zenon, <2>3, <2>4, <2>5
<1>4. QED
      BY Zenon, <1>2, <1>3

(***************************************************************************)
(* Whatever a handler fails with, the response is an HTTP error.           *)
(***************************************************************************)
LEMMA HandleErrorType ==
  ASSUME NEW err \in Errors
  PROVE  HandleError(err) \in HTTPErrors
<1>1. HTTPError("server_error")[1] = ServerError /\ ServerError \in HTTPErrors
  <2>1. ServerError \in HTTPErrors
        BY DEF StatusOf, ServerError, HTTPErrors
  <2>2. QED
        BY Zenon, <2>1 DEF HTTPError, StatusOf, ServerError
<1>2. CASE asError(err) = Nil
      BY Zenon, <1>1, <1>2 DEF HandleError
<1>3. CASE asError(err) # Nil
  <2>1. PICK i \in DOMAIN err : asError(err) = <<err[i]>> /\ err[i] # Plain
        BY Zenon, <1>3, AsErrorFinds DEF Nil
  <2>2. HandleError(err) = err[i]
        BY <1>3, <2>1 DEF HandleError
  <2>3. err[i] \in {Plain} \cup HTTPErrors
        BY SMTT(30) DEF Errors
  <2>4. QED
        BY Zenon, <2>1, <2>2, <2>3
<1>4. QED
      BY Zenon, <1>2, <1>3

(***************************************************************************)
(* An HTTP error has a status of failure, and so is not a plain error.     *)
(***************************************************************************)
LEMMA HTTPErrorFields ==
  ASSUME NEW e \in HTTPErrors
  PROVE  e.status \in 400..599 /\ e # Plain
<1>1. e.status \in 400..599
      BY DEF HTTPErrors
<1>2. Plain.status = 0
      BY Zenon DEF Plain
<1>3. QED
      BY <1>1, <1>2

(***************************************************************************)
(* A wrapped error is answered as the error itself.                        *)
(***************************************************************************)
LEMMA HandleWrapped ==
  ASSUME NEW e \in {Plain} \cup HTTPErrors
  PROVE  HandleError(Wrap(<<e>>)) = IF e = Plain THEN ServerError ELSE e
<1> DEFINE err == Wrap(<<e>>)
<1>1. err \in Errors /\ DOMAIN err = 1..2 /\ err[1] = Plain /\ err[2] = e
  <2>1. <<Plain>> \in Errors /\ <<e>> \in Errors
        BY DEF Errors
  <2>2. err \in Errors /\ Len(err) = 2
        BY <2>1 DEF Wrap, Errors
  <2>3. err[1] = Plain
        BY <2>1 DEF Wrap, Errors
  <2>4. err[2] = e
        BY <2>1 DEF Wrap, Errors
  <2>5. QED
        BY <2>2, <2>3, <2>4 DEF Errors
<1>2. HTTPError("server_error")[1] = ServerError
      BY Zenon DEF HTTPError, StatusOf, ServerError
<1> HIDE DEF err
<1>3. CASE e = Plain
  <2>1. \A i \in DOMAIN err : err[i] = Plain
        BY <1>1, <1>3
  <2>2. asError(err) = Nil
        BY Zenon, <1>1, <2>1, AsErrorFinds DEF Nil
  <2>3. QED
        BY Zenon, <1>2, <1>3, <2>2 DEF HandleError, err
<1>4. CASE e # Plain
  <2>1. asError(err) = <<e>>
    <3>1. ~\A i \in DOMAIN err : err[i] = Plain
          BY <1>1, <1>4
    <3>2. PICK i \in DOMAIN err : asError(err) = <<err[i]>> /\ err[i] # Plain
          BY Zenon, <1>1, <3>1, AsErrorFinds
    <3>3. i = 2
          BY <1>1, <3>2
    <3>4. QED
          BY Zenon, <1>1, <3>2, <3>3
  <2>2. asError(err) # Nil /\ asError(err)[1] = e
        BY <2>1 DEF Nil
  <2>3. HandleError(err) = e
        BY Zenon, <2>2 DEF HandleError
  <2>4. QED
        BY Zenon, <1>4, <2>3 DEF err
<1>5. QED
      BY Zenon, <1>3, <1>4

(***************************************************************************)
(* The local failures are errors, of whatever request.                     *)
(***************************************************************************)
LEMMA LocalErrors ==
  /\ \A code \in DOMAIN StatusOf : HTTPError(code) \in Errors
  /\ <<Plain>> \in Errors
<1>1. ASSUME NEW code \in DOMAIN StatusOf PROVE HTTPError(code) \in Errors
  <2>1. StatusOf[code] \in 400..599
        BY DEF StatusOf
  <2>2. [status |-> StatusOf[code], code |-> code, header |-> FALSE] \in HTTPErrors
        BY Zenon, <2>1 DEF HTTPErrors
  <2>3. QED
        BY SMTT(30), <2>2 DEF HTTPError, Errors
<1>2. <<Plain>> \in Errors
      BY DEF Errors
<1>3. QED
      BY Zenon, <1>1, <1>2

(***************************************************************************)
(* The answer to an error that another service gave a caller that can      *)
(* decode it has that service's status and code; otherwise it is a server  *)
(* error.                                                                  *)
(***************************************************************************)
LEMMA HandlePropagated ==
  ASSUME NEW d \in Downstreams
  PROVE  LET origin == HandleError(d.err)
             final  == HandleError(Wrap(PropagateError(origin, Fields, d.decoded)))
         IN  /\ final \in HTTPErrors
             /\ (d.decoded /\ origin.status \in Fields) =>
                   final.status = origin.status /\ final.code = origin.code
<1> DEFINE origin == HandleError(d.err)
           final  == HandleError(Wrap(PropagateError(origin, Fields, d.decoded)))
<1>1. origin \in HTTPErrors
      BY Zenon, ServerAssumption, HandleErrorType DEF Errors
<1>2. ServerError \in HTTPErrors
      BY DEF ServerError, HTTPErrors, StatusOf
<1> HIDE DEF origin
<1>3. CASE d.decoded /\ origin.status \in Fields
  <2>1. PICK e : e = [origin EXCEPT !.header = FALSE]
        BY Zenon
  <2>2. e \in HTTPErrors /\ e.status = origin.status /\ e.code = origin.code
        BY ZenonT(40), <1>1, <2>1 DEF HTTPErrors
  <2>3. PropagateError(origin, Fields, d.decoded) = <<e>>
    <3>1. origin.status >= 400
          BY <1>1, HTTPErrorFields
    <3>2. QED
          BY ONLY Zenon, <1>3, <2>1, <3>1 DEF PropagateError
  <2>4. final = e
        BY <2>2, <2>3, HandleWrapped, HTTPErrorFields
  <2>5. QED
        BY Zenon, <2>2, <2>4 DEF origin
<1>4. CASE ~(d.decoded /\ origin.status \in Fields)
  <2>1. PropagateError(origin, Fields, d.decoded) = <<Plain>>
        BY Zenon, <1>4 DEF PropagateError
  <2>2. final = ServerError
        BY Zenon, <2>1, HandleWrapped
  <2>3. QED
        BY Zenon, <1>2, <1>4, <2>2 DEF origin
<1>5. QED
      BY Zenon, <1>3, <1>4

(***************************************************************************)
(* The four ways a request is answered. A handler that wrote nothing has   *)
(* sent 0 until net/http answers for it.                                   *)
(***************************************************************************)
Refused   == saga.phase = "idle" /\ w.sent \in 400..599
Preflight == saga.phase = "idle" /\ req.method = "OPTIONS" /\ w.sent = 204
Succeeded(statuses) ==
  saga.phase = "returned" /\ saga.err = Nil /\ req.method # "OPTIONS" /\ w.sent \in statuses
Failed ==
  /\ saga.phase = "returned" /\ saga.err # Nil
  /\ w.sent = HandleError(CallError).status /\ w.code = HandleError(CallError).code

\* Nothing has been written before the answer, and the saga runs in its stage only.
ApiInv ==
  /\ SagaInv /\ saga.err \in {Nil, CallError}
  /\ downstream \in Downstreams /\ DOMAIN w = DOMAIN NewCapture
  /\ stage \in {"route", "cors", "read", "own", "saga", "finish", "done", "aborted"}
  /\ stage \in {"route", "cors", "read", "own"} => saga.phase = "idle"
  /\ stage \in {"read", "own", "saga"} => req.method # "OPTIONS"
  /\ stage \in {"route", "cors", "read", "own", "saga"} => w.sent = 0 /\ w.captured = 200
  /\ stage = "finish" => /\ w.captured = (IF w.sent = 0 THEN 200 ELSE w.sent)
                         /\ Refused \/ Preflight \/ Succeeded({0, 201}) \/ Failed
  /\ stage = "done" => /\ w.captured = w.sent /\ (w.sent >= 400 => trail.logged)
                       /\ Refused \/ Preflight \/ Succeeded({200, 201}) \/ Failed

(***************************************************************************)
(* The first WriteHeader is the one that counts.                           *)
(***************************************************************************)
LEMMA FirstWriteHeader ==
  ASSUME NEW writer, DOMAIN writer = DOMAIN NewCapture, writer.sent = 0, NEW status \in Nat, NEW code
  PROVE  LET written == WriteHeader(writer, status, code)
         IN  /\ DOMAIN written = DOMAIN NewCapture
             /\ written.sent = status /\ written.code = code /\ written.captured = status
BY Zenon DEF WriteHeader, NewCapture

(***************************************************************************)
(* An answer with an error before the saga has begun refuses the request.  *)
(***************************************************************************)
LEMMA ErrorRefuses ==
  ASSUME ApiInv, stage \in {"route", "read", "own"}, NEW err \in Errors, AnswerError(err)
  PROVE  ApiInv'
<1> DEFINE e == HandleError(err)
<1>1. e.status \in 400..599
      BY Zenon, HandleErrorType, HTTPErrorFields
<1>2. /\ w' = WriteHeader(w, e.status, e.code) /\ stage' = "finish"
      /\ UNCHANGED <<req, downstream, trail, sagaVars>>
      BY Zenon DEF AnswerError, Answer
<1> HIDE DEF e
<1>3. DOMAIN w' = DOMAIN NewCapture /\ w'.sent = e.status /\ w'.captured = e.status
      BY <1>1, <1>2, FirstWriteHeader DEF ApiInv
<1>4. SagaInv' /\ saga' = saga /\ CallError' = CallError
      BY Zenon, <1>2 DEF ApiInv, sagaVars, SagaInv, SagaTypeOK, UndoneDownTo, StuckAt, CallError
<1>5. Refused'
      BY Zenon, <1>1, <1>3, <1>4 DEF ApiInv, Refused
<1>6. w'.captured = IF w'.sent = 0 THEN 200 ELSE w'.sent
      BY <1>1, <1>3
<1>7. QED
      BY Zenon, <1>2, <1>3, <1>4, <1>5, <1>6 DEF ApiInv

(***************************************************************************)
(* The stages in front of the saga hand on a request untouched.            *)
(***************************************************************************)
LEMMA ProceedKeeps ==
  ASSUME ApiInv, NEW next, Proceed(next),
         \/ stage = "route" /\ next = "cors"
         \/ stage = "read" /\ next = "own"
         \/ stage = "own" /\ next = "saga"
         \/ stage = "saga" /\ next = "aborted"
  PROVE  ApiInv'
<1>1. stage' = next /\ UNCHANGED <<req, downstream, w, trail, sagaVars>>
      BY Zenon DEF Proceed
<1>2. SagaInv' /\ saga' = saga /\ CallError' = CallError
      BY <1>1 DEF ApiInv, sagaVars, SagaInv, SagaTypeOK, UndoneDownTo, StuckAt, CallError
<1>3. QED
      BY ZenonT(40), <1>1, <1>2 DEF ApiInv

(***************************************************************************)
(* What the checks in front of the saga find wrong is an error.            *)
(***************************************************************************)
LEMMA ChecksReturnErrors ==
  /\ \A path, method : FindRoute(path, method) \in Errors \cup {Nil}
  /\ \A body : ReadJSONBody(body) \in Errors \cup {Nil}
  /\ \A labels, org, project : AssertProjectOwnership(labels, org, project) \in Errors \cup {Nil}
<1>1. /\ HTTPError("not_found") \in Errors /\ HTTPError("method_not_allowed") \in Errors
      /\ HTTPError("invalid_request") \in Errors
  <2>1. {"not_found", "method_not_allowed", "invalid_request"} \subseteq DOMAIN StatusOf
        BY Zenon DEF StatusOf
  <2>2. QED
        BY Zenon, <2>1, LocalErrors
<1>2. <<Plain>> \in Errors
      BY Zenon, LocalErrors
<1>3. QED
      BY Zenon, <1>1, <1>2 DEF FindRoute, ReadJSONBody, AssertProjectOwnership, AssertOwnership

(***************************************************************************)
(* A preflight is answered; anything else is handed on.                    *)
(***************************************************************************)
LEMMA CorsKeeps == ASSUME ApiInv, Cors PROVE ApiInv'
<1>1. PICK open : open = [w EXCEPT !.origins = Append(@, AllowOrigin(req.origin))]
      BY Zenon
<1>2. DOMAIN open = DOMAIN NewCapture /\ open.sent = 0 /\ open.captured = 200
      BY Zenon, <1>1 DEF ApiInv, Cors, NewCapture
<1>3. /\ IF req.method = "OPTIONS" THEN w' = WriteHeader(open, 204, "") /\ stage' = "finish"
         ELSE w' = open /\ stage' = "read"
      /\ stage = "cors" /\ UNCHANGED <<req, downstream, trail, sagaVars>>
      BY Zenon, <1>1 DEF Cors
<1>4. SagaInv' /\ saga' = saga /\ CallError' = CallError
      BY Zenon, <1>3 DEF ApiInv, sagaVars, SagaInv, SagaTypeOK, UndoneDownTo, StuckAt, CallError
<1>5. CASE req.method = "OPTIONS"
  <2>1. w' = WriteHeader(open, 204, "") /\ stage' = "finish"
        BY Zenon, <1>3, <1>5
  <2>2. DOMAIN w' = DOMAIN NewCapture /\ w'.sent = 204 /\ w'.captured = 204
        BY Zenon, <1>2, <2>1 DEF WriteHeader, NewCapture
  <2>3. Preflight'
        BY Zenon, <1>3, <1>4, <1>5, <2>2 DEF ApiInv, Preflight
  <2>4. w'.captured = IF w'.sent = 0 THEN 200 ELSE w'.sent
        BY ONLY <2>2
  <2>5. QED
        BY Zenon, <1>3, <1>4, <2>1, <2>2, <2>3, <2>4 DEF ApiInv
<1>6. CASE req.method # "OPTIONS"
  <2>1. /\ w' = open /\ stage' = "read" /\ req' = req /\ downstream' = downstream
        /\ saga.phase = "idle" /\ saga.err \in {Nil, CallError} /\ downstream \in Downstreams
        BY Zenon, <1>3, <1>6 DEF ApiInv
  <2>2. DOMAIN w' = DOMAIN NewCapture /\ w'.sent = 0 /\ w'.captured = 200
        BY Zenon, <1>2, <2>1
  <2>3. stage' # "finish" /\ stage' # "done"
        BY Zenon, <2>1
  <2>4. SagaInv' /\ saga'.err \in {Nil, CallError'} /\ saga'.phase = "idle" /\ downstream' \in Downstreams
        BY Zenon, <1>4, <2>1
  <2>5. QED
        BY Zenon, <1>6, <2>1, <2>2, <2>3, <2>4 DEF ApiInv
<1>7. QED
      BY Zenon, <1>5, <1>6

(***************************************************************************)
(* The answer to a saga that has returned tells how it went.               *)
(***************************************************************************)
LEMMA ReplyKeeps == ASSUME ApiInv, Reply PROVE ApiInv'
<1>1. /\ stage = "saga" /\ saga.phase = "returned" /\ stage' = "finish"
      /\ UNCHANGED <<req, downstream, trail, sagaVars>>
      BY Zenon DEF Reply, AnswerError, Answer, Proceed
<1>2. SagaInv' /\ saga' = saga /\ CallError' = CallError
      BY Zenon, <1>1 DEF ApiInv, sagaVars, SagaInv, SagaTypeOK, UndoneDownTo, StuckAt, CallError
<1>3. CASE saga.err # Nil /\ AnswerError(saga.err)
  <2> DEFINE e == HandleError(CallError)
  <2>1. e.status \in 400..599
        BY Zenon, HandlePropagated, HTTPErrorFields DEF ApiInv, CallError
  <2>2. w' = WriteHeader(w, e.status, e.code)
        BY Zenon, <1>3 DEF ApiInv, AnswerError, Answer
  <2> HIDE DEF e
  <2>3. DOMAIN w' = DOMAIN NewCapture /\ w'.sent = e.status /\ w'.code = e.code /\ w'.captured = e.status
    <3>1. DOMAIN w = DOMAIN NewCapture /\ w.sent = 0
          BY Zenon, <1>1 DEF ApiInv
    <3>2. QED
          BY Zenon, <2>2, <3>1 DEF WriteHeader, NewCapture
  <2>4. Failed'
        BY Zenon, <1>1, <1>2, <1>3, <2>3 DEF Failed, e
  <2>5. w'.captured = IF w'.sent = 0 THEN 200 ELSE w'.sent
        BY <2>1, <2>3
  <2>6. QED
        BY Zenon, <1>1, <1>2, <2>3, <2>4, <2>5 DEF ApiInv
<1>4. CASE saga.err = Nil /\ Answer(201, "")
  <2>1. w' = WriteHeader(w, 201, "")
        BY Zenon, <1>4 DEF Answer
  <2>2. DOMAIN w' = DOMAIN NewCapture /\ w'.sent = 201 /\ w'.captured = 201
        BY Zenon, <1>1, <2>1 DEF ApiInv, WriteHeader, NewCapture
  <2>3. Succeeded({0, 201})'
        BY Zenon, <1>1, <1>2, <1>4, <2>2 DEF ApiInv, Succeeded
  <2>4. w'.captured = IF w'.sent = 0 THEN 200 ELSE w'.sent
        BY <2>2
  <2>5. QED
        BY Zenon, <1>1, <1>2, <2>2, <2>3, <2>4 DEF ApiInv
<1>5. CASE saga.err = Nil /\ Proceed("finish")
  <2>1. w' = w /\ w.sent = 0 /\ w.captured = 200
        BY Zenon, <1>1, <1>5 DEF ApiInv, Proceed
  <2>2. Succeeded({0, 201})'
        BY Zenon, <1>1, <1>2, <1>5, <2>1 DEF ApiInv, Succeeded
  <2>3. QED
        BY Zenon, <1>1, <1>2, <2>1, <2>2 DEF ApiInv
<1>6. QED
      BY Zenon, <1>3, <1>4, <1>5 DEF Reply

(***************************************************************************)
(* The end of the chain records what was sent.                             *)
(***************************************************************************)
LEMMA FinishKeeps == ASSUME ApiInv, Finish PROVE ApiInv'
<1>1. PICK sent : sent = IF w.sent = 0 THEN 200 ELSE w.sent
      BY Zenon
<1>2. PICK level : level = (sent >= 400)
      BY Zenon
<1>3. /\ stage = "finish" /\ stage' = "done" /\ w' = [w EXCEPT !.sent = sent]
      /\ UNCHANGED <<req, downstream, sagaVars>>
      BY Zenon, <1>1 DEF Finish
<1>4. trail' = [span |-> httpStatusToOtelCode(sent), logged |-> level]
      BY <1>1, <1>2 DEF Finish
<1>5. sent >= 400 => trail'.logged
      BY Zenon, <1>2, <1>4
<1>6. SagaInv' /\ saga' = saga /\ CallError' = CallError
      BY <1>3 DEF ApiInv, sagaVars, SagaInv, SagaTypeOK, UndoneDownTo, StuckAt, CallError
<1>7. DOMAIN w' = DOMAIN NewCapture /\ w'.sent = sent /\ w'.code = w.code /\ w'.captured = sent
      BY Zenon, <1>1, <1>3 DEF ApiInv, NewCapture
<1>8. CASE Refused
  <2>1. sent = w.sent
        BY <1>1, <1>8 DEF Refused
  <2>2. Refused'
        BY Zenon, <1>6, <1>7, <1>8, <2>1 DEF Refused
  <2>3. QED
        BY SMTT(30), <1>3, <1>5, <1>6, <1>7, <2>2 DEF ApiInv
<1>9. CASE Preflight
  <2>1. Preflight'
        BY SMTT(30), <1>1, <1>3, <1>6, <1>7, <1>9 DEF Preflight
  <2>2. QED
        BY <1>3, <1>5, <1>6, <1>7, <2>1 DEF ApiInv
<1>10. CASE Succeeded({0, 201})
  <2>1. Succeeded({200, 201})'
        BY SMTT(30), <1>1, <1>3, <1>6, <1>7, <1>10 DEF Succeeded
  <2>2. QED
        BY SMTT(30), <1>3, <1>5, <1>6, <1>7, <2>1 DEF ApiInv
<1>11. CASE Failed
  <2>1. HandleError(CallError).status \in 400..599
        BY ZenonT(40), HandlePropagated, HTTPErrorFields DEF ApiInv, CallError
  <2>2. sent = w.sent
        BY <1>1, <1>11, <2>1 DEF Failed
  <2>3. Failed'
        BY Zenon, <1>6, <1>7, <1>11, <2>2 DEF Failed
  <2>4. QED
        BY SMTT(30), <1>3, <1>5, <1>6, <1>7, <2>3 DEF ApiInv
<1>12. QED
      BY Zenon, <1>3, <1>8, <1>9, <1>10, <1>11 DEF ApiInv

(***************************************************************************)
(* Every step of the request keeps ApiInv.                                 *)
(***************************************************************************)
LEMMA ApiInvStep == ApiInv /\ [ServerNext]_apiVars => ApiInv'
<1> SUFFICES ASSUME ApiInv, [ServerNext]_apiVars PROVE ApiInv'
    BY Zenon
<1>1. CASE ResolveRoute
  <2>1. PICK err : /\ err = (IF req.method = "OPTIONS" /\ req.asked = "" THEN HTTPError("invalid_request")
                             ELSE FindRoute(req.path, IF req.method = "OPTIONS" THEN req.asked ELSE req.method))
                   /\ IF err # Nil THEN AnswerError(err) ELSE Proceed("cors")
        BY Zenon, <1>1 DEF ResolveRoute
  <2>2. HTTPError("invalid_request") \in Errors
        BY Zenon, LocalErrors DEF StatusOf
  <2>3. err \in Errors \cup {Nil}
        BY Zenon, <2>1, <2>2, ChecksReturnErrors
  <2>4. stage = "route"
        BY Zenon, <1>1 DEF ResolveRoute
  <2>5. QED
        BY Zenon, <2>1, <2>3, <2>4, ErrorRefuses, ProceedKeeps
<1>2. CASE ReadBody
  <2>1. PICK err : err = ReadJSONBody(req.body) /\ IF err # Nil THEN AnswerError(err) ELSE Proceed("own")
        BY Zenon, <1>2 DEF ReadBody
  <2>2. err \in Errors \cup {Nil} /\ stage = "read"
        BY Zenon, <1>2, <2>1, ChecksReturnErrors DEF ReadBody
  <2>3. QED
        BY Zenon, <2>1, <2>2, ErrorRefuses, ProceedKeeps
<1>3. CASE CheckOwner
  <2>1. PICK err : /\ err = AssertProjectOwnership(req.labels, "o1", "p1")
                   /\ IF err # Nil THEN AnswerError(err) ELSE Proceed("saga")
        BY Zenon, <1>3 DEF CheckOwner
  <2>2. err \in Errors \cup {Nil} /\ stage = "own"
        BY Zenon, <1>3, <2>1, ChecksReturnErrors DEF CheckOwner
  <2>3. QED
        BY Zenon, <2>1, <2>2, ErrorRefuses, ProceedKeeps
<1>4. CASE RunSaga
  <2>1. SagaInv'
        BY Zenon, <1>4, SagaInvStep DEF ApiInv, RunSaga
  <2>2. stage = "saga" /\ saga'.err \in {Nil, CallError} /\ UNCHANGED <<req, downstream, stage, w, trail>>
        BY Zenon, <1>4 DEF RunSaga, serverVars
  <2>3. CallError' = CallError
        BY Zenon, <2>2 DEF CallError
  <2>4. QED
        BY Zenon, <2>1, <2>2, <2>3 DEF ApiInv
<1>5. CASE Abort
      BY Zenon, <1>5, ProceedKeeps DEF Abort
<1>6. CASE UNCHANGED apiVars
  <2>1. UNCHANGED <<req, downstream, stage, w, trail>> /\ UNCHANGED sagaVars
        BY Zenon, <1>6 DEF apiVars, serverVars
  <2>2. SagaInv' /\ saga' = saga /\ CallError' = CallError
        BY Zenon, <2>1 DEF ApiInv, sagaVars, SagaInv, SagaTypeOK, UndoneDownTo, StuckAt, CallError
  <2>3. /\ Refused' = Refused /\ Preflight' = Preflight /\ Failed' = Failed
        /\ Succeeded({0, 201})' = Succeeded({0, 201}) /\ Succeeded({200, 201})' = Succeeded({200, 201})
        BY <2>1, <2>2 DEF Refused, Preflight, Failed, Succeeded
  <2>4. QED
        BY <2>1, <2>2, <2>3 DEF ApiInv
<1>7. QED
      BY Zenon, <1>1, <1>2, <1>3, <1>4, <1>5, <1>6, CorsKeeps, ReplyKeeps, FinishKeeps DEF ServerNext

(***************************************************************************)
(* ApiInv holds all through a request.                                     *)
(***************************************************************************)
LEMMA ApiInvariant == ApiSpec => []ApiInv
<1>1. ServerInit => ApiInv
  <2> SUFFICES ASSUME ServerInit PROVE ApiInv
      BY Zenon
  <2>1. SagaInv /\ saga.err = Nil /\ saga.phase = "idle"
        BY Zenon, SagaInvInit DEF ServerInit, SagaInit, SagaIdle, Nil
  <2>2. w.sent = 0 /\ w.captured = 200 /\ DOMAIN w = DOMAIN NewCapture
        BY Zenon DEF ServerInit, NewCapture
  <2>3. QED
        BY Zenon, <2>1, <2>2 DEF ServerInit, ApiInv
<1>2. QED
      BY <1>1, ApiInvStep, PTL DEF ApiSpec

(***************************************************************************)
(* The answer tells the truth about the effects, and telemetry and the log *)
(* about the answer.                                                       *)
(***************************************************************************)
THEOREM ApiAnswerMatchesEffects == ApiSpec => []AnswerMatchesEffects
<1>1. ApiInv => AnswerMatchesEffects
  <2> SUFFICES ASSUME ApiInv, stage = "done"
               PROVE  /\ IF w.sent < 400 /\ req.method # "OPTIONS" THEN effects = 1..SagaLen
                         ELSE saga.err = Nil => effects = {}
                      /\ w.captured = w.sent
                      /\ w.sent >= 400 => trail.logged
      BY Zenon DEF AnswerMatchesEffects
  <2>1. saga.phase = "idle" => effects = {}
        BY Zenon DEF ApiInv, SagaInv
  <2>2. saga.phase = "returned" /\ saga.err = Nil => effects = 1..SagaLen
        BY ZenonT(40) DEF ApiInv, SagaInv, Nil
  <2>3. Failed => w.sent \in 400..599
    <3>1. HandleError(CallError).status \in 400..599
          BY Zenon, HandlePropagated, HTTPErrorFields DEF ApiInv, CallError
    <3>2. QED
          BY Zenon, <3>1 DEF Failed
  <2>4. Refused \/ Preflight \/ Succeeded({200, 201}) \/ Failed
        BY Zenon DEF ApiInv
  <2>5. IF w.sent < 400 /\ req.method # "OPTIONS" THEN effects = 1..SagaLen
        ELSE saga.err = Nil => effects = {}
    <3>1. CASE Refused
      <4>1. ~(w.sent < 400) /\ effects = {}
            BY <2>1, <3>1 DEF Refused
      <4>2. QED
            BY ONLY Zenon, <4>1
    <3>2. CASE Preflight
          BY Zenon, <2>1, <3>2 DEF Preflight
    <3>3. CASE Succeeded({200, 201})
          BY <2>2, <3>3 DEF Succeeded
    <3>4. CASE Failed
      <4>1. ~(w.sent < 400) /\ saga.err # Nil
            BY SMTT(30), <2>3, <3>4 DEF Failed
      <4>2. QED
            BY ONLY Zenon, <4>1
    <3>5. QED
          BY Zenon, <2>4, <3>1, <3>2, <3>3, <3>4
  <2>6. QED
        BY Zenon, <2>5 DEF ApiInv
<1>2. QED
      BY <1>1, ApiInvariant, PTL

(***************************************************************************)
(* An error keeps its status and code on its way through the caller.       *)
(***************************************************************************)
THEOREM ApiErrorsKeepStatus == ApiSpec => []ErrorsKeepStatus
<1>1. ApiInv => ErrorsKeepStatus
  <2> SUFFICES ASSUME ApiInv, stage = "done", saga.err # Nil, downstream.decoded,
                      HandleError(downstream.err).status \in Fields
               PROVE  /\ w.sent = HandleError(downstream.err).status
                      /\ w.code = HandleError(downstream.err).code
      BY Zenon DEF ErrorsKeepStatus
  <2>1. saga.phase # "idle"
        BY Zenon DEF ApiInv, SagaInv, Nil
  <2>2. Failed
        BY Zenon, <2>1 DEF ApiInv, Refused, Preflight, Succeeded
  <2>3. downstream \in Downstreams
        BY Zenon DEF ApiInv
  <2>4. QED
        BY Zenon, <2>2, <2>3, HandlePropagated DEF Failed, CallError
<1>2. QED
      BY <1>1, ApiInvariant, PTL
-----------------------------------------------------------------------------
(***************************************************************************)
(* The names of resources. "No two distinct invariants can ever produce    *)
(* the same name" (resource.go:45) is derived from the hash alone: the     *)
(* loop that looks for a letter leads two invariants to one name only      *)
(* through one input of the hash.                                          *)
(*                                                                         *)
(* The orbit of a name is what the loop passes through from it.            *)
(***************************************************************************)
Closed(R) == \A id \in R \ Letters : Hash[id] \in R

Orbit(id) == {x \in Ids : \A R \in SUBSET Ids : (id \in R /\ Closed(R)) => x \in R}

(***************************************************************************)
(* An orbit is the least set with its name that hashing stays in.          *)
(***************************************************************************)
LEMMA OrbitLeast ==
  ASSUME NEW id \in Ids
  PROVE  /\ Orbit(id) \in SUBSET Ids /\ id \in Orbit(id) /\ Closed(Orbit(id))
         /\ \A R \in SUBSET Ids : (id \in R /\ Closed(R)) => Orbit(id) \subseteq R
<1>1. Orbit(id) \in SUBSET Ids /\ id \in Orbit(id)
      BY Zenon DEF Orbit
<1>2. ASSUME NEW x \in Orbit(id) \ Letters PROVE Hash[x] \in Orbit(id)
  <2>1. x \in Ids /\ Hash[x] \in Ids
        BY Zenon, <1>1, HashAssumption
  <2>2. ASSUME NEW R \in SUBSET Ids, id \in R, Closed(R) PROVE Hash[x] \in R
    <3>1. x \in R
          BY Zenon, <2>2 DEF Orbit
    <3>2. QED
          BY Zenon, <2>2, <3>1 DEF Closed
  <2>3. QED
        BY Zenon, <2>1, <2>2 DEF Orbit
<1>3. \A R \in SUBSET Ids : (id \in R /\ Closed(R)) => Orbit(id) \subseteq R
      BY Zenon DEF Orbit
<1>4. QED
      BY Zenon, <1>1, <1>2, <1>3 DEF Closed

(***************************************************************************)
(* The loop stops at a letter, and a name without one has the letters of   *)
(* the next name.                                                          *)
(***************************************************************************)
LEMMA OrbitLetters ==
  ASSUME NEW id \in Ids
  PROVE  /\ id \in Letters => Orbit(id) \cap Letters = {id}
         /\ id \notin Letters => Orbit(id) \cap Letters = Orbit(Hash[id]) \cap Letters
<1>1. CASE id \in Letters
  <2>1. {id} \in SUBSET Ids /\ Closed({id})
        BY Zenon, <1>1 DEF Closed
  <2>2. Orbit(id) \subseteq {id} /\ id \in Orbit(id)
        BY Zenon, <2>1, OrbitLeast
  <2>3. QED
        BY Zenon, <1>1, <2>2
<1>2. CASE id \notin Letters
  <2>1. Hash[id] \in Ids
        BY Zenon, HashAssumption
  <2>2. Orbit(Hash[id]) \subseteq Orbit(id)
    <3>1. Orbit(id) \in SUBSET Ids /\ Hash[id] \in Orbit(id) /\ Closed(Orbit(id))
          BY Zenon, <1>2, OrbitLeast DEF Closed
    <3>2. QED
          BY Zenon, <2>1, <3>1, OrbitLeast
  <2>3. Orbit(id) \subseteq {id} \cup Orbit(Hash[id])
    <3>1. /\ Orbit(Hash[id]) \in SUBSET Ids /\ Hash[id] \in Orbit(Hash[id])
          /\ Closed(Orbit(Hash[id]))
          BY Zenon, <2>1, OrbitLeast
    <3>2. {id} \cup Orbit(Hash[id]) \in SUBSET Ids /\ Closed({id} \cup Orbit(Hash[id]))
          BY Zenon, <3>1 DEF Closed
    <3>3. QED
          BY Zenon, <3>2, OrbitLeast
  <2>4. QED
        BY Zenon, <1>2, <2>2, <2>3
<1>3. QED
      BY Zenon, <1>1, <1>2

(***************************************************************************)
(* The loop has an outcome for every name, which is what Rehash returns.   *)
(***************************************************************************)
LEMMA RehashLoops ==
  ASSUME NEW id \in Ids
  PROVE  Rehash(id) = IF id \in Letters THEN id ELSE Rehash(Hash[id])
<1> DEFINE Is(f) == f = [i \in Ids |-> IF i \in Letters THEN i ELSE f[Hash[i]]]
           F == [i \in Ids |-> CHOOSE l : l \in Orbit(i) \cap Letters]
           again == CHOOSE f : Is(f)
<1>1. Is(F)
  <2>1. ASSUME NEW i \in Ids PROVE F[i] = IF i \in Letters THEN i ELSE F[Hash[i]]
    <3>1. CASE i \in Letters
      <4>1. Orbit(i) \cap Letters = {i}
            BY Zenon, <3>1, OrbitLetters
      <4>2. QED
            BY Zenon, <3>1, <4>1
    <3>2. CASE i \notin Letters
      <4>1. Orbit(i) \cap Letters = Orbit(Hash[i]) \cap Letters /\ Hash[i] \in Ids
            BY Zenon, <3>2, OrbitLetters, HashAssumption
      <4>2. QED
            BY <3>2, <4>1
    <3>3. QED
          BY Zenon, <3>1, <3>2
  <2> HIDE DEF F
  <2>2. F = [i \in Ids |-> F[i]]
        BY DEF F
  <2>3. QED
        BY Zenon, <2>1, <2>2
<1>2. Is(again)
      BY Zenon, <1>1
<1>3. \A i \in Ids : Rehash(i) = again[i]
      BY Zenon DEF Rehash
<1>4. Hash[id] \in Ids
      BY Zenon, HashAssumption
<1> HIDE DEF again
<1>5. again[id] = IF id \in Letters THEN id ELSE again[Hash[id]]
      BY Zenon, <1>2
<1>6. QED
      BY Zenon, <1>3, <1>4, <1>5

(***************************************************************************)
(* What it returns begins with a letter, and lies on the way.              *)
(***************************************************************************)
LEMMA RehashInOrbit ==
  ASSUME NEW id \in Ids
  PROVE  Rehash(id) \in Orbit(id) \cap Letters
<1> DEFINE S == {x \in Ids : Rehash(x) \notin Orbit(x) \cap Letters}
<1>1. ASSUME NEW x \in S PROVE x \notin Letters /\ Hash[x] \in S
  <2>1. x \notin Letters
    <3>1. x \in Letters => Rehash(x) = x /\ x \in Orbit(x)
          BY Zenon, RehashLoops, OrbitLeast
    <3>2. QED
          BY Zenon, <3>1
  <2>2. Hash[x] \in Ids /\ Rehash(x) = Rehash(Hash[x])
        BY Zenon, <2>1, RehashLoops, HashAssumption
  <2>3. Orbit(x) \cap Letters = Orbit(Hash[x]) \cap Letters
        BY Zenon, <2>1, OrbitLetters
  <2>4. QED
        BY Zenon, <2>1, <2>2, <2>3
<1>2. S \in SUBSET (Ids \ Letters) /\ \A x \in S : Hash[x] \in S
      BY Zenon, <1>1
<1> HIDE DEF S
<1>3. S = {}
      BY Zenon, <1>2, HashAssumption
<1>4. QED
      BY Zenon, <1>3 DEF S

(***************************************************************************)
(* What an invariant's loop passes through is the hash of the invariant or *)
(* of a name it passed through before.                                     *)
(***************************************************************************)
LEMMA OrbitInputs ==
  ASSUME NEW invariant \in Invariants, NEW x \in Orbit(Hash[invariant])
  PROVE  \E input \in {invariant} \cup (Orbit(Hash[invariant]) \ Letters) : x = Hash[input]
<1> DEFINE O == Orbit(Hash[invariant])
           R == {y \in O : \E input \in {invariant} \cup (O \ Letters) : y = Hash[input]}
<1>1. Hash[invariant] \in Ids
      BY Zenon, HashAssumption
<1>2. O \in SUBSET Ids /\ Hash[invariant] \in O /\ Closed(O)
      BY Zenon, <1>1, OrbitLeast
<1>3. \A R0 \in SUBSET Ids : Hash[invariant] \in R0 /\ Closed(R0) => O \subseteq R0
      BY Zenon, <1>1, OrbitLeast
<1>4. x \in O
      BY Zenon
<1> HIDE DEF O
<1>5. R \in SUBSET Ids /\ Hash[invariant] \in R
      BY Zenon, <1>2
<1>6. Closed(R)
      BY Zenon, <1>2 DEF Closed
<1>7. x \in R
      BY Zenon, <1>3, <1>4, <1>5, <1>6
<1>8. QED
      BY Zenon, <1>7 DEF O

(***************************************************************************)
(* Two invariants whose loops meet are one.                                *)
(***************************************************************************)
LEMMA OrbitsDisjoint ==
  ASSUME NEW i \in Invariants, NEW j \in Invariants, i # j
  PROVE  Orbit(Hash[i]) \cap Orbit(Hash[j]) = {}
<1> DEFINE I == Orbit(Hash[i])
           J == Orbit(Hash[j])
           D == I \ J
<1>1. Hash[i] \in Ids /\ Hash[j] \in Ids
      BY Zenon, HashAssumption
<1>2. I \in SUBSET Ids /\ Hash[i] \in I /\ Closed(I) /\ J \in SUBSET Ids
      BY Zenon, <1>1, OrbitLeast
<1>3. \A R \in SUBSET Ids : Hash[i] \in R /\ Closed(R) => I \subseteq R
      BY Zenon, <1>1, OrbitLeast
<1>4. \A x \in J : \E input \in {j} \cup (J \ Letters) : x = Hash[input]
      BY Zenon, OrbitInputs
<1> HIDE DEF I, J
<1>5. ASSUME NEW x \in {i} \cup (Ids \ Letters), x \notin J PROVE Hash[x] \notin J
  <2>1. SUFFICES ASSUME Hash[x] \in J PROVE FALSE
        BY Zenon
  <2>2. PICK input \in {j} \cup (J \ Letters) : Hash[x] = Hash[input]
        BY Zenon, <1>4, <2>1
  <2>3. x = input
        BY Zenon, <1>2, <2>2, HashAssumption
  <2>4. x = j /\ x \in Invariants \cap Ids
        BY Zenon, <1>5, <2>2, <2>3
  <2>5. QED
        BY Zenon, <2>4, HashAssumption
<1>6. i \notin J
      BY Zenon, <1>2, HashAssumption
<1>7. D \in SUBSET Ids /\ Hash[i] \in D
      BY Zenon, <1>2, <1>5, <1>6
<1>8. Closed(D)
  <2>1. ASSUME NEW x \in D \ Letters PROVE Hash[x] \in D
        BY Zenon, <1>2, <1>5, <2>1 DEF Closed
  <2>2. QED
        BY Zenon, <2>1 DEF Closed
<1>9. I \subseteq D
      BY Zenon, <1>3, <1>7, <1>8
<1>10. QED
      BY Zenon, <1>9 DEF I, J

(***************************************************************************)
(* No two distinct invariants produce the same name, however often the     *)
(* loop hashes for each of them.                                           *)
(***************************************************************************)
THEOREM NamesNeverCollide ==
  \A i, j \in Invariants : ResourceNames(i) \cap ResourceNames(j) # {} => i = j
<1> SUFFICES ASSUME NEW i \in Invariants, NEW j \in Invariants, Rehash(Hash[i]) = Rehash(Hash[j])
             PROVE  i = j
    BY Zenon DEF ResourceNames
<1>1. Hash[i] \in Ids /\ Hash[j] \in Ids
      BY Zenon, HashAssumption
<1>2. Rehash(Hash[i]) \in Orbit(Hash[i]) /\ Rehash(Hash[j]) \in Orbit(Hash[j])
      BY Zenon, <1>1, RehashInOrbit
<1>3. QED
      BY Zenon, <1>2, OrbitsDisjoint
-----------------------------------------------------------------------------
(***************************************************************************)
(* The resources, for any clients, any metadata and any number of updates. *)
(*                                                                         *)
(* What is stored of a resource is what was sent for it, with its creator, *)
(* under the name of its invariant.                                        *)
(***************************************************************************)
Stored(object, sent) ==
  /\ sent \in Metadata
  /\ DOMAIN object = {"tags", "invariant", "creator", "labels", "annotations"}
  /\ object.labels = [name |-> sent.name, organization |-> "o1", project |-> "p1"]
  /\ object.annotations.description = sent.description
  /\ object.annotations.creator = object.creator
  /\ object.tags = GenerateTagList(sent.tags)

ResourceApiInv ==
  /\ DOMAIN requested = DOMAIN objects
  /\ \A id \in DOMAIN objects :
       /\ Stored(objects[id], requested[id])
       /\ objects[id].invariant \in Invariants /\ id \in ResourceNames(objects[id].invariant)

(***************************************************************************)
(* A create stores what was sent.                                          *)
(***************************************************************************)
LEMMA CreateStores ==
  ASSUME NEW metadata \in Metadata, NEW c
  PROVE  Stored(NewResource(c, metadata), metadata) /\ NewResource(c, metadata).invariant = InvariantOf[c]
<1>1. PICK meta : meta = NewObjectMetadata(metadata, "o1", "p1")
      BY Zenon
<1>2. PICK annotations : annotations = [meta.annotations EXCEPT !.creator = c]
      BY Zenon
<1>3. annotations.description = metadata.description /\ annotations.creator = c
      BY Zenon, <1>1, <1>2 DEF NewObjectMetadata
<1>4. meta.labels = [name |-> metadata.name, organization |-> "o1", project |-> "p1"]
      BY Zenon, <1>1 DEF NewObjectMetadata
<1>5. NewResource(c, metadata) = [labels |-> meta.labels, annotations |-> annotations,
        tags |-> GenerateTagList(metadata.tags), invariant |-> InvariantOf[c], creator |-> c]
      BY Zenon, <1>1, <1>2 DEF NewResource
<1>6. QED
      BY <1>3, <1>4, <1>5 DEF Stored

(***************************************************************************)
(* An update stores what was sent, and keeps whose the resource is.        *)
(***************************************************************************)
LEMMA UpdateStores ==
  ASSUME NEW metadata \in Metadata, NEW current, NEW sent, Stored(current, sent)
  PROVE  Stored(Updated(current, metadata), metadata) /\ Updated(current, metadata).invariant = current.invariant
<1>1. current.labels.organization = "o1" /\ current.labels.project = "p1"
      BY DEF Stored
<1>2. PICK meta : meta = UpdateObjectMetadata(NewObjectMetadata(metadata, "o1", "p1"), current)
      BY Zenon
<1>3. /\ meta.labels = [name |-> metadata.name, organization |-> "o1", project |-> "p1"]
      /\ meta.annotations.description = metadata.description
      /\ meta.annotations.creator = current.annotations.creator
      BY Zenon, <1>2 DEF NewObjectMetadata, UpdateObjectMetadata, CarryCreator
<1>4. Updated(current, metadata) = [current EXCEPT !.labels = meta.labels, !.annotations = meta.annotations,
                                                   !.tags = GenerateTagList(metadata.tags)]
      BY Zenon, <1>1, <1>2 DEF Updated
<1>5. QED
      BY Zenon, <1>3, <1>4 DEF Stored

(***************************************************************************)
(* Creates, their retries, updates and deletions keep what is stored.      *)
(***************************************************************************)
LEMMA ResourceApiInvStep == ResourceApiInv /\ [ResourceApiNext]_resourceApiVars => ResourceApiInv'
<1> SUFFICES ASSUME ResourceApiInv, [ResourceApiNext]_resourceApiVars PROVE ResourceApiInv'
    BY Zenon
<1>1. ASSUME UNCHANGED <<objects, requested>> PROVE ResourceApiInv'
      BY Zenon, <1>1 DEF ResourceApiInv
<1>2. ASSUME NEW c \in Callers, Create(c) PROVE ResourceApiInv'
  <2>1. PICK metadata \in Metadata, id \in ResourceNames(InvariantOf[c]) :
          \/ UNCHANGED apiObjectVars
          \/ /\ objects' = Including(objects, id, NewResource(c, metadata))
             /\ requested' = Including(requested, id, metadata)
        BY Zenon, <1>2 DEF Create
  <2>2. CASE UNCHANGED apiObjectVars
        BY Zenon, <1>1, <2>2 DEF apiObjectVars
  <2>3. CASE /\ objects' = Including(objects, id, NewResource(c, metadata))
             /\ requested' = Including(requested, id, metadata)
    <3>1. PICK object : object = NewResource(c, metadata)
          BY Zenon
    <3>2. Stored(object, metadata) /\ object.invariant = InvariantOf[c]
          BY Zenon, <3>1, CreateStores
    <3>3. InvariantOf[c] \in Invariants
          BY Zenon, CallersAssumption
    <3>4. /\ DOMAIN objects' = {id} \cup DOMAIN objects /\ objects'[id] = object
          /\ \A x \in DOMAIN objects \ {id} : objects'[x] = objects[x]
          BY Zenon, <2>3, <3>1 DEF Including
    <3>5. /\ DOMAIN requested' = {id} \cup DOMAIN requested /\ requested'[id] = metadata
          /\ \A x \in DOMAIN requested \ {id} : requested'[x] = requested[x]
          BY Zenon, <2>3 DEF Including
    <3>6. QED
          BY Zenon, <3>2, <3>3, <3>4, <3>5 DEF ResourceApiInv
  <2>4. QED
        BY Zenon, <2>1, <2>2, <2>3
<1>3. ASSUME NEW id \in DOMAIN objects, Update(id) PROVE ResourceApiInv'
  <2>1. PICK metadata \in Metadata : /\ objects' = [objects EXCEPT ![id] = Updated(objects[id], metadata)]
                                     /\ requested' = [requested EXCEPT ![id] = metadata]
        BY Zenon, <1>3 DEF Update
  <2>2. PICK object : object = Updated(objects[id], metadata)
        BY Zenon
  <2>3. Stored(objects[id], requested[id])
        BY Zenon DEF ResourceApiInv
  <2>4. Stored(object, metadata) /\ object.invariant = objects[id].invariant
        BY Zenon, <2>2, <2>3, UpdateStores
  <2>5. /\ DOMAIN objects' = DOMAIN objects /\ objects'[id] = object
        /\ \A x \in DOMAIN objects \ {id} : objects'[x] = objects[x]
        BY Zenon, <2>1, <2>2
  <2>6. /\ DOMAIN requested' = DOMAIN requested /\ requested'[id] = metadata
        /\ \A x \in DOMAIN requested \ {id} : requested'[x] = requested[x]
        BY Zenon, <2>1 DEF ResourceApiInv
  <2>7. QED
        BY Zenon, <2>4, <2>5, <2>6 DEF ResourceApiInv
<1>4. ASSUME NEW id \in DOMAIN objects, RemoveResource(id) PROVE ResourceApiInv'
  <2>1. DOMAIN objects' = DOMAIN objects \ {id} /\ \A x \in DOMAIN objects \ {id} : objects'[x] = objects[x]
        BY Zenon, <1>4 DEF RemoveResource
  <2>2. DOMAIN requested' = DOMAIN objects \ {id} /\ \A x \in DOMAIN objects \ {id} : requested'[x] = requested[x]
        BY Zenon, <1>4 DEF RemoveResource
  <2>3. QED
        BY Zenon, <2>1, <2>2 DEF ResourceApiInv
<1>5. QED
      BY Zenon, <1>1, <1>2, <1>3, <1>4 DEF ResourceApiNext, resourceApiVars, apiObjectVars

(***************************************************************************)
(* It holds of every resource there ever is.                               *)
(***************************************************************************)
LEMMA ResourceApiInvariant == ResourceApiSpec => []ResourceApiInv
<1>1. ResourceApiInit => ResourceApiInv
      BY SMTT(30) DEF ResourceApiInit, ResourceApiInv
<1>2. QED
      BY <1>1, ResourceApiInvStep, PTL DEF ResourceApiSpec

(***************************************************************************)
(* At most one resource of an invariant, and none refused for another's.   *)
(***************************************************************************)
THEOREM ResourceNoDuplicates == ResourceApiSpec => []NoDuplicates
<1>1. ResourceApiInv => NoDuplicates
  <2> SUFFICES ASSUME ResourceApiInv PROVE NoDuplicates
      BY Zenon
  <2>1. \A i, j \in DOMAIN objects : objects[i].invariant = objects[j].invariant => i = j
        BY Zenon DEF ResourceApiInv, ResourceNames
  <2>2. ASSUME NEW invariant \in Invariants, NEW id \in DOMAIN objects, id \in ResourceNames(invariant)
        PROVE  objects[id].invariant = invariant
        BY Zenon, <2>2, NamesNeverCollide DEF ResourceApiInv
  <2>3. QED
        BY Zenon, <2>1, <2>2 DEF NoDuplicates
<1>2. QED
      BY <1>1, ResourceApiInvariant, PTL

(***************************************************************************)
(* Tags survive the way to the resource and back.                          *)
(***************************************************************************)
LEMMA TagsRoundTrip ==
  ASSUME NEW m \in Metadata
  PROVE  /\ GenerateTagList(m.tags) = m.tags /\ ConvertTags(m.tags) = m.tags
         /\ Len(m.tags) \in Nat /\ DOMAIN m.tags = 1..Len(m.tags)
<1>1. m.tags \in Seq(Range(m.tags)) /\ \A tag \in Range(m.tags) : tag = [name |-> tag.name, value |-> tag.value]
      BY Zenon, MetadataAssumption
<1>2. Len(m.tags) \in Nat /\ DOMAIN m.tags = 1..Len(m.tags) /\ m.tags = [i \in DOMAIN m.tags |-> m.tags[i]]
      BY <1>1
<1>3. \A i \in DOMAIN m.tags : [name |-> m.tags[i].name, value |-> m.tags[i].value] = m.tags[i]
      BY Zenon, <1>1 DEF Range
<1>4. GenerateTagList(m.tags) = m.tags
      BY Zenon, <1>2, <1>3 DEF GenerateTagList
<1>5. ConvertTags(m.tags) = m.tags
      BY Zenon, <1>2, <1>3 DEF ConvertTags
<1>6. QED
      BY Zenon, <1>2, <1>4, <1>5

(***************************************************************************)
(* "name=value" is split in two unless the value has an "=" of its own,    *)
(* and its two pieces are the tag.                                         *)
(***************************************************************************)
LEMMA SelectorOfTag ==
  ASSUME NEW m \in Metadata, NEW tag \in Range(m.tags), NEW s, s = <<tag.name>> \o tag.value
  PROVE  /\ Len(s) # 2 => Len(tag.value) > 1
         /\ Len(s) = 2 => [name |-> s[1], value |-> <<s[2]>>] = tag
<1>1. PICK name, value : name = tag.name /\ value = tag.value
      BY Zenon
<1>2. tag = [name |-> name, value |-> value] /\ value \in Seq(Range(value)) /\ value # <<>>
      BY Zenon, <1>1, MetadataAssumption
<1> DEFINE S == {name} \cup Range(value)
<1>3. value \in Seq(S) /\ <<name>> \in Seq(S)
      BY SMTT(30), <1>2
<1> HIDE DEF S
<1>4. Len(value) \in Nat /\ Len(value) # 0
      BY <1>2, <1>3
<1>5. s = <<name>> \o value
      BY Zenon, <1>1
<1>6. Len(s) = 1 + Len(value)
      BY <1>3, <1>5
<1>7. s[1] = name /\ s[2] = value[1]
  <2>1. s[1] = name
        BY SMTT(30), <1>3, <1>4, <1>5
  <2>2. s[2] = value[1]
        BY SMTT(30), <1>3, <1>4, <1>5
  <2>3. QED
        BY Zenon, <2>1, <2>2
<1>8. Len(s) # 2 => Len(value) > 1
      BY ONLY <1>4, <1>6
<1>9. ASSUME Len(s) = 2 PROVE [name |-> s[1], value |-> <<s[2]>>] = tag
  <2>1. Len(value) = 1
    <3>1. \A k \in Nat : 1 + k = 2 => k = 1
          OBVIOUS
    <3>2. QED
          BY ONLY Zenon, <1>4, <1>6, <1>9, <3>1
  <2>2. value = <<value[1]>>
    <3>1. value[1] \in S
      <4>1. 1 \in 1..Len(value)
            BY ONLY <2>1
      <4>2. QED
            BY ONLY <1>3, <4>1
    <3>2. <<value[1]>> \in Seq(S) /\ Len(<<value[1]>>) = 1 /\ <<value[1]>>[1] = value[1]
          BY <3>1
    <3>3. \A i \in 1..Len(value) : value[i] = <<value[1]>>[i]
          BY <2>1
    <3>4. QED
          BY SMTT(30), <1>3, <2>1, <3>2, <3>3
  <2>3. QED
        BY Zenon, <1>2, <1>7, <2>2
<1>10. QED
      BY Zenon, <1>1, <1>8, <1>9

\* What a selector of the first n tags finds, and when it is refused.
SelectorMeans(n, sent, wanted, got) ==
  IF got.err = "nil" THEN ContainsAll(sent.tags, got.tags) <=> Range(wanted) \subseteq Range(sent.tags)
  ELSE \E i \in 1..n : Len(wanted[i].value) > 1

(***************************************************************************)
(* A list by the first n tags of some metadata shows a resource exactly    *)
(* when it has them all, and is refused only for a value with an "=".      *)
(***************************************************************************)
LEMMA SelectorSplit ==
  ASSUME NEW m \in Metadata, NEW n \in 0..Len(m.tags), NEW sent \in Metadata,
         NEW wanted, wanted = SubSeq(m.tags, 1, n),
         NEW selector, selector = [i \in 1..n |-> <<wanted[i].name>> \o wanted[i].value],
         NEW got, got = DecodeTagSelectorParam(selector)
  PROVE  SelectorMeans(n, sent, wanted, got)
<1>1. Len(m.tags) \in Nat /\ DOMAIN m.tags = 1..Len(m.tags) /\ m.tags \in Seq(Range(m.tags))
      BY Zenon, TagsRoundTrip, MetadataAssumption
<1>2. DOMAIN wanted = 1..n /\ \A i \in 1..n : wanted[i] = m.tags[i] /\ wanted[i] \in Range(m.tags)
  <2>1. n \in Nat /\ n <= Len(m.tags)
        BY SMTT(30), <1>1
  <2>2. Len(wanted) = n /\ DOMAIN wanted = 1..n
        BY SMTT(30), <1>1, <2>1
  <2>3. \A i \in 1..n : wanted[i] = m.tags[i]
        BY SMTT(30), <1>1, <2>1
  <2>4. \A i \in 1..n : i \in DOMAIN m.tags
        BY <1>1, <2>1
  <2>5. QED
        BY Zenon, <2>2, <2>3, <2>4 DEF Range
<1>3. DOMAIN selector = 1..n /\ \A i \in 1..n : selector[i] = <<wanted[i].name>> \o wanted[i].value
      BY Zenon
<1>4. ASSUME NEW i \in 1..n
      PROVE  /\ Len(selector[i]) # 2 => Len(wanted[i].value) > 1
             /\ Len(selector[i]) = 2 => [name |-> selector[i][1], value |-> <<selector[i][2]>>] = wanted[i]
      BY Zenon, <1>2, <1>3, SelectorOfTag
<1>5. CASE \A i \in DOMAIN selector : Len(selector[i]) = 2
  <2>1. PICK tags : tags = [i \in DOMAIN selector |-> [name |-> selector[i][1], value |-> <<selector[i][2]>>]]
        BY Zenon
  <2>2. got = [tags |-> tags, err |-> "nil"]
        BY Zenon, <1>5, <2>1 DEF DecodeTagSelectorParam
  <2>3. DOMAIN tags = 1..n /\ \A i \in 1..n : tags[i] = wanted[i]
        BY Zenon, <1>3, <1>4, <1>5, <2>1
  <2>4. ContainsAll(sent.tags, tags) <=> \A i \in 1..n : wanted[i] \in Range(sent.tags)
        BY Zenon, <2>3 DEF ContainsAll, Range
  <2>5. Range(wanted) = {wanted[i] : i \in 1..n}
        BY Zenon, <1>2 DEF Range
  <2>6. got.err = "nil" /\ got.tags = tags
        BY ONLY Zenon, <2>2
  <2>7. ContainsAll(sent.tags, got.tags) <=> Range(wanted) \subseteq Range(sent.tags)
    <3>1. Range(wanted) \subseteq Range(sent.tags) <=> \A i \in 1..n : wanted[i] \in Range(sent.tags)
          BY ONLY Zenon, <2>5
    <3>2. QED
          BY ONLY Zenon, <2>4, <2>6, <3>1
  <2>8. QED
        BY ONLY Zenon, <2>6, <2>7 DEF SelectorMeans
<1>6. CASE ~\A i \in DOMAIN selector : Len(selector[i]) = 2
  <2>1. got.err = "invalid_request"
        BY Zenon, <1>6 DEF DecodeTagSelectorParam
  <2>2. PICK i \in 1..n : Len(selector[i]) # 2
        BY Zenon, <1>3, <1>6
  <2>3. QED
        BY Zenon, <1>4, <2>1, <2>2 DEF SelectorMeans
<1>7. QED
      BY Zenon, <1>5, <1>6

(***************************************************************************)
(* The same, of the selector written out.                                  *)
(***************************************************************************)
LEMMA SelectorDecodes ==
  ASSUME NEW m \in Metadata, NEW n \in 0..Len(m.tags), NEW sent \in Metadata
  PROVE  LET wanted == SubSeq(m.tags, 1, n)
             got    == DecodeTagSelectorParam([i \in 1..n |-> <<wanted[i].name>> \o wanted[i].value])
         IN  IF got.err = "nil" THEN ContainsAll(sent.tags, got.tags) <=> Range(wanted) \subseteq Range(sent.tags)
             ELSE \E i \in 1..n : Len(wanted[i].value) > 1
<1>1. SelectorMeans(n, sent, SubSeq(m.tags, 1, n),
                    DecodeTagSelectorParam([i \in 1..n |-> <<SubSeq(m.tags, 1, n)[i].name>> \o SubSeq(m.tags, 1, n)[i].value]))
      BY Zenon, SelectorSplit
<1>2. QED
      BY ONLY Zenon, <1>1 DEF SelectorMeans

(***************************************************************************)
(* What is read, and listed by tags, is what was last written.             *)
(***************************************************************************)
THEOREM ResourceReadsBack == ResourceApiSpec => []ReadsBack
<1>1. ResourceApiInv => ReadsBack
  <2> SUFFICES ASSUME ResourceApiInv, NEW id \in DOMAIN objects
               PROVE  LET read == ResourceReadMetadata(id, objects[id])
                          sent == requested[id]
                      IN  /\ read.name = sent.name /\ read.description = sent.description /\ read.tags = sent.tags
                          /\ read.organization = "o1" /\ read.project = "p1"
                          /\ read.createdBy = objects[id].creator
                          /\ \A m \in Metadata : \A n \in 0..Len(m.tags) :
                               LET wanted == SubSeq(m.tags, 1, n)
                                   got == DecodeTagSelectorParam([i \in 1..n |-> <<wanted[i].name>> \o wanted[i].value])
                               IN  IF got.err = "nil"
                                   THEN ContainsAll(objects[id].tags, got.tags) <=> Range(wanted) \subseteq Range(sent.tags)
                                   ELSE \E i \in 1..n : Len(wanted[i].value) > 1
      BY Zenon DEF ReadsBack
  <2>1. PICK object, sent : object = objects[id] /\ sent = requested[id]
        BY Zenon
  <2>2. Stored(object, sent) /\ sent \in Metadata
        BY Zenon, <2>1 DEF ResourceApiInv, Stored
  <2>3. object.tags = sent.tags /\ ConvertTags(object.tags) = sent.tags
        BY Zenon, <2>2, TagsRoundTrip DEF Stored
  <2>4. PICK read : read = ResourceReadMetadata(id, object)
        BY Zenon
  <2>5. PICK modified : modified = (object.annotations.modified # "")
        BY Zenon
  <2>6. read = [id |-> id, name |-> object.labels.name, organization |-> object.labels.organization,
                project |-> object.labels.project, description |-> object.annotations.description,
                createdBy |-> object.annotations.creator, modified |-> modified,
                tags |-> ConvertTags(object.tags)]
        BY Zenon, <2>4, <2>5 DEF ResourceReadMetadata
  <2>7. /\ read.name = sent.name /\ read.description = sent.description /\ read.tags = sent.tags
        /\ read.organization = "o1" /\ read.project = "p1" /\ read.createdBy = object.creator
    <3>1. /\ read.name = object.labels.name /\ read.description = object.annotations.description
          /\ read.tags = ConvertTags(object.tags) /\ read.organization = object.labels.organization
          /\ read.project = object.labels.project /\ read.createdBy = object.annotations.creator
          BY ONLY Zenon, <2>6
    <3>2. object.labels.name = sent.name /\ object.labels.organization = "o1" /\ object.labels.project = "p1"
      <4>1. object.labels = [name |-> sent.name, organization |-> "o1", project |-> "p1"]
            BY Zenon, <2>2 DEF Stored
      <4>2. QED
            BY ONLY <4>1
    <3>3. object.annotations.description = sent.description /\ object.annotations.creator = object.creator
          BY Zenon, <2>2 DEF Stored
    <3>4. QED
          BY ONLY Zenon, <2>3, <3>1, <3>2, <3>3
  <2>8. \A m \in Metadata : \A n \in 0..Len(m.tags) :
          LET wanted == SubSeq(m.tags, 1, n)
              got == DecodeTagSelectorParam([i \in 1..n |-> <<wanted[i].name>> \o wanted[i].value])
          IN  IF got.err = "nil"
              THEN ContainsAll(object.tags, got.tags) <=> Range(wanted) \subseteq Range(sent.tags)
              ELSE \E i \in 1..n : Len(wanted[i].value) > 1
        BY Zenon, <2>2, <2>3, SelectorDecodes
  <2>9. QED
        BY ONLY Zenon, <2>1, <2>4, <2>7, <2>8
<1>2. QED
      BY <1>1, ResourceApiInvariant, PTL
-----------------------------------------------------------------------------
(***************************************************************************)
(* The safety of the message queue and of the cascading delete, for any    *)
(* parents, children and consumers: no deletion that the queue has seen is *)
(* lost, and no parent's deletion reaches another's children, whatever     *)
(* fails, crashes, lags or is delivered twice.                             *)
(*                                                                         *)
(* NoEventLost is not inductive: an event in hand must also have been      *)
(* consumed by the consumers before the one whose turn it is, and must     *)
(* have been read as a deletion (Covered). OwnChildrenOnly rests on what   *)
(* the list put in hand (InHand) and on a deletion being for ever.         *)
(***************************************************************************)

Covered(p) ==
  \/ p \in queue
  \/ call.of = p /\ call.deleting /\ \A i \in 1..(call.at - 1) : <<p, i>> \in delivered
  \/ \A i \in 1..Len(Consumers) : <<p, i>> \in delivered

AllCovered == \A p \in Parents : seen[p] = "deleting" => Covered(p)

InHand ==
  /\ call.of = "none" <=> call.at = 0
  /\ call.of = "none" => ~call.deleting
  /\ call.items # {} => call.deleting
  /\ \A item \in call.items : ParentOf[item.child] = call.of

DeletedForGood ==
  /\ \A p \in Parents : seen[p] # "live" => parent[p] # "live"
  /\ call.deleting => parent[call.of] # "live"

QueueInv == QueueTypeOK /\ InHand /\ DeletedForGood /\ AllCovered /\ OwnChildrenOnly

(***************************************************************************)
(* A queue starts with every parent waiting.                               *)
(***************************************************************************)
LEMMA QueueInvInit == QueueInit => QueueInv
BY QueueAssumption
   DEF QueueInit, QueueInv, QueueTypeOK, Idle, InHand, DeletedForGood, AllCovered, Covered, OwnChildrenOnly

(***************************************************************************)
(* What users, owners and informers do keeps the invariant.                *)
(***************************************************************************)
LEMMA ClusterStep ==
  ASSUME QueueInv,
         \/ \E c \in Children : CreateChild(c) \/ DeleteChild(c) \/ ReapChild(c) \/ ObserveChild(c)
         \/ \E p \in Parents : DeleteParent(p) \/ ReapParent(p) \/ Observe(p) \/ Resync(p)
         \/ Crash \/ BecomeCalm
  PROVE  QueueInv'
<1> USE QueueAssumption DEF QueueInv, clusterVars, cacheVars
<1>1. ASSUME NEW c \in Children, CreateChild(c) \/ DeleteChild(c) \/ ReapChild(c) \/ ObserveChild(c)
      PROVE  QueueInv'
  <2>1. QueueTypeOK'
        BY Zenon, <1>1 DEF QueueTypeOK, CreateChild, DeleteChild, ReapChild, ObserveChild
  <2>2. UNCHANGED <<parent, seen, queue, call, delivered, cascaded>>
        BY Zenon, <1>1 DEF CreateChild, DeleteChild, ReapChild, ObserveChild
  <2>3. QED
        BY Zenon, <2>1, <2>2 DEF InHand, DeletedForGood, AllCovered, Covered, OwnChildrenOnly
<1>2. ASSUME NEW p \in Parents, DeleteParent(p) \/ ReapParent(p)
      PROVE  QueueInv'
  <2>1. QueueTypeOK' /\ UNCHANGED <<seen, queue, call, delivered, cascaded>>
        BY Zenon, <1>2 DEF QueueTypeOK, DeleteParent, ReapParent
  <2>2. \A q \in Parents : parent[q] # "live" => parent'[q] # "live"
        BY Zenon, <1>2 DEF QueueTypeOK, DeleteParent, ReapParent
  <2>3. InHand' /\ AllCovered'
        BY Zenon, <2>1 DEF InHand, AllCovered, Covered
  <2>4. DeletedForGood'
        BY Zenon, <2>1, <2>2 DEF DeletedForGood, InHand, QueueTypeOK
  <2>5. OwnChildrenOnly'
        BY Zenon, <2>1, <2>2 DEF OwnChildrenOnly, QueueTypeOK
  <2>6. QED
        BY Zenon, <2>1, <2>3, <2>4, <2>5
<1>3. ASSUME NEW p \in Parents, Observe(p)
      PROVE  QueueInv'
  <2>1. QueueTypeOK' /\ UNCHANGED <<parent, call, delivered, cascaded>>
        BY Zenon, <1>3 DEF QueueTypeOK, Observe
  <2>2. InHand' /\ OwnChildrenOnly'
        BY Zenon, <2>1 DEF InHand, OwnChildrenOnly
  <2>3. DeletedForGood'
        BY Zenon, <1>3 DEF DeletedForGood, Observe, QueueTypeOK
  <2>4. AllCovered'
        BY Zenon, <1>3 DEF AllCovered, Covered, Observe, QueueTypeOK
  <2>5. QED
        BY Zenon, <2>1, <2>2, <2>3, <2>4
<1>4. ASSUME NEW p \in Parents, Resync(p)
      PROVE  QueueInv'
  <2>1. QueueTypeOK' /\ UNCHANGED <<parent, seen, call, delivered, cascaded>> /\ queue \subseteq queue'
        BY Zenon, <1>4 DEF QueueTypeOK, Resync
  <2>2. QED
        BY Zenon, <2>1 DEF InHand, DeletedForGood, AllCovered, Covered, OwnChildrenOnly
<1>5. CASE Crash
  <2>1. QueueTypeOK' /\ UNCHANGED <<parent, cascaded>>
        BY <1>5 DEF QueueTypeOK, Crash, Idle
  <2>2. InHand' /\ DeletedForGood' /\ OwnChildrenOnly'
        BY Zenon, <1>5 DEF Crash, Idle, InHand, DeletedForGood, OwnChildrenOnly
  <2>3. AllCovered'
        BY Zenon, <1>5 DEF Crash, AllCovered, Covered, QueueTypeOK
  <2>4. QED
        BY ZenonT(40), <2>1, <2>2, <2>3
<1>6. CASE BecomeCalm
      BY Zenon, <1>6 DEF BecomeCalm, QueueTypeOK, InHand, DeletedForGood, AllCovered, Covered, OwnChildrenOnly
<1>7. QED
      BY Zenon, <1>1, <1>2, <1>3, <1>4, <1>5, <1>6

(***************************************************************************)
(* An event that is put back is waiting again.                             *)
(***************************************************************************)
LEMMA RequeueStep ==
  ASSUME QueueInv, call.of \in Parents, RequeueEvent, UNCHANGED parent,
         child' \in [Children -> {"none", "live", "deleting", "gone"}],
         cascaded' \subseteq Children, OwnChildrenOnly'
  PROVE  QueueInv'
<1> USE QueueAssumption DEF QueueInv, RequeueEvent, cacheVars
<1>1. QueueTypeOK'
      BY DEF QueueTypeOK, Idle
<1>2. InHand' /\ DeletedForGood'
      BY Zenon DEF InHand, DeletedForGood, Idle
<1>3. AllCovered'
      BY Zenon DEF AllCovered, Covered
<1>4. QED
      BY Zenon, <1>1, <1>2, <1>3

(***************************************************************************)
(* A consumer that returns nil has its name on the deletion, and the last  *)
(* one completes the list.                                                 *)
(***************************************************************************)
LEMMA ConsumedStep ==
  ASSUME QueueInv, call.at > 0, Consumed
  PROVE  QueueInv'
<1> USE QueueAssumption DEF QueueInv, clusterVars, cacheVars
<1>1. /\ call.of \in Parents /\ call.at \in 1..Len(Consumers) /\ Len(Consumers) \in Nat
      /\ UNCHANGED <<parent, child, seen, seenChild, queue, cascaded, calm>>
      BY DEF Consumed, QueueTypeOK, InHand
<1>2. /\ delivered \subseteq delivered'
      /\ delivered' \subseteq Parents \X (1..Len(Consumers))
      /\ call.deleting => <<call.of, call.at>> \in delivered'
      BY <1>1 DEF Consumed, QueueTypeOK
<1>3. CASE call.at = Len(Consumers)
  <2>1. call' = Idle
        BY Zenon, <1>3 DEF Consumed
  <2>2. QueueTypeOK'
        BY SMTT(30), <1>1, <1>2, <2>1 DEF QueueTypeOK, Idle
  <2>3. InHand' /\ DeletedForGood' /\ OwnChildrenOnly'
        BY Zenon, <1>1, <2>1 DEF InHand, DeletedForGood, OwnChildrenOnly, Idle
  <2>4. AllCovered'
    <3> SUFFICES ASSUME NEW p \in Parents, seen[p] = "deleting"
                 PROVE  Covered(p)'
        BY Zenon, <1>1 DEF AllCovered
    <3>1. CASE p \in queue
          BY Zenon, <1>1, <3>1 DEF Covered
    <3>2. CASE call.of = p /\ call.deleting /\ \A i \in 1..(call.at - 1) : <<p, i>> \in delivered
      <4>1. \A i \in 1..Len(Consumers) : <<p, i>> \in delivered'
            BY SMTT(30), <1>1, <1>2, <1>3, <3>2
      <4>2. QED
            BY Zenon, <4>1 DEF Covered
    <3>3. CASE \A i \in 1..Len(Consumers) : <<p, i>> \in delivered
          BY Zenon, <1>2, <3>3 DEF Covered
    <3>4. QED
          BY Zenon, <3>1, <3>2, <3>3 DEF AllCovered, Covered
  <2>5. QED
        BY Zenon, <2>2, <2>3, <2>4
<1>4. CASE call.at # Len(Consumers)
  <2>1. call' = [call EXCEPT !.at = call.at + 1, !.items = {}, !.listed = FALSE]
        BY Zenon, <1>4 DEF Consumed
  <2>2. call'.of = call.of /\ call'.at = call.at + 1 /\ call'.deleting = call.deleting /\ call'.items = {}
        BY Zenon, <2>1 DEF QueueTypeOK
  <2>3. QueueTypeOK'
    <3>1. call.at + 1 \in 0..Len(Consumers)
          BY <1>1, <1>4
    <3>2. call' \in [of : Parents \cup {"none"}, at : 0..Len(Consumers), deleting : BOOLEAN,
                     items : SUBSET [child : Children, deleting : BOOLEAN], listed : BOOLEAN]
          BY Zenon, <2>1, <3>1 DEF QueueTypeOK
    <3>3. QED
          BY Zenon, <1>1, <1>2, <3>2 DEF QueueTypeOK
  <2>4. InHand' /\ DeletedForGood' /\ OwnChildrenOnly'
    <3>1. call.of # "none" /\ call'.of # "none" /\ call'.at # 0
          BY SMTT(30), <1>1, <2>2 DEF InHand
    <3>2. InHand'
          BY Zenon, <2>2, <3>1 DEF InHand
    <3>3. QED
          BY ZenonT(40), <1>1, <2>2, <3>2 DEF DeletedForGood, OwnChildrenOnly
  <2>5. AllCovered'
    <3> SUFFICES ASSUME NEW p \in Parents, seen[p] = "deleting"
                 PROVE  Covered(p)'
        BY Zenon, <1>1 DEF AllCovered
    <3>1. CASE p \in queue
          BY Zenon, <1>1, <3>1 DEF Covered
    <3>2. CASE call.of = p /\ call.deleting /\ \A i \in 1..(call.at - 1) : <<p, i>> \in delivered
      <4>1. \A i \in 1..call.at : <<p, i>> \in delivered'
            BY SMTT(30), <1>1, <1>2, <3>2
      <4>2. call'.of = p /\ call'.deleting /\ call'.at - 1 = call.at
            BY SMTT(30), <1>1, <2>2, <3>2
      <4>3. QED
            BY Zenon, <4>1, <4>2 DEF Covered
    <3>3. CASE \A i \in 1..Len(Consumers) : <<p, i>> \in delivered
          BY Zenon, <1>2, <3>3 DEF Covered
    <3>4. QED
          BY Zenon, <3>1, <3>2, <3>3 DEF AllCovered, Covered
  <2>6. QED
        BY Zenon, <2>3, <2>4, <2>5
<1>5. QED
      BY Zenon, <1>3, <1>4

(***************************************************************************)
(* Taking an event: what was waiting is in hand, unless its parent is gone.*)
(***************************************************************************)
LEMMA TakeStep ==
  ASSUME QueueInv, NEW p \in Parents, TakeEvent(p)
  PROVE  QueueInv'
<1> USE QueueAssumption DEF QueueInv, clusterVars, cacheVars
<1>1. UNCHANGED <<parent, child, seen, seenChild, delivered, cascaded, calm>> /\ call = Idle
      BY Zenon DEF TakeEvent
<1>2. CASE UNCHANGED <<queue, call>>
      BY Zenon, <1>1, <1>2 DEF QueueTypeOK, InHand, DeletedForGood, AllCovered, Covered, OwnChildrenOnly
<1>3. CASE queue' = queue \ {p} /\ seen[p] = "gone" /\ call' = Idle
  <2>1. QueueTypeOK'
        BY Zenon, <1>1, <1>3 DEF QueueTypeOK
  <2>2. InHand' /\ DeletedForGood' /\ AllCovered' /\ OwnChildrenOnly'
        BY Zenon, <1>1, <1>3 DEF InHand, DeletedForGood, AllCovered, Covered, OwnChildrenOnly
  <2>3. QED
        BY Zenon, <2>1, <2>2
<1>4. ASSUME NEW d \in BOOLEAN, d <=> seen[p] = "deleting", queue' = queue \ {p},
             call' = [of |-> p, at |-> 1, deleting |-> d, items |-> {}, listed |-> FALSE]
      PROVE  QueueInv'
  <2>1. call'.of = p /\ call'.at = 1 /\ call'.deleting = d /\ call'.items = {}
        BY Zenon, <1>4
  <2>2. QueueTypeOK'
    <3>1. 1 \in 0..Len(Consumers)
          OBVIOUS
    <3>2. call' \in [of : Parents \cup {"none"}, at : 0..Len(Consumers), deleting : BOOLEAN,
                     items : SUBSET [child : Children, deleting : BOOLEAN], listed : BOOLEAN]
          BY ZenonT(40), <1>4, <3>1
    <3>3. QED
          BY Zenon, <1>1, <1>4, <3>2 DEF QueueTypeOK
  <2>3. InHand' /\ DeletedForGood' /\ OwnChildrenOnly'
        BY SMTT(30), <1>1, <1>4, <2>1 DEF InHand, DeletedForGood, OwnChildrenOnly
  <2>4. AllCovered'
    <3>1. 1..(call'.at - 1) = {}
          BY <2>1
    <3>2. Covered(p)' \/ seen[p] # "deleting"
          BY Zenon, <1>4, <2>1, <3>1 DEF Covered
    <3>3. \A q \in Parents : q # p /\ Covered(q) => Covered(q)'
          BY Zenon, <1>1, <1>4 DEF Covered, Idle
    <3>4. QED
          BY ZenonT(40), <1>1, <3>2, <3>3 DEF AllCovered
  <2>5. QED
        BY Zenon, <2>2, <2>3, <2>4
<1>5. CASE /\ queue' = queue \ {p}
           /\ call' = [Idle EXCEPT !.of = p, !.at = 1, !.deleting = (seen[p] = "deleting")]
  <2>1. CASE seen[p] = "deleting"
        BY Zenon, <1>4, <1>5, <2>1 DEF Idle
  <2>2. CASE seen[p] # "deleting"
        BY Zenon, <1>4, <1>5, <2>2 DEF Idle
  <2>3. QED
        BY Zenon, <2>1, <2>2
<1>6. QED
      BY Zenon, <1>2, <1>3, <1>5 DEF TakeEvent

(***************************************************************************)
(* What the list puts in hand are the children of the parent in hand.      *)
(***************************************************************************)
LEMMA ListStep ==
  ASSUME QueueInv, ListChildren
  PROVE  QueueInv'
<1> USE QueueAssumption DEF QueueInv, clusterVars, cacheVars
<1>1. call.at > 0 /\ call.deleting /\ call.of \in Parents
      BY SMTT(30) DEF ListChildren, At, InHand, QueueTypeOK
<1>2. CASE RequeueEvent /\ UNCHANGED <<clusterVars, cascaded>>
      BY Zenon, <1>1, <1>2, RequeueStep DEF QueueTypeOK, OwnChildrenOnly
<1>3. ASSUME NEW I, I = {[child |-> c, deleting |-> (seenChild[c] = "deleting")] : c \in Matching},
             call' = [call EXCEPT !.listed = TRUE, !.items = I],
             UNCHANGED <<clusterVars, cacheVars, queue, delivered, cascaded, calm>>
      PROVE  QueueInv'
  <2>1. \A item \in I : item \in [child : Children, deleting : BOOLEAN] /\ ParentOf[item.child] = call.of
    <3> TAKE item \in I
    <3>1. PICK c \in Matching : item = [child |-> c, deleting |-> (seenChild[c] = "deleting")]
          BY Zenon, <1>3
    <3>2. c \in Children /\ ParentOf[c] = call.of
          BY Zenon DEF Matching
    <3>3. PICK d \in BOOLEAN : item = [child |-> c, deleting |-> d]
      <4>1. CASE seenChild[c] = "deleting"
            BY Zenon, <3>1, <4>1
      <4>2. CASE seenChild[c] # "deleting"
            BY Zenon, <3>1, <4>2
      <4>3. QED
            BY Zenon, <4>1, <4>2
    <3>4. QED
          BY Zenon, <3>2, <3>3
  <2>2. /\ call'.of = call.of /\ call'.at = call.at /\ call'.deleting = call.deleting /\ call'.items = I
        /\ call' \in [of : Parents \cup {"none"}, at : 0..Len(Consumers), deleting : BOOLEAN,
                      items : SUBSET [child : Children, deleting : BOOLEAN], listed : BOOLEAN]
        BY Zenon, <1>3, <2>1 DEF QueueTypeOK
  <2>3. QueueTypeOK'
        BY Zenon, <1>3, <2>2 DEF QueueTypeOK
  <2>4. InHand' /\ DeletedForGood' /\ AllCovered' /\ OwnChildrenOnly'
        BY Zenon, <1>1, <1>3, <2>1, <2>2 DEF InHand, DeletedForGood, AllCovered, Covered, OwnChildrenOnly
  <2>5. QED
        BY Zenon, <2>3, <2>4
<1>4. QED
      BY Zenon, <1>2, <1>3 DEF ListChildren

(***************************************************************************)
(* An item in hand is a child of the parent in hand, which is deleted.     *)
(***************************************************************************)
LEMMA DeleteItemStep ==
  ASSUME QueueInv, NEW item \in call.items, DeleteItem(item)
  PROVE  QueueInv'
<1> USE QueueAssumption DEF QueueInv, clusterVars, cacheVars
<1>1. /\ call.of \in Parents /\ parent[call.of] # "live"
      /\ item.child \in Children /\ ParentOf[item.child] = call.of
      BY Zenon DEF InHand, DeletedForGood, QueueTypeOK
<1>2. /\ UNCHANGED parent /\ cascaded' \subseteq Children /\ OwnChildrenOnly'
      /\ child' \in [Children -> {"none", "live", "deleting", "gone"}]
  <2>1. CASE UNCHANGED <<clusterVars, cascaded>>
        BY Zenon, <2>1 DEF OwnChildrenOnly, QueueTypeOK
  <2>2. CASE Mark(item.child)
        BY Zenon, <1>1, <2>2 DEF Mark, OwnChildrenOnly, QueueTypeOK
  <2>3. QED
        BY Zenon, <2>1, <2>2 DEF DeleteItem
<1>3. CASE RequeueEvent
      BY Zenon, <1>1, <1>2, <1>3, RequeueStep
<1>4. CASE NextItem(item)
  <2>1. /\ UNCHANGED <<seen, seenChild, queue, delivered, calm>>
        /\ call' = [call EXCEPT !.items = call.items \ {item}]
        BY Zenon, <1>4 DEF NextItem
  <2>2. /\ call'.of = call.of /\ call'.at = call.at /\ call'.deleting = call.deleting
        /\ call'.items = call.items \ {item}
        /\ call' \in [of : Parents \cup {"none"}, at : 0..Len(Consumers), deleting : BOOLEAN,
                      items : SUBSET [child : Children, deleting : BOOLEAN], listed : BOOLEAN]
        BY Zenon, <2>1 DEF QueueTypeOK
  <2>3. QueueTypeOK'
        BY Zenon, <1>2, <2>1, <2>2 DEF QueueTypeOK
  <2>4. InHand' /\ DeletedForGood' /\ AllCovered'
        BY Zenon, <1>1, <1>2, <2>1, <2>2 DEF InHand, DeletedForGood, AllCovered, Covered
  <2>5. QED
        BY Zenon, <1>2, <2>3, <2>4
<1>5. QED
      BY Zenon, <1>3, <1>4 DEF DeleteItem

(***************************************************************************)
(* Every step keeps the invariant.                                         *)
(***************************************************************************)
LEMMA QueueInvStep == QueueInv /\ [QueueNext]_queueVars => QueueInv'
<1> SUFFICES ASSUME QueueInv, [QueueNext]_queueVars PROVE QueueInv'
    BY Zenon
<1>1. CASE ConsumeOther
  <2>1. call.at > 0 /\ call.of \in Parents
        BY <1>1 DEF ConsumeOther, At, QueueInv, InHand, QueueTypeOK
  <2>2. CASE Consumed
        BY Zenon, <2>1, <2>2, ConsumedStep
  <2>3. CASE RequeueEvent /\ UNCHANGED <<clusterVars, cascaded>>
        BY Zenon, <2>1, <2>3, RequeueStep DEF QueueInv, QueueTypeOK, OwnChildrenOnly, clusterVars
  <2>4. QED
        BY Zenon, <1>1, <2>2, <2>3 DEF ConsumeOther
<1>2. CASE IgnoreLive \/ EndOfList
      BY Zenon, <1>2, ConsumedStep DEF IgnoreLive, EndOfList, At
<1>3. CASE ListChildren
      BY Zenon, <1>3, ListStep
<1>4. ASSUME NEW item \in call.items, DeleteItem(item) PROVE QueueInv'
      BY Zenon, <1>4, DeleteItemStep
<1>5. ASSUME NEW p \in Parents, TakeEvent(p) PROVE QueueInv'
      BY Zenon, <1>5, TakeStep
<1>6. CASE UNCHANGED queueVars
      BY Zenon, <1>6 DEF queueVars, QueueInv, QueueTypeOK, InHand, DeletedForGood, AllCovered, Covered, OwnChildrenOnly
<1>7. QED
      BY Zenon, <1>1, <1>2, <1>3, <1>4, <1>5, <1>6, ClusterStep DEF QueueNext, Handle

(***************************************************************************)
(* The invariant holds from the start of the queue on.                     *)
(***************************************************************************)
LEMMA QueueInvariant == QueueSpec => []QueueInv
BY QueueInvInit, QueueInvStep, PTL DEF QueueSpec

(***************************************************************************)
(* A deletion the queue has seen is waiting, in hand, or consumed by every *)
(* consumer.                                                               *)
(***************************************************************************)
THEOREM QueueNoEventLost == QueueSpec => []NoEventLost
<1>1. QueueInv => NoEventLost
      BY Zenon DEF QueueInv, AllCovered, Covered, NoEventLost
<1>2. QED
      BY <1>1, QueueInvariant, PTL

(***************************************************************************)
(* The cascade deletes children of deleted parents only.                   *)
(***************************************************************************)
THEOREM QueueOwnChildrenOnly == QueueSpec => []OwnChildrenOnly
<1>1. QueueInv => OwnChildrenOnly
      BY Zenon DEF QueueInv
<1>2. QED
      BY <1>1, QueueInvariant, PTL

-----------------------------------------------------------------------------
(***************************************************************************)
(* How stale a client certificate may be, for every reload interval and    *)
(* any number of rotations, failed loads and slow ones.                    *)
(*                                                                         *)
(* Both properties speak of one handshake; what makes them inductive is    *)
(* when the certificate the source keeps was read. That time is not stored *)
(* anywhere: it is nextCheck less the interval and the time the load took  *)
(* (ReadAt). The secret can differ only if it was changed since.           *)
(***************************************************************************)

Forms == {"rsa", "ec", "broken", "none"}
Certs == [version : Nat, form : Forms]

CertTypeOK ==
  /\ now \in Nat
  /\ secret \in [cert : Certs, changed : Nat] /\ secret.changed <= now
  /\ source \in [current : Certs, nextCheck : Int, slow : Nat, interval : Int]
  /\ hand \in [phase : {"idle", "loading", "loaded"}, got : Certs, read : Nat] /\ hand.read <= now
  /\ shown \in [cert : Certs, failed : BOOLEAN, at : Nat] /\ shown.at <= now
  /\ signed \in {"none", "error", "verified", "rejected"}

ReadAt == source.nextCheck - source.interval - source.slow

KeptWasRead ==
  (source.current # NoCert /\ source.interval > 0) =>
    ReadAt <= now /\ (source.current = secret.cert \/ secret.changed >= ReadAt)

LoadedWasRead == hand.phase = "loaded" => hand.got = secret.cert \/ secret.changed >= hand.read

\* What a handshake of this moment presented, if its load did not fail.
ShownWasRead ==
  (shown.cert # NoCert /\ shown.at = now /\ ~shown.failed /\ source.interval > 0) =>
    shown.cert = secret.cert \/ JustRotated

Configured ==
  source.current = NoCert => shown.cert = NoCert /\ hand = NoHandshake

CertInv == CertTypeOK /\ KeptWasRead /\ LoadedWasRead /\ ShownWasRead /\ Configured

(***************************************************************************)
(* Before it is configured a client has no certificate and shows none.     *)
(***************************************************************************)
LEMMA CertInvInit == CertInit => CertInv
<1> SUFFICES ASSUME CertInit PROVE CertInv
    BY Zenon
<1>1. /\ now = 0 /\ signed = "none" /\ hand = [phase |-> "idle", got |-> NoCert, read |-> 0]
      /\ shown = [cert |-> NoCert, failed |-> FALSE, at |-> 0]
      BY Zenon DEF CertInit, NoHandshake
<1>2. NoCert \in Certs
      BY Zenon DEF NoCert, Cert, Certs, Forms
<1>3. secret \in [cert : Certs, changed : Nat] /\ secret.changed = 0
  <2>1. \A form \in {"rsa", "ec", "broken"} : Cert(1, form) \in Certs
        BY Zenon DEF Cert, Certs, Forms
  <2>2. {Cert(1, form) : form \in {"rsa", "ec", "broken"}} \subseteq Certs
        BY Zenon, <2>1
  <2>3. secret \in [cert : Certs, changed : {0}]
        BY Zenon, <2>2 DEF CertInit
  <2>4. QED
        BY <2>3
<1>4. source \in [current : Certs, nextCheck : Int, slow : Nat, interval : Int] /\ source.current = NoCert
  <2>1. PICK i \in Intervals : source = [current |-> NoCert, nextCheck |-> 0, slow |-> 0, interval |-> i]
        BY Zenon DEF CertInit
  <2>2. i \in Int
        BY Zenon, CertAssumption
  <2>3. QED
        BY SMTT(30), <1>2, <2>1, <2>2
<1>5. CertTypeOK
      BY SMTT(30), <1>1, <1>2, <1>3, <1>4 DEF CertTypeOK
<1>6. KeptWasRead /\ LoadedWasRead /\ ShownWasRead /\ Configured
      BY Zenon, <1>1, <1>4 DEF KeptWasRead, LoadedWasRead, ShownWasRead, Configured, NoHandshake
<1>7. QED
      BY Zenon, <1>5, <1>6 DEF CertInv

(***************************************************************************)
(* Time, rotations, handshakes and signatures keep the invariant.          *)
(***************************************************************************)
LEMMA CertInvStep == CertInv /\ [CertNext]_certVars => CertInv'
<1> SUFFICES ASSUME CertInv, [CertNext]_certVars PROVE CertInv'
    BY Zenon
<1> USE CertAssumption DEF CertInv
<1>1. CASE Tick
  <2>1. CertTypeOK'
        BY SMTT(30), <1>1 DEF Tick, CertTypeOK
  <2>2. KeptWasRead' /\ LoadedWasRead' /\ ShownWasRead' /\ Configured'
        BY <1>1 DEF Tick, CertTypeOK, KeptWasRead, LoadedWasRead, ShownWasRead, Configured, ReadAt
  <2>3. QED
        BY Zenon, <2>1, <2>2
<1>2. CASE Rotate
  <2>1. PICK form \in {"rsa", "broken"} :
          secret' = [cert |-> [version |-> secret.cert.version + 1, form |-> form], changed |-> now]
        BY Zenon, <1>2 DEF Rotate, Cert
  <2>2. CertTypeOK'
    <3>1. secret.cert.version \in Nat /\ now \in Nat
          BY Zenon DEF CertTypeOK, Certs
    <3>2. secret.cert.version + 1 \in Nat /\ now <= now
          BY ONLY <3>1
    <3>3. secret' \in [cert : Certs, changed : Nat] /\ secret'.changed = now
          BY ZenonT(40), <2>1, <3>1, <3>2 DEF Certs, Forms
    <3>4. QED
          BY Zenon, <1>2, <3>2, <3>3 DEF Rotate, CertTypeOK
  <2>3. KeptWasRead' /\ LoadedWasRead' /\ ShownWasRead' /\ Configured'
        BY <1>2, <2>1 DEF Rotate, CertTypeOK, KeptWasRead, LoadedWasRead, ShownWasRead, Configured,
                          ReadAt, JustRotated
  <2>4. QED
        BY Zenon, <2>2, <2>3
<1>3. CASE Configure
  <2>1. /\ source' = [source EXCEPT !.current = secret.cert,
                        !.nextCheck = IF source.interval > 0 THEN now + source.interval ELSE 0]
        /\ UNCHANGED <<now, secret, hand, shown, signed>>
        /\ shown.cert = NoCert /\ hand = NoHandshake
        BY Zenon, <1>3 DEF Configure, Configured
  <2>2. CertTypeOK'
    <3>1. (IF source.interval > 0 THEN now + source.interval ELSE 0) \in Int
          BY DEF CertTypeOK
    <3>2. secret.cert \in Certs
          BY Zenon DEF CertTypeOK
    <3>3. source' \in [current : Certs, nextCheck : Int, slow : Nat, interval : Int]
          BY Zenon, <2>1, <3>1, <3>2 DEF CertTypeOK
    <3>4. QED
          BY Zenon, <2>1, <3>3 DEF CertTypeOK
  <2>3. /\ source'.current = secret.cert /\ source'.interval = source.interval /\ source'.slow = source.slow
        /\ source.interval > 0 => source'.nextCheck = now + source.interval
        BY Zenon, <2>1 DEF CertTypeOK
  <2>4. KeptWasRead'
        BY SMTT(30), <2>1, <2>3 DEF CertTypeOK, KeptWasRead, ReadAt
  <2>5. LoadedWasRead' /\ ShownWasRead' /\ Configured'
        BY Zenon, <2>1 DEF LoadedWasRead, ShownWasRead, Configured, NoHandshake
  <2>6. QED
        BY Zenon, <2>2, <2>4, <2>5
<1>4. CASE HandshakeCached
  <2>1. /\ shown' = [cert |-> source.current, failed |-> FALSE, at |-> now]
        /\ UNCHANGED <<now, secret, source, hand, signed>>
        /\ source.current # NoCert /\ (source.interval <= 0 \/ now < source.nextCheck)
        BY Zenon, <1>4 DEF HandshakeCached, Present
  <2>2. CertTypeOK'
        BY <2>1 DEF CertTypeOK
  <2>3. KeptWasRead' /\ LoadedWasRead' /\ Configured'
        BY Zenon, <2>1 DEF KeptWasRead, LoadedWasRead, Configured, ReadAt
  <2>4. ShownWasRead'
        BY SMTT(30), <2>1 DEF CertTypeOK, KeptWasRead, ShownWasRead, JustRotated, ReadAt
  <2>5. QED
        BY Zenon, <2>2, <2>3, <2>4
<1>5. CASE HandshakeReloads
      BY SMTT(30), <1>5 DEF HandshakeReloads, NoHandshake, NoCert, Cert, CertTypeOK, Certs, Forms, KeptWasRead,
                  LoadedWasRead, ShownWasRead, Configured, ReadAt, JustRotated
<1>6. CASE LoadSucceeds
      BY SMTT(30), <1>6 DEF LoadSucceeds, NoHandshake, CertTypeOK, KeptWasRead,
                  LoadedWasRead, ShownWasRead, Configured, ReadAt, JustRotated
<1>7. CASE LoadFails
  <2>1. /\ shown' = [cert |-> source.current, failed |-> TRUE, at |-> now]
        /\ hand' = NoHandshake /\ hand.phase = "loading"
        /\ UNCHANGED <<now, secret, source, signed>>
        BY Zenon, <1>7 DEF LoadFails, Present
  <2>2. CertTypeOK'
        BY <2>1 DEF CertTypeOK, NoHandshake, NoCert, Cert, Certs, Forms
  <2>3. KeptWasRead' /\ LoadedWasRead' /\ ShownWasRead' /\ Configured'
        BY Zenon, <2>1 DEF KeptWasRead, LoadedWasRead, ShownWasRead, Configured, ReadAt, NoHandshake
  <2>4. QED
        BY Zenon, <2>2, <2>3
<1>8. CASE StoreLoaded
  <2>1. /\ source' = [source EXCEPT !.current = hand.got,
                        !.nextCheck = now + source.interval, !.slow = now - hand.read]
        /\ shown' = [cert |-> hand.got, failed |-> FALSE, at |-> now]
        /\ hand' = NoHandshake /\ hand.phase = "loaded"
        /\ UNCHANGED <<now, secret, signed>>
        BY Zenon, <1>8 DEF StoreLoaded, Present
  <2>2. now - hand.read \in Nat
        BY DEF CertTypeOK
  <2>3. CertTypeOK'
    <3>1. source' \in [current : Certs, nextCheck : Int, slow : Nat, interval : Int]
      <4>1. now + source.interval \in Int /\ hand.got \in Certs
            BY DEF CertTypeOK
      <4>2. QED
            BY Zenon, <2>1, <2>2, <4>1 DEF CertTypeOK
    <3>2. NoHandshake \in [phase : {"idle", "loading", "loaded"}, got : Certs, read : Nat] /\ NoHandshake.read = 0
          BY Zenon DEF NoHandshake, NoCert, Cert, Certs, Forms
    <3>3. shown' \in [cert : Certs, failed : BOOLEAN, at : Nat] /\ shown'.at = now
          BY Zenon, <2>1 DEF CertTypeOK
    <3>4. QED
          BY SMTT(30), <2>1, <3>1, <3>2, <3>3 DEF CertTypeOK
  <2>4. /\ source'.current = hand.got /\ source'.interval = source.interval
        /\ source'.nextCheck = now + source.interval /\ source'.slow = now - hand.read
        BY Zenon, <2>1 DEF CertTypeOK
  <2>5. hand.got = secret.cert \/ secret.changed >= hand.read
        BY Zenon, <2>1 DEF LoadedWasRead
  <2>6. KeptWasRead' /\ ShownWasRead'
        BY SMTT(30), <2>1, <2>4, <2>5 DEF CertTypeOK, KeptWasRead, ShownWasRead, JustRotated, ReadAt
  <2>7. LoadedWasRead' /\ Configured'
        BY Zenon, <2>1, <2>4 DEF LoadedWasRead, Configured, NoHandshake
  <2>8. QED
        BY Zenon, <2>3, <2>6, <2>7
<1>9. CASE SignAndSend
  <2>1. UNCHANGED <<now, secret, source, hand, shown>>
        BY Zenon, <1>9 DEF SignAndSend
  <2>2. signed' \in {"none", "error", "verified", "rejected"}
        BY Zenon, <1>9 DEF SignAndSend, Verify
  <2>3. QED
        BY Zenon, <2>1, <2>2 DEF CertTypeOK, KeptWasRead, LoadedWasRead, ShownWasRead, Configured, ReadAt, JustRotated
<1>10. CASE UNCHANGED certVars
      BY Zenon, <1>10 DEF certVars, CertTypeOK, KeptWasRead, LoadedWasRead, ShownWasRead, Configured, ReadAt, JustRotated
<1>11. QED
      BY Zenon, <1>1, <1>2, <1>3, <1>4, <1>5, <1>6, <1>7, <1>8, <1>9, <1>10 DEF CertNext

(***************************************************************************)
(* The invariant holds from the start of the client on.                    *)
(***************************************************************************)
LEMMA CertInvariant == CertSpec => []CertInv
BY CertInvInit, CertInvStep, PTL DEF CertSpec

(***************************************************************************)
(* A handshake whose own load did not fail presents the secret's           *)
(* certificate, or one that was the secret's an interval ago.              *)
(***************************************************************************)
THEOREM CertPresentsFresh == CertSpec => PresentsFresh
<1>1. CertInv /\ [CertNext]_certVars =>
        [(shown' # shown /\ ~shown'.failed /\ source.interval > 0)
           => shown'.cert = secret.cert \/ JustRotated \/ JustRotated']_certVars
  <2> SUFFICES ASSUME CertInv, CertNext, shown' # shown, ~shown'.failed, source.interval > 0
               PROVE  shown'.cert = secret.cert \/ JustRotated \/ JustRotated'
      BY Zenon DEF certVars
  <2>1. CASE HandshakeCached
        BY SMTT(30), <2>1 DEF HandshakeCached, Present, CertInv, CertTypeOK, KeptWasRead, ReadAt, JustRotated
  <2>2. CASE StoreLoaded
    <3>1. hand.got = secret.cert \/ secret.changed >= hand.read
          BY Zenon, <2>2 DEF StoreLoaded, CertInv, LoadedWasRead
    <3>2. shown'.cert = hand.got
          BY Zenon, <2>2 DEF StoreLoaded, Present
    <3>3. secret' = secret /\ now' = now /\ source'.interval = source.interval /\ source'.slow = now - hand.read
          BY Zenon, <2>2 DEF StoreLoaded, CertInv, CertTypeOK
    <3>4. QED
          BY SMTT(30), <3>1, <3>2, <3>3 DEF JustRotated, CertInv, CertTypeOK
  <2>3. CASE LoadFails
        BY Zenon, <2>3 DEF LoadFails, Present
  <2>4. QED
        BY Zenon, <2>1, <2>2, <2>3
           DEF CertNext, Tick, Rotate, Configure, HandshakeReloads, LoadSucceeds, SignAndSend
<1>2. QED
      BY <1>1, CertInvariant, PTL DEF CertSpec, PresentsFresh

(***************************************************************************)
(* A signature made for a connection of the same moment is refused only    *)
(* when the secret was rotated within an interval.                         *)
(***************************************************************************)
THEOREM CertRefusedOnlyAfterRotation == CertSpec => RefusedOnlyAfterRotation
<1>1. CertInv /\ [CertNext]_certVars =>
        [(signed' = "rejected" /\ signed # signed' /\ source.interval > 0 /\ shown.at = now /\ ~shown.failed)
           => JustRotated]_certVars
  <2> SUFFICES ASSUME CertInv, CertNext, signed' = "rejected", signed # signed',
                      source.interval > 0, shown.at = now, ~shown.failed
               PROVE  JustRotated
      BY Zenon DEF certVars
  <2>1. CASE SignAndSend
        BY Zenon, <2>1 DEF SignAndSend, Verify, CertInv, ShownWasRead
  <2>2. QED
        BY Zenon, <2>1 DEF CertNext, Tick, Rotate, Configure, HandshakeCached, HandshakeReloads,
                    LoadSucceeds, LoadFails, StoreLoaded
<1>2. QED
      BY <1>1, CertInvariant, PTL DEF CertSpec, RefusedOnlyAfterRotation

-----------------------------------------------------------------------------
(***************************************************************************)
(* The two smaller caches of pkg/util/cache.                               *)
(*                                                                         *)
(* A cache that copies keeps what was added, for any number of keys,       *)
(* objects and users. The invariant is that nothing is shared: no object   *)
(* is cached and in a user's hands, or cached under two keys, and what is  *)
(* cached or held is not free to be handed out again.                      *)
(*                                                                         *)
(* A cache with a timeout serves in time, for any timeout. The invariant   *)
(* says which words of the time of expiry are already those of the Set or  *)
(* the Invalidate that is writing them, as long as only one of them is.    *)
(***************************************************************************)

LRUTypeOK ==
  /\ heap \in [Heap -> Contents \cup {"free"}]
  /\ held \subseteq Heap
  /\ DOMAIN added = DOMAIN entries
  /\ \A k \in DOMAIN entries : entries[k] \in Heap

NothingShared ==
  /\ \A o \in held : heap[o] # "free"
  /\ \A k \in DOMAIN entries : heap[entries[k]] # "free" /\ entries[k] \notin held
  /\ \A j, k \in DOMAIN entries : entries[j] = entries[k] => j = k

LRUInv == LRUTypeOK /\ (~zeroCopy => NothingShared /\ CachedIsAdded)

(***************************************************************************)
(* An empty cache shares nothing.                                          *)
(***************************************************************************)
LEMMA LRUInvInit == LRUInit => LRUInv
BY DEF LRUInit, LRUInv, LRUTypeOK, NothingShared, CachedIsAdded

(***************************************************************************)
(* A free object that is filled and given to a user is shared with nobody. *)
(***************************************************************************)
LEMMA Taken ==
  ASSUME LRUInv, NEW o \in Heap, NEW c \in Contents, heap[o] = "free",
         heap' = [heap EXCEPT ![o] = c], held' = held \cup {o}, UNCHANGED <<entries, added, zeroCopy>>
  PROVE  LRUInv'
<1> USE DEF LRUInv
<1>1. LRUTypeOK'
      BY Zenon DEF LRUTypeOK
<1>2. heap'[o] = c /\ \A x \in Heap : x # o => heap'[x] = heap[x]
      BY Zenon DEF LRUTypeOK
<1>3. c # "free"
      BY Zenon, LRUAssumption
<1>4. ASSUME ~zeroCopy PROVE NothingShared' /\ CachedIsAdded'
  <2>1. \A k \in DOMAIN entries : entries[k] \in Heap /\ entries[k] # o /\ entries[k] \notin held
        BY Zenon, <1>4 DEF LRUTypeOK, NothingShared
  <2>2. \A k \in DOMAIN entries : heap'[entries[k]] = heap[entries[k]]
        BY Zenon, <1>2, <2>1
  <2>3. \A x \in held' : heap'[x] # "free"
        BY Zenon, <1>2, <1>3, <1>4 DEF LRUTypeOK, NothingShared
  <2>4. \A k \in DOMAIN entries' : entries'[k] \notin held'
        BY Zenon, <2>1
  <2>5. NothingShared'
        BY Zenon, <1>4, <2>2, <2>3, <2>4 DEF NothingShared
  <2>6. CachedIsAdded'
        BY Zenon, <1>4, <2>2 DEF CachedIsAdded
  <2>7. QED
        BY Zenon, <2>5, <2>6
<1>5. QED
      BY Zenon, <1>1, <1>4

(***************************************************************************)
(* Every call, and every change a user makes, keeps it so.                 *)
(***************************************************************************)
LEMMA LRUInvStep == LRUInv /\ [LRUNext]_lruVars => LRUInv'
<1> SUFFICES ASSUME LRUInv, [LRUNext]_lruVars PROVE LRUInv'
    BY Zenon
<1> USE LRUAssumption DEF LRUInv
<1>1. ASSUME NEW o \in Heap, NEW c \in Contents, NewObject(o, c) PROVE LRUInv'
      BY Zenon, <1>1, Taken DEF NewObject, Free
<1>2. ASSUME NEW o \in Heap, NEW c \in Contents, MutateObject(o, c) PROVE LRUInv'
      BY Zenon, <1>2 DEF MutateObject, LRUTypeOK, NothingShared, CachedIsAdded
<1>3. ASSUME NEW o \in Heap, Forget(o) PROVE LRUInv'
      BY Zenon, <1>3 DEF Forget, LRUTypeOK, NothingShared, CachedIsAdded
<1>4. ASSUME NEW k \in LRUKeys, NEW o \in Heap, Add(k, o) PROVE LRUInv'
  <2>1. PICK copy \in Heap :
          /\ heap[copy] = "free" /\ o \in held
          /\ heap' = Released([heap EXCEPT ![copy] = heap[o]], k)
          /\ entries' = With(entries, k, copy) /\ added' = With(added, k, heap[o])
          /\ UNCHANGED <<held, zeroCopy>>
        BY Zenon, <1>4 DEF Add, Free
  <2>2. /\ DOMAIN entries' = DOMAIN entries \cup {k} /\ DOMAIN added' = DOMAIN entries \cup {k}
        /\ entries'[k] = copy /\ added'[k] = heap[o]
        /\ \A x \in DOMAIN entries : x # k => entries'[x] = entries[x] /\ added'[x] = added[x]
    <3>1. /\ DOMAIN entries' = DOMAIN entries \cup {k} /\ entries'[k] = copy
          /\ \A x \in DOMAIN entries : x # k => entries'[x] = entries[x]
          BY Zenon, <2>1 DEF With
    <3>2. added' = With(added, k, heap[o])
          BY Zenon, <2>1
    <3>3. DOMAIN added' = DOMAIN added \cup {k}
          BY Zenon, <3>2 DEF With
    <3>4. added'[k] = heap[o] /\ \A x \in DOMAIN added : x # k => added'[x] = added[x]
          BY Zenon, <3>2 DEF With
    <3>5. QED
          BY Zenon, <3>1, <3>3, <3>4 DEF LRUTypeOK
  <2>3. LRUTypeOK'
        BY Zenon, <2>1, <2>2 DEF LRUTypeOK, Released
  <2>4. ASSUME ~zeroCopy PROVE NothingShared' /\ CachedIsAdded'
    <3>1. heap'[copy] = heap[o] /\ heap[o] # "free" /\ copy \notin held
          BY Zenon, <2>1, <2>4 DEF Released, LRUTypeOK, NothingShared
    <3>2. \A x \in held : heap'[x] = heap[x]
          BY Zenon, <2>1, <2>4, <3>1 DEF Released, LRUTypeOK, NothingShared
    <3>3. \A x \in DOMAIN entries : x # k => heap'[entries[x]] = heap[entries[x]] /\ entries[x] # copy
          BY Zenon, <2>1, <2>4 DEF Released, LRUTypeOK, NothingShared
    <3>4. \A x \in held' : heap'[x] # "free"
          BY Zenon, <2>1, <2>4, <3>2 DEF NothingShared
    <3>5. \A x \in DOMAIN entries' : heap'[entries'[x]] # "free" /\ entries'[x] \notin held'
      <4>1. held' = held
            BY Zenon, <2>1
      <4>2. \A x \in DOMAIN entries : heap[entries[x]] # "free" /\ entries[x] \notin held
            BY Zenon, <2>4 DEF NothingShared
      <4>3. QED
            BY Zenon, <2>2, <3>1, <3>3, <4>1, <4>2
    <3>6. \A j, x \in DOMAIN entries' : entries'[j] = entries'[x] => j = x
      <4>1. \A j, x \in DOMAIN entries : entries[j] = entries[x] => j = x
            BY ZenonT(40), <2>4 DEF NothingShared
      <4>2. QED
            BY Zenon, <2>2, <3>3, <4>1
    <3>7. \A x \in DOMAIN entries' : heap'[entries'[x]] = added'[x]
          BY Zenon, <2>2, <2>4, <3>1, <3>3 DEF CachedIsAdded
    <3>8. QED
          BY Zenon, <3>4, <3>5, <3>6, <3>7 DEF NothingShared, CachedIsAdded
  <2>5. QED
        BY Zenon, <2>1, <2>3, <2>4
<1>5. ASSUME NEW k \in LRUKeys, Evict(k) PROVE LRUInv'
  <2>1. /\ k \in DOMAIN entries /\ heap' = Released(heap, k) /\ UNCHANGED <<held, zeroCopy>>
        /\ DOMAIN entries' = DOMAIN entries \ {k} /\ DOMAIN added' = DOMAIN entries \ {k}
        /\ \A x \in DOMAIN entries \ {k} : entries'[x] = entries[x] /\ added'[x] = added[x]
        BY Zenon, <1>5 DEF Evict, Without, LRUTypeOK
  <2>2. LRUTypeOK'
        BY Zenon, <2>1 DEF LRUTypeOK, Released
  <2>3. ASSUME ~zeroCopy PROVE NothingShared' /\ CachedIsAdded'
    <3>1. \A x \in DOMAIN entries \ {k} : entries[x] # entries[k] /\ entries[x] \in Heap
          BY Zenon, <2>1, <2>3 DEF LRUTypeOK, NothingShared
    <3>2. \A x \in held : x # entries[k] /\ x \in Heap
          BY Zenon, <2>1, <2>3 DEF LRUTypeOK, NothingShared
    <3>3. \A x \in Heap : x # entries[k] => heap'[x] = heap[x]
          BY Zenon, <2>1 DEF Released, LRUTypeOK
    <3>4. \A x \in DOMAIN entries' : entries'[x] = entries[x] /\ heap'[entries'[x]] = heap[entries[x]] /\ x \in DOMAIN entries
          BY Zenon, <2>1, <3>1, <3>3
    <3>5. \A x \in held' : heap'[x] # "free"
          BY Zenon, <2>1, <2>3, <3>2, <3>3 DEF NothingShared
    <3>6. NothingShared'
          BY Zenon, <2>1, <2>3, <3>4, <3>5 DEF NothingShared
    <3>7. QED
          BY Zenon, <2>1, <2>3, <3>4, <3>6 DEF CachedIsAdded
  <2>4. QED
        BY Zenon, <2>1, <2>2, <2>3
<1>6. ASSUME NEW k \in LRUKeys, Get(k) PROVE LRUInv'
  <2>1. CASE zeroCopy
    <3>1. held' = held \cup {entries[k]} /\ heap' = heap /\ k \in DOMAIN entries /\ UNCHANGED <<entries, added, zeroCopy>>
          BY Zenon, <1>6, <2>1 DEF Get
    <3>2. LRUTypeOK'
          BY Zenon, <3>1 DEF LRUTypeOK
    <3>3. QED
          BY Zenon, <2>1, <3>1, <3>2
  <2>2. CASE ~zeroCopy
    <3>1. PICK copy \in Heap :
            /\ heap[copy] = "free" /\ heap' = [heap EXCEPT ![copy] = heap[entries[k]]] /\ held' = held \cup {copy}
            /\ k \in DOMAIN entries /\ UNCHANGED <<entries, added, zeroCopy>>
          BY Zenon, <1>6, <2>2 DEF Get, Free
    <3>2. heap[entries[k]] \in Contents
          BY Zenon, <2>2, <3>1 DEF LRUTypeOK, NothingShared
    <3>3. QED
          BY Zenon, <2>2, <3>1, <3>2, Taken
  <2>3. QED
        BY ZenonT(40), <2>1, <2>2
<1>7. CASE UNCHANGED lruVars
      BY Zenon, <1>7 DEF lruVars, LRUTypeOK, NothingShared, CachedIsAdded
<1>8. QED
      BY Zenon, <1>1, <1>2, <1>3, <1>4, <1>5, <1>6, <1>7 DEF LRUNext

(***************************************************************************)
(* What is cached is what was added.                                       *)
(***************************************************************************)
THEOREM LRUCachedIsAdded == LRUSpec => []CachedIsAdded
<1>1. LRUInv => CachedIsAdded
      BY Zenon DEF LRUInv, CachedIsAdded
<1>2. QED
      BY <1>1, LRUInvInit, LRUInvStep, PTL DEF LRUSpec
-----------------------------------------------------------------------------
TimeoutTypeOK ==
  /\ time \in Nat /\ valueSet \in Nat
  /\ invalid \in [mono : BOOLEAN, reading : Nat]
  /\ setter \in [words : SUBSET Words, at : Nat]
  /\ invalidator \in SUBSET Words
  /\ dropped \in BOOLEAN /\ raced \in BOOLEAN

\* A Set is writing: the words it has written are its own.
HalfSet ==
  /\ invalidator = {}
  /\ "mono" \notin setter.words => invalid.mono
  /\ "reading" \notin setter.words => invalid.reading = setter.at + Refresh

\* An Invalidate is writing.
HalfInvalid ==
  /\ "mono" \notin invalidator => ~invalid.mono
  /\ "reading" \notin invalidator => invalid.reading = 0

\* Nobody is writing: the time is that of the last Set, or zero since an Invalidate.
WholeTime ==
  IF dropped THEN ~invalid.mono /\ invalid.reading = 0
  ELSE invalid.mono /\ invalid.reading = valueSet + Refresh

TimeoutInv ==
  /\ TimeoutTypeOK
  /\ ~raced => IF Setting THEN HalfSet
               ELSE IF invalidator # {} THEN HalfInvalid
               ELSE WholeTime

(***************************************************************************)
(* A cache that was never set has the zero time, which has expired.        *)
(***************************************************************************)
LEMMA TimeoutInvInit == TimeoutInit => TimeoutInv
<1> SUFFICES ASSUME TimeoutInit PROVE TimeoutInv
    BY Zenon
<1>1. TimeoutTypeOK
      BY Zenon DEF TimeoutInit, TimeoutTypeOK, Words
<1>2. ~Setting /\ invalidator = {} /\ WholeTime
      BY Zenon DEF TimeoutInit, Setting, WholeTime
<1>3. QED
      BY Zenon, <1>1, <1>2 DEF TimeoutInv

(***************************************************************************)
(* Every word written, and the passing of time, keep it so.                *)
(***************************************************************************)
LEMMA TimeoutInvStep == TimeoutInv /\ [TimeoutNext]_timeoutVars => TimeoutInv'
<1> SUFFICES ASSUME TimeoutInv, [TimeoutNext]_timeoutVars PROVE TimeoutInv'
    BY Zenon
<1> USE TimeoutAssumption DEF TimeoutInv, TimeoutTypeOK, Words, Setting
<1>1. CASE PassTime \/ UNCHANGED timeoutVars
  <2>1. UNCHANGED <<invalid, setter, invalidator, valueSet, dropped, raced>> /\ time' \in Nat
        BY <1>1 DEF PassTime, timeoutVars
  <2>2. TimeoutTypeOK'
        BY Zenon, <2>1
  <2>3. /\ Setting' = Setting /\ HalfSet' = HalfSet
        /\ HalfInvalid' = HalfInvalid /\ WholeTime' = WholeTime
        BY ONLY Zenon, <2>1 DEF Setting, HalfSet, HalfInvalid, WholeTime
  <2>4. QED
        BY ONLY Zenon, TimeoutInv, <2>1, <2>2, <2>3 DEF TimeoutInv
<1>2. CASE BeginSet
  <2>1. setter' = [words |-> Words, at |-> time] /\ raced' = (invalidator # {})
        BY Zenon, <1>2 DEF BeginSet
  <2>2. TimeoutTypeOK'
        BY SMTT(30), <1>2, <2>1 DEF BeginSet
  <2>3. invalidator' = invalidator /\ setter'.words = {"mono", "reading"}
        BY SMTT(30), <1>2, <2>1 DEF BeginSet
  <2>4. ~raced' => invalidator' = {}
        BY ONLY Zenon, <2>1, <2>3
  <2>5. QED
        BY ONLY Zenon, <2>2, <2>3, <2>4 DEF TimeoutInv, Setting, HalfSet
<1>3. CASE BeginInvalidate
      BY Zenon, <1>3 DEF BeginInvalidate, HalfInvalid
<1>4. ASSUME NEW word \in Words, WriteSet(word) PROVE TimeoutInv'
  <2>1. /\ word \in setter.words
        /\ setter' = [words |-> setter.words \ {word}, at |-> setter.at]
        /\ UNCHANGED <<time, invalidator, raced>>
        BY Zenon, <1>4 DEF WriteSet
  <2>2. /\ valueSet' \in Nat /\ dropped' \in BOOLEAN
        /\ setter.words = {word} => valueSet' = setter.at /\ ~dropped'
        BY Zenon, <1>4 DEF WriteSet
  <2>3. CASE word = "mono"
    <3>1. invalid' = [invalid EXCEPT !.mono = TRUE]
          BY Zenon, <1>4, <2>3 DEF WriteSet
    <3>2. invalid' \in [mono : BOOLEAN, reading : Nat] /\ invalid'.mono /\ invalid'.reading = invalid.reading
          BY Zenon, <3>1
    <3>3. TimeoutTypeOK'
          BY Zenon, <2>1, <2>2, <3>2
    <3>4. QED
          BY Zenon, <2>1, <2>2, <2>3, <3>2, <3>3 DEF HalfSet, WholeTime
  <2>4. CASE word = "reading"
    <3>1. invalid' = [invalid EXCEPT !.reading = setter.at + Refresh]
          BY Zenon, <1>4, <2>4 DEF WriteSet
    <3>2. /\ invalid' \in [mono : BOOLEAN, reading : Nat]
          /\ invalid'.mono = invalid.mono /\ invalid'.reading = setter.at + Refresh
          BY <3>1
    <3>3. TimeoutTypeOK'
          BY Zenon, <2>1, <2>2, <3>2
    <3>4. ASSUME ~raced PROVE invalidator = {} /\ ("mono" \notin setter.words => invalid'.mono)
          BY Zenon, <2>1, <3>2, <3>4 DEF HalfSet
    <3>5. Setting' => "mono" \in setter.words
          BY Zenon, <2>1, <2>4
    <3>6. ~Setting' => setter.words = {word}
          BY Zenon, <2>1
    <3>7. ASSUME ~raced, Setting' PROVE HalfSet'
          BY ZenonT(40), <2>1, <2>4, <3>2, <3>4, <3>5, <3>7 DEF HalfSet
    <3>8. ASSUME ~raced, ~Setting' PROVE WholeTime'
          BY SMTT(30), <2>2, <2>4, <3>2, <3>4, <3>6, <3>8 DEF WholeTime
    <3>9. QED
          BY ONLY Zenon, <2>1, <3>3, <3>4, <3>7, <3>8 DEF TimeoutInv
  <2>5. QED
        BY Zenon, <2>3, <2>4
<1>5. ASSUME NEW word \in Words, WriteInvalid(word) PROVE TimeoutInv'
  <2>1. /\ word \in invalidator /\ invalidator' = invalidator \ {word}
        /\ dropped' = (dropped \/ invalidator = {word})
        /\ UNCHANGED <<time, setter, valueSet, raced>>
        BY Zenon, <1>5 DEF WriteInvalid
  <2>2. invalid' = [invalid EXCEPT ![word] = IF word = "mono" THEN FALSE ELSE 0]
        BY Zenon, <1>5 DEF WriteInvalid
  <2>3. invalid \in [mono : BOOLEAN, reading : Nat] /\ word \in {"mono", "reading"}
        BY Zenon
  <2>4. /\ invalid'.mono = IF word = "mono" THEN FALSE ELSE invalid.mono
        /\ invalid'.reading = IF word = "mono" THEN invalid.reading ELSE 0
        /\ invalid' \in [mono : BOOLEAN, reading : Nat]
        BY ONLY Zenon, <2>2, <2>3
  <2>5. TimeoutTypeOK'
        BY Zenon, <2>1, <2>4
  <2>6. ASSUME ~raced PROVE ~Setting /\ HalfInvalid
        BY Zenon, <2>1, <2>6 DEF HalfSet
  <2>7. ASSUME ~raced, invalidator' # {} PROVE HalfInvalid'
        BY ONLY Zenon, <2>1, <2>3, <2>4, <2>6, <2>7 DEF HalfInvalid
  <2>8. ASSUME ~raced, invalidator' = {} PROVE WholeTime'
    <3>1. invalidator = {word} /\ dropped'
          BY ONLY Zenon, <2>1, <2>8
    <3>2. ~invalid'.mono /\ invalid'.reading = 0
          BY ONLY Zenon, <2>3, <2>4, <2>6, <2>8, <3>1 DEF HalfInvalid
    <3>3. QED
          BY ONLY Zenon, <3>1, <3>2 DEF WholeTime
  <2>9. Setting' = Setting /\ raced' = raced
        BY ONLY Zenon, <2>1 DEF Setting
  <2>10. QED
        BY ONLY Zenon, <2>5, <2>6, <2>7, <2>8, <2>9 DEF TimeoutInv
<1>6. QED
      BY Zenon, <1>1, <1>2, <1>3, <1>4, <1>5 DEF TimeoutNext

(***************************************************************************)
(* What Get serves is no older than the timeout and was not invalidated,   *)
(* as long as neither Get nor the Set that stored it overlaps with an      *)
(* Invalidate, which takes no lock.                                        *)
(***************************************************************************)
THEOREM TimeoutServedInTime == TimeoutSpec => []ServedInTime
<1>1. TimeoutInv => ServedInTime
      BY TimeoutAssumption DEF TimeoutInv, TimeoutTypeOK, WholeTime, ServedInTime, GetServes, Expired
<1>2. QED
      BY <1>1, TimeoutInvInit, TimeoutInvStep, PTL DEF TimeoutSpec
=============================================================================

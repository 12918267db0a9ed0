------------------------------ MODULE ApiServer -----------------------------
(***************************************************************************)
(* One request through an API server built from this library: telemetry    *)
(* and logging around everything, the route resolver, CORS, then a handler *)
(* that reads the body, checks who owns the resource, runs a saga and      *)
(* answers.                                                                *)
(*                                                                         *)
(* External: net/http, httpsnoop's metrics, the router, and the handler,   *)
(* which services write; it is taken to call the library in the order      *)
(* above and to hand every error to HandleError, as that function asks     *)
(* ("should be called from all path handlers on error").                   *)
(***************************************************************************)
EXTENDS ServerErrors, Saga

CONSTANTS Requests,        \* The requests that may come.
          Routed,          \* The pairs of a path and a method the router knows.
          Operations,      \* The methods of each path of the OpenAPI schema.
          AllowedOrigins,  \* The CORS option, a sequence.
          Downstreams,     \* How the other services fail: an error, and whether its body decodes.
          Fields           \* The statuses a generated response type has a field for.

\* Errors wrap plain errors and those of the constructors.
ASSUME ServerAssumption == \A d \in Downstreams : d.err \in Seq({Plain} \cup HTTPErrors)

VARIABLES
  req,          \* The request.
  downstream,   \* How a call of the saga fails, when it fails.
  stage,        \* Where the request is.
  w,            \* The response writer: what was sent, what was captured.
  trail         \* What telemetry and the log recorded.

serverVars == <<req, downstream, stage, w, trail>>
apiVars == <<serverVars, sagaVars>>

\* A captured status is OK until the handler writes one, as net/http's is.
NewCapture == [sent |-> 0, code |-> "", origins |-> <<>>, captured |-> 200]

ServerInit ==
  /\ req \in Requests
  /\ downstream \in Downstreams
  /\ stage = "route"
  /\ w = NewCapture
  /\ trail = [span |-> "open", logged |-> FALSE]
  /\ SagaInit

\* WriteHeader: net/http keeps the first status, the capture the last.
WriteHeader(writer, status, code) ==
  [writer EXCEPT !.sent = IF @ = 0 THEN status ELSE @, !.code = IF writer.sent = 0 THEN code ELSE @,
                 !.captured = status]

\* The handler at hand answers, and every middleware returns.
Answer(status, code) ==
  /\ w' = WriteHeader(w, status, code)
  /\ stage' = "finish"
  /\ UNCHANGED <<req, downstream, trail, sagaVars>>

AnswerError(err) == LET e == HandleError(err) IN Answer(e.status, e.code)

Proceed(next) ==
  /\ stage' = next
  /\ UNCHANGED <<req, downstream, w, trail, sagaVars>>
-----------------------------------------------------------------------------
FindRoute(path, method) ==
  IF <<path, method>> \notin Routed \/ path \notin DOMAIN Operations THEN HTTPError("not_found")
  ELSE IF method \notin Operations[path] THEN HTTPError("method_not_allowed")
  ELSE Nil

\* A preflight request is resolved as the method it asks about.
ResolveRoute ==
  /\ stage = "route"
  /\ LET preflight == req.method = "OPTIONS"
         err == IF preflight /\ req.asked = "" THEN HTTPError("invalid_request")
                ELSE FindRoute(req.path, IF preflight THEN req.asked ELSE req.method)
     IN  IF err # Nil THEN AnswerError(err) ELSE Proceed("cors")

\* The first of the options stands for every origin that is not one of them.
AllowOrigin(origin) ==
  IF origin # "" /\ \E i \in DOMAIN AllowedOrigins : AllowedOrigins[i] = origin THEN origin ELSE AllowedOrigins[1]

\* Mutant of Cors: a preflight goes on to the handler of the method it asks about.
CorsPasses ==
  /\ stage = "cors"
  /\ w' = [w EXCEPT !.origins = Append(@, AllowOrigin(req.origin))]
  /\ stage' = "read"
  /\ UNCHANGED <<req, downstream, trail, sagaVars>>

Cors ==
  /\ stage = "cors"
  /\ LET open == [w EXCEPT !.origins = Append(@, AllowOrigin(req.origin))]
     IN  IF req.method = "OPTIONS"
         THEN w' = WriteHeader(open, 204, "") /\ stage' = "finish"
         ELSE w' = open /\ stage' = "read"
  /\ UNCHANGED <<req, downstream, trail, sagaVars>>
-----------------------------------------------------------------------------
ReadBody ==
  /\ stage = "read"
  /\ LET err == ReadJSONBody(req.body)
     IN  IF err # Nil THEN AnswerError(err) ELSE Proceed("own")

CheckOwner ==
  /\ stage = "own"
  /\ LET err == AssertProjectOwnership(req.labels, "o1", "p1")
     IN  IF err # Nil THEN AnswerError(err) ELSE Proceed("saga")

\* What a call that failed gives the saga: the other service's answer, propagated.
CallError == Wrap(PropagateError(HandleError(downstream.err), Fields, downstream.decoded))

RunSaga ==
  /\ stage = "saga"
  /\ SagaNext
  /\ saga'.err \in {Nil, CallError}
  /\ UNCHANGED serverVars

\* Mutant of Reply: the error of the saga is not looked at.
ReplyUnchecked ==
  /\ stage = "saga" /\ saga.phase = "returned"
  /\ Answer(201, "")

\* WriteJSONResponse: a body that cannot be encoded is not answered at all.
Reply ==
  /\ stage = "saga" /\ saga.phase = "returned"
  /\ \/ saga.err # Nil /\ AnswerError(saga.err)
     \/ saga.err = Nil /\ (Answer(201, "") \/ Proceed("finish"))

\* The panic goes through every middleware to net/http, which drops the connection.
Abort ==
  /\ stage = "saga" /\ saga.phase = "panicked"
  /\ Proceed("aborted")

httpStatusToOtelCode(status) == IF status >= 400 THEN "Error" ELSE "Ok"

\* net/http answers 200 for a handler that wrote nothing, and httpsnoop's metrics
\* have the status that was sent; telemetry and log go by them.
Finish ==
  /\ stage = "finish"
  /\ LET sent == IF w.sent = 0 THEN 200 ELSE w.sent
     IN  /\ w' = [w EXCEPT !.sent = sent]
         /\ trail' = [span |-> httpStatusToOtelCode(sent), logged |-> sent >= 400]
  /\ stage' = "done"
  /\ UNCHANGED <<req, downstream, sagaVars>>

ServerNext == ResolveRoute \/ Cors \/ ReadBody \/ CheckOwner \/ RunSaga \/ Reply \/ Abort \/ Finish

ApiSpec == ServerInit /\ [][ServerNext]_apiVars
-----------------------------------------------------------------------------
(***************************************************************************)
(* The answer tells the truth about the effects: a request answered with   *)
(* success has all of them, unless it was a preflight, which has none, as  *)
(* has one that was refused before the saga. An error of the saga is never *)
(* answered with success (saga.go:87, errors.go:388). And what telemetry   *)
(* and the log go by is what was sent, on every way out of the chain ("we  *)
(* capture any 4XX and 5XX errors unconditionally", logging.go:152).       *)
(***************************************************************************)
AnswerMatchesEffects ==
  stage = "done" =>
    /\ IF w.sent < 400 /\ req.method # "OPTIONS" THEN effects = 1..SagaLen
       ELSE saga.err = Nil => effects = {}
    /\ w.captured = w.sent
    /\ w.sent >= 400 => trail.logged

(***************************************************************************)
(* An error keeps its meaning across services: when the caller's generated *)
(* type has a field for the status and the body decodes, the client at the *)
(* far end gets the status and code that the failing service gave          *)
(* ("allows propagation across API calls", errors.go:197).                 *)
(***************************************************************************)
ErrorsKeepStatus ==
  (stage = "done" /\ saga.err # Nil) =>
    LET origin == HandleError(downstream.err)
    IN  (downstream.decoded /\ origin.status \in Fields) => w.sent = origin.status /\ w.code = origin.code
=============================================================================

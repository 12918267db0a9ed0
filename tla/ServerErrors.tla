---------------------------- MODULE ServerErrors ----------------------------
(***************************************************************************)
(* The errors of an API server (pkg/server/errors/errors.go) and the       *)
(* request helpers that return them (pkg/server/util).                     *)
(*                                                                         *)
(* A Go error is the sequence of the errors it wraps, outermost first, and *)
(* nil is <<>>. A link is an HTTP error, or any other, which is Plain.     *)
(* A response is what the client sees: a status, an error code and whether *)
(* a WWW-Authenticate header came with it.                                 *)
(***************************************************************************)
EXTENDS Naturals, Sequences, FiniteSets

Nil == <<>>
Plain == [status |-> 0, code |-> "", header |-> FALSE]

StatusOf ==
  [invalid_request |-> 400, access_denied |-> 401, forbidden |-> 403, not_found |-> 404,
   method_not_allowed |-> 405, conflict |-> 409, request_entity_too_large |-> 413,
   unprocessable_content |-> 422, server_error |-> 500]

\* What a link that is not Plain may be: the status is a failure's.
HTTPErrors == [status : 400..599, code : DOMAIN StatusOf, header : BOOLEAN]

\* An error made by one of the constructors.
HTTPError(code) == <<[status |-> StatusOf[code], code |-> code, header |-> FALSE]>>

\* The successor of OAuth2AccessDenied says where to authenticate.
AccessDenied == <<[status |-> 401, code |-> "access_denied", header |-> TRUE]>>

\* fmt.Errorf with %w.
Wrap(err) == <<Plain>> \o err

\* errors.As: the first HTTP error of the chain, nil when there is none.
asError(err) ==
  LET http == {i \in DOMAIN err : err[i] # Plain}
  IN  IF http = {} THEN Nil ELSE <<err[CHOOSE i \in http : \A j \in http : i <= j]>>

\* The response HandleError writes.
HandleError(err) == IF asError(err) # Nil THEN asError(err)[1] ELSE HTTPError("server_error")[1]

\* Mutant of PropagateError: the caller's own server error, whatever the answer.
PropagateErrorOpaque(response, fields, decoded) == <<Plain>>

(***************************************************************************)
(* A client that got response from another service: fields are the         *)
(* statuses its generated type has a field for, decoded whether the body   *)
(* was the JSON error of that field. The header is not carried over.       *)
(***************************************************************************)
PropagateError(response, fields, decoded) ==
  IF response.status >= 400 /\ response.status \in fields /\ decoded
  THEN <<[response EXCEPT !.header = FALSE]>>
  ELSE <<Plain>>

(***************************************************************************)
(* Reading a request. Labels is a function from the labels a resource has. *)
(***************************************************************************)
ReadJSONBody(body) ==
  IF body = "unreadable" THEN <<Plain>>
  ELSE IF body = "malformed" THEN HTTPError("invalid_request")
  ELSE Nil

AssertOwnership(labels, label, id) ==
  IF label \notin DOMAIN labels THEN <<Plain>>
  ELSE IF labels[label] # id THEN HTTPError("not_found")
  ELSE Nil

AssertProjectOwnership(labels, organizationID, projectID) ==
  LET err == AssertOwnership(labels, "organization", organizationID)
  IN  IF err # Nil THEN err ELSE AssertOwnership(labels, "project", projectID)
=============================================================================

----------------------------- MODULE MCServices -----------------------------
(***************************************************************************)
(* Instances for TLC of the parts of the library that services are built   *)
(* from and that share no state: each behaviour is one of one component,   *)
(* chosen at the start, and the others stand still.                        *)
(***************************************************************************)
EXTENDS MessageQueue, ApiServer, ResourceApi, ResourceStatus,
        CertificateSource, TimeoutCache, LRUExpireCache

\* Two children of the parent that is deleted, one of the parent that is not.
MCParentOf  == [c \in Children |-> IF c = "c3" THEN "p2" ELSE "p1"]
MCConsumers == <<"other", "cascade">>

\* Four actions; the second and the fourth cannot be undone.
MCCompensable == {1, 3}
MCDownstreams == [err : {HTTPError("conflict"), HTTPError("forbidden"), AccessDenied, Wrap(HTTPError("not_found")), <<Plain>>},
                  decoded : BOOLEAN]
MCFields      == {401, 403, 404, 409}
MCSagaErrors  == {Wrap(PropagateError(HandleError(d.err), MCFields, d.decoded)) : d \in MCDownstreams}

GoodRequest == [method |-> "POST", asked |-> "", path |-> "/a", origin |-> "x", body |-> "ok",
                labels |-> [organization |-> "o1", project |-> "p1"]]
MCRequests ==
  {[GoodRequest EXCEPT !.method = m, !.asked = a, !.path = p] :
     m \in {"POST", "OPTIONS", "PUT"}, a \in {"", "POST"}, p \in {"/a", "/b", "/c"}} \cup
  {[GoodRequest EXCEPT !.body = b] : b \in {"malformed", "unreadable"}} \cup
  {[GoodRequest EXCEPT !.labels = l] :
     l \in {[organization |-> "o2", project |-> "p1"], [organization |-> "o1", project |-> "p2"],
            [organization |-> "o1"], [project |-> "p1"]}}
MCRouted         == {<<"/a", "POST">>, <<"/a", "PUT">>, <<"/b", "POST">>}
MCOperations     == ("/a" :> {"POST"})
MCAllowedOrigins == <<"*", "x">>

\* i1 hashes to a digit, and its name's hash to a letter.
MCHash        == [x \in {"i1", "i2", "1", "a", "b"} |-> IF x = "i1" THEN "1" ELSE IF x = "1" THEN "b" ELSE "a"]
MCInvariantOf == [c \in Callers |-> IF c = "u3" THEN "i2" ELSE "i1"]
\* The value of the tag s is "v=w".
MCMetadata    == {[name |-> "n", description |-> "d", tags |-> <<>>],
                  [name |-> "m", description |-> "", 
                   tags |-> <<[name |-> "t", value |-> <<"v">>], [name |-> "s", value |-> <<"v", "w">>]>>]}

MCDependsOn == [r \in Resources |-> IF r = "r2" THEN "r1" ELSE None]
-----------------------------------------------------------------------------
VARIABLE component

vars == <<component, queueVars, apiVars, resourceApiVars, statusVars, certVars, timeoutVars, lruVars>>

\* Every component but c stands still.
Only(c) ==
  /\ component = c /\ UNCHANGED component
  /\ IF c = "queue"     THEN TRUE ELSE UNCHANGED queueVars
  /\ IF c = "server"    THEN TRUE ELSE UNCHANGED apiVars
  /\ IF c = "resources" THEN TRUE ELSE UNCHANGED resourceApiVars
  /\ IF c = "status"    THEN TRUE ELSE UNCHANGED statusVars
  /\ IF c = "cert"      THEN TRUE ELSE UNCHANGED certVars
  /\ IF c = "timeout"   THEN TRUE ELSE UNCHANGED timeoutVars
  /\ IF c = "lru"       THEN TRUE ELSE UNCHANGED lruVars

\* Where a component has several initial states, the others' behaviours use one.
Init ==
  /\ component \in {"queue", "server", "resources", "status", "cert", "timeout", "lru"}
  /\ QueueInit /\ ServerInit /\ ResourceApiInit /\ StatusInit /\ CertInit /\ TimeoutInit /\ LRUInit
  /\ component = "server" \/ (req = GoodRequest /\ downstream.err = HTTPError("conflict") /\ downstream.decoded)
  /\ component = "cert" \/ (secret.cert.form = "rsa" /\ ca = "unset" /\ source.interval = 2)
  /\ component = "lru" \/ zeroCopy

Next ==
  \/ Only("queue") /\ QueueNext
  \/ Only("server") /\ ServerNext
  \/ Only("resources") /\ ResourceApiNext
  \/ Only("status") /\ StatusNext
  \/ Only("cert") /\ CertNext
  \/ Only("timeout") /\ TimeoutNext
  \/ Only("lru") /\ LRUNext

(***************************************************************************)
(* Fairness. Of the queue: failures stop for long enough, informers and    *)
(* owners act, the worker runs and the informer replays now and then; a    *)
(* work queue is first in, first out, so a parent that is always queued    *)
(* again gets its turns. Of a retry: its callback returns, and a select    *)
(* that is tried for ever takes each of its ready cases.                   *)
(***************************************************************************)
Spec ==
  /\ Init /\ [][Next]_vars
  /\ WF_queueVars(component = "queue" /\ BecomeCalm)
  /\ WF_queueVars(component = "queue" /\ Handle)
  /\ WF_queueVars(component = "queue" /\ Environment)
  /\ \A p \in Doomed : /\ SF_queueVars(component = "queue" /\ TakeEvent(p))
                       /\ WF_queueVars(component = "queue" /\ Resync(p))
  /\ \A c \in Callers : WF_retryVars(component = "resources" /\ Create(c))
  /\ SF_retryVars(component = "resources" /\ \E c \in Callers : Interrupted(c))
=============================================================================

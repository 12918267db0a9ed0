---------------------------- MODULE MessageQueue ----------------------------
(***************************************************************************)
(* The message queue (pkg/messaging/kubernetes/messagequeue.go) and its    *)
(* consumer that deletes what belonged to a deleted resource               *)
(* (pkg/messaging/consumer/cascadingdelete.go).                            *)
(*                                                                         *)
(* A queue is a controller: the events are those of an informer on one     *)
(* type of resource, the parents. An event carries an ID only; the handler *)
(* reads the parent again and passes an envelope to every consumer in      *)
(* turn. The cascading consumer lists the children labelled with the       *)
(* parent's ID and deletes them.                                           *)
(*                                                                         *)
(* External: the API server, the informers' caches (seen, seenChild), the  *)
(* work queue, and the owners that remove a deleted child, or a deleted    *)
(* parent once nothing belongs to it.                                      *)
(***************************************************************************)
EXTENDS Naturals, Sequences

CONSTANTS Parents, Children,
          Doomed,        \* The parents that users delete, or delete children of: a bound.
          ParentOf,      \* The label on each child, the ID of its parent.
          Consumers      \* The consumers in order; "cascade" is CascadingDelete.

ASSUME QueueAssumption ==
  /\ "none" \notin Parents
  /\ Doomed \subseteq Parents /\ ParentOf \in [Children -> Parents]
  /\ Consumers \in Seq(STRING) /\ Len(Consumers) > 0

VARIABLES
  parent,      \* State of each parent.
  child,       \* State of each child.
  seen,        \* The parents as the informer last showed them.
  seenChild,   \* The children, likewise.
  queue,       \* Parents with an event to handle.
  call,        \* The handler's progress; Idle between two events.
  delivered,   \* Deletions consumed: pairs of a parent and a consumer. History.
  cascaded,    \* Children deleted by the consumer. History.
  calm         \* From some time on nothing fails.

queueVars == <<parent, child, seen, seenChild, queue, call, delivered, cascaded, calm>>
clusterVars == <<parent, child>>
cacheVars == <<seen, seenChild>>

Idle == [of |-> "none", at |-> 0, deleting |-> FALSE, items |-> {}, listed |-> FALSE]

QueueTypeOK ==
  /\ parent \in [Parents -> {"live", "deleting", "gone"}]
  /\ child \in [Children -> {"none", "live", "deleting", "gone"}]
  /\ seen \in [Parents -> {"live", "deleting", "gone"}]
  /\ seenChild \in [Children -> {"none", "live", "deleting", "gone"}]
  /\ queue \subseteq Parents
  /\ call \in [of : Parents \cup {"none"}, at : 0..Len(Consumers), deleting : BOOLEAN,
               items : SUBSET [child : Children, deleting : BOOLEAN], listed : BOOLEAN]
  /\ delivered \subseteq Parents \X (1..Len(Consumers))
  /\ cascaded \subseteq Children

\* A queue that starts: the informer reports every parent there is.
QueueInit ==
  /\ parent = [p \in Parents |-> "live"]
  /\ child = [c \in Children |-> "none"]
  /\ seen = parent /\ seenChild = child
  /\ queue = Parents
  /\ call = Idle
  /\ delivered = {} /\ cascaded = {} /\ calm = FALSE
-----------------------------------------------------------------------------
(***************************************************************************)
(* The cluster. A child is created against a parent that its creator may   *)
(* have read before it was deleted.                                        *)
(***************************************************************************)
CreateChild(c) ==
  /\ child[c] = "none" /\ parent[ParentOf[c]] # "gone"
  /\ child' = [child EXCEPT ![c] = "live"]
  /\ UNCHANGED <<parent, cacheVars, queue, call, delivered, cascaded, calm>>

DeleteChild(c) ==
  /\ ParentOf[c] \in Doomed /\ child[c] = "live"
  /\ child' = [child EXCEPT ![c] = "deleting"]
  /\ UNCHANGED <<parent, cacheVars, queue, call, delivered, cascaded, calm>>

ReapChild(c) ==
  /\ child[c] = "deleting"
  /\ child' = [child EXCEPT ![c] = "gone"]
  /\ UNCHANGED <<parent, cacheVars, queue, call, delivered, cascaded, calm>>

DeleteParent(p) ==
  /\ p \in Doomed /\ parent[p] = "live"
  /\ parent' = [parent EXCEPT ![p] = "deleting"]
  /\ UNCHANGED <<child, cacheVars, queue, call, delivered, cascaded, calm>>

ReapParent(p) ==
  /\ parent[p] = "deleting"
  /\ \A c \in Children : ParentOf[c] = p => child[c] \in {"none", "gone"}
  /\ parent' = [parent EXCEPT ![p] = "gone"]
  /\ UNCHANGED <<child, cacheVars, queue, call, delivered, cascaded, calm>>

Observe(p) ==
  /\ seen[p] # parent[p]
  /\ seen' = [seen EXCEPT ![p] = parent[p]]
  /\ queue' = queue \cup {p}
  /\ UNCHANGED <<clusterVars, seenChild, call, delivered, cascaded, calm>>

ObserveChild(c) ==
  /\ seenChild[c] # child[c]
  /\ seenChild' = [seenChild EXCEPT ![c] = child[c]]
  /\ UNCHANGED <<clusterVars, seen, queue, call, delivered, cascaded, calm>>

\* The informer's periodic replay of what it holds.
Resync(p) ==
  /\ seen[p] # "gone" /\ p \notin queue
  /\ queue' = queue \cup {p}
  /\ UNCHANGED <<clusterVars, cacheVars, call, delivered, cascaded, calm>>

\* The process dies, or loses the election: the next leader replays everything.
Crash ==
  /\ ~calm
  /\ seen' = parent /\ seenChild' = child
  /\ queue' = {p \in Parents : parent[p] # "gone"}
  /\ call' = Idle
  /\ UNCHANGED <<clusterVars, delivered, cascaded, calm>>

BecomeCalm ==
  /\ ~calm /\ calm' = TRUE
  /\ UNCHANGED <<clusterVars, cacheVars, queue, call, delivered, cascaded>>
-----------------------------------------------------------------------------
(***************************************************************************)
(* The handler, Reconcile, one step for each call it makes.                *)
(***************************************************************************)
\* Mutant of RequeueEvent: an error drops the event.
RequeueEventDropped ==
  /\ call' = Idle
  /\ UNCHANGED <<queue, seen, seenChild, delivered, calm>>

\* An error returned: the controller queues the event again.
RequeueEvent ==
  /\ queue' = queue \cup {call.of}
  /\ call' = Idle
  /\ UNCHANGED <<cacheVars, delivered, calm>>

\* An event is taken off and its parent read: gone, that is all; a failed read
\* puts the event back.
TakeEvent(p) ==
  /\ call = Idle /\ p \in queue
  /\ \/ /\ queue' = queue \ {p}
        /\ call' = IF seen[p] = "gone" THEN Idle
                   ELSE [Idle EXCEPT !.of = p, !.at = 1, !.deleting = seen[p] = "deleting"]
     \/ ~calm /\ UNCHANGED <<queue, call>>
  /\ UNCHANGED <<clusterVars, cacheVars, delivered, cascaded, calm>>

\* The consumer at hand has returned nil: the next one's turn, or the end.
Consumed ==
  /\ call' = IF call.at = Len(Consumers) THEN Idle
             ELSE [call EXCEPT !.at = @ + 1, !.items = {}, !.listed = FALSE]
  /\ delivered' = IF call.deleting THEN delivered \cup {<<call.of, call.at>>} ELSE delivered
  /\ UNCHANGED <<clusterVars, cacheVars, queue, cascaded, calm>>

At(consumer) == call.at > 0 /\ (Consumers[call.at] = "cascade") = (consumer = "cascade")

ConsumeOther ==
  /\ At("other")
  /\ \/ Consumed
     \/ ~calm /\ RequeueEvent /\ UNCHANGED <<clusterVars, cascaded>>

IgnoreLive == At("cascade") /\ ~call.deleting /\ Consumed

\* Mutant of Matching: the consumer built without WithResourceLabel.
MatchingAll == {c \in Children : seenChild[c] \in {"live", "deleting"}}

\* Mutant of Matching: only the children that are being deleted anyway.
MatchingDeleted == {c \in Children : ParentOf[c] = call.of /\ seenChild[c] = "deleting"}

\* The List with its label selector, answered by the informer's cache.
Matching == {c \in Children : ParentOf[c] = call.of /\ seenChild[c] \in {"live", "deleting"}}

ListChildren ==
  /\ At("cascade") /\ call.deleting /\ ~call.listed
  /\ \/ /\ call' = [call EXCEPT !.listed = TRUE,
                      !.items = {[child |-> c, deleting |-> seenChild[c] = "deleting"] : c \in Matching}]
        /\ UNCHANGED <<clusterVars, cacheVars, queue, delivered, cascaded, calm>>
     \/ ~calm /\ RequeueEvent /\ UNCHANGED <<clusterVars, cascaded>>

\* Delete of a child that is there: it is marked, and marking again is no error.
Mark(c) ==
  /\ child[c] \in {"live", "deleting"}
  /\ child' = [child EXCEPT ![c] = "deleting"]
  /\ cascaded' = cascaded \cup {c}
  /\ UNCHANGED parent

NextItem(item) ==
  /\ call' = [call EXCEPT !.items = @ \ {item}]
  /\ UNCHANGED <<cacheVars, queue, delivered, calm>>

\* One turn of EachListItem: an error ends the walk.
DeleteItem(item) ==
  /\ item \in call.items
  /\ \/ item.deleting /\ NextItem(item) /\ UNCHANGED <<clusterVars, cascaded>>
     \/ ~item.deleting /\ Mark(item.child) /\ (NextItem(item) \/ (~calm /\ RequeueEvent))
     \/ /\ ~item.deleting /\ (child[item.child] = "gone" \/ ~calm)
        /\ RequeueEvent /\ UNCHANGED <<clusterVars, cascaded>>

EndOfList == At("cascade") /\ call.listed /\ call.items = {} /\ Consumed

Handle ==
  \/ ConsumeOther \/ IgnoreLive \/ ListChildren \/ EndOfList
  \/ \E item \in call.items : DeleteItem(item)

QueueNext ==
  \/ \E c \in Children : CreateChild(c) \/ DeleteChild(c) \/ ReapChild(c) \/ ObserveChild(c)
  \/ \E p \in Parents : DeleteParent(p) \/ ReapParent(p) \/ Observe(p) \/ Resync(p) \/ TakeEvent(p)
  \/ Handle \/ Crash \/ BecomeCalm

QueueSpec == QueueInit /\ [][QueueNext]_queueVars

\* What the informers and the owners get to in the end.
Environment ==
  \/ \E c \in Children : ObserveChild(c) \/ ReapChild(c)
  \/ \E p \in Parents : Observe(p) \/ ReapParent(p)
-----------------------------------------------------------------------------
(***************************************************************************)
(* A child is deleted by the cascade only when its own parent has been:    *)
(* the selector keeps the deletion of one parent from reaching another's   *)
(* children (cascadingdelete.go:101).                                      *)
(***************************************************************************)
OwnChildrenOnly == \A c \in cascaded : parent[ParentOf[c]] # "live"

(***************************************************************************)
(* A deletion the queue has seen is waiting, in hand, or consumed without  *)
(* an error by every consumer, whatever fails and whichever consumer stops *)
(* the ones after it ("If an error is encontered when the consumer is      *)
(* invoked, then the event must be requeued", interfaces.go).              *)
(***************************************************************************)
NoEventLost ==
  \A p \in Parents : seen[p] = "deleting" =>
    p \in queue \/ call.of = p \/ \A i \in 1..Len(Consumers) : <<p, i>> \in delivered

(***************************************************************************)
(* The children of a deleted parent are deleted in the end and the parent  *)
(* goes, those included that were created behind the back of the cached    *)
(* list the consumer worked from (cascadingdelete.go:107). Parents do not  *)
(* come back, so it is enough that none is being deleted for ever.         *)
(***************************************************************************)
CascadeCompletes == <>[](\A p \in Parents : parent[p] # "deleting")
=============================================================================

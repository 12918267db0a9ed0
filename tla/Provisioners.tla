---------------------------- MODULE Provisioners ----------------------------
(***************************************************************************)
(* A tree of provisioners as a controller builds it from the combinators   *)
(* of pkg/provisioners (serial, concurrent, conditional, remotecluster)    *)
(* and the leaves (application, resource), run pass after pass by the      *)
(* reconciler over one managed resource.                                   *)
(*                                                                         *)
(* A call of Provision or Deprovision is a frame of its node. The frames   *)
(* under a concurrent group interleave; every call of the API server is a  *)
(* step of its own. The tree, and with it the count of a RemoteCluster, is *)
(* made anew for every pass.                                               *)
(***************************************************************************)
EXTENDS ArgoCD

CONSTANTS
  Nodes,       \* the provisioners; an application's node is its name
  Root,        \* the one the reconciler calls
  Kind,        \* node -> what it is
  Children,    \* node -> the provisioners it was built from, in order
  Condition,   \* conditional node -> generations in which it holds
  Background,  \* remote nodes with background deletion
  Controller,  \* this tree registers the remote cluster with Argo CD
  MaxFaults    \* bound: failed calls, lost replies and crashes

Parents(n)   == {p \in Nodes : n \in Range(Children[p])}
Remotes      == {n \in Nodes : Kind[n] = "remote"}
Resources    == {n \in Nodes : Kind[n] = "resource"}

\* A node and all below it: what no set closed under Children can leave out.
Under ==
  [n \in Nodes |-> {m \in Nodes : \A S \in SUBSET Nodes :
     n \in S /\ (\A p \in S : Range(Children[p]) \subseteq S) => m \in S}]

ASSUME TreeAssumption ==
  /\ IsFiniteSet(Nodes) /\ Root \in Nodes /\ Parents(Root) = {} /\ Under[Root] = Nodes
  /\ Kind \in [Nodes -> {"serial", "concurrent", "conditional", "remote", "application", "resource"}]
  /\ Children \in [Nodes -> Seq(Nodes)]
  /\ Apps = {n \in Nodes : Kind[n] = "application"}
  /\ \A n \in Nodes \ {Root} : \E p \in Nodes : Parents(n) = {p}
  /\ \A n \in Nodes : \A i, j \in DOMAIN Children[n] : Children[n][i] = Children[n][j] => i = j
  /\ \A n \in Nodes : Kind[n] \in {"conditional", "remote"} => Len(Children[n]) = 1
  /\ \A n \in Nodes : Kind[n] \in {"application", "resource"} => Children[n] = <<>>
  /\ Background \subseteq Remotes

ASSUME BoundAssumption == MaxGen \in Nat \ {0} /\ MaxFaults \in Nat

VARIABLES
  owner,    \* the managed resource
  pending,  \* a pass is due
  gen,      \* the generation the current pass works on
  frame,    \* node -> the call of it in this pass
  count,    \* currentCount of the RemoteCluster
  objects,  \* resource node -> its object in the API server
  faults

treeVars == <<owner, pending, gen, frame, count, objects, faults>>
vars     == <<argoVars, treeVars>>

Idle == [op |-> "none", at |-> "idle", result |-> "nil", background |-> FALSE, base |-> None]

Call(op, background) == [Idle EXCEPT !.op = op, !.at = "start", !.background = background]

Init ==
  /\ ArgoInit
  /\ owner   = [gen |-> 1, deleting |-> FALSE, gone |-> FALSE]
  /\ pending = TRUE
  /\ gen     = 1
  /\ frame   = [n \in Nodes |-> Idle]
  /\ count   = 0
  /\ objects = [n \in Resources |-> "absent"]
  /\ faults  = 0
-----------------------------------------------------------------------------
(***************************************************************************)
(* The reconciler (pkg/manager, see Reconciler) and its user: passes over  *)
(* the tree until one returns nil, again after each change.                *)
(***************************************************************************)
Edit ==
  /\ owner.gen < MaxGen
  /\ ~owner.deleting
  /\ owner' = [owner EXCEPT !.gen = @ + 1]
  /\ pending' = TRUE
  /\ UNCHANGED <<argoVars, gen, frame, count, objects, faults>>

Delete ==
  /\ ~owner.deleting
  /\ owner' = [owner EXCEPT !.deleting = TRUE]
  /\ pending' = TRUE
  /\ UNCHANGED <<argoVars, gen, frame, count, objects, faults>>

\* Mutant of PassStart: the tree of the last pass is used again.
PassStartAgain ==
  /\ pending
  /\ frame[Root].at = "idle"
  /\ pending' = FALSE
  /\ gen' = owner.gen
  /\ frame' = [frame EXCEPT ![Root] = Call(IF owner.deleting THEN "deprovision" ELSE "provision", FALSE)]
  /\ UNCHANGED <<argoVars, owner, count, objects, faults>>

PassStart ==
  /\ pending
  /\ frame[Root].at = "idle"
  /\ pending' = FALSE
  /\ gen' = owner.gen
  /\ count' = 0
  /\ frame' = [frame EXCEPT ![Root] = Call(IF owner.deleting THEN "deprovision" ELSE "provision", FALSE)]
  /\ UNCHANGED <<argoVars, owner, objects, faults>>

\* Mutant of PassEnd: only a yield is tried again.
PassEndOnYield ==
  /\ frame[Root].at = "done"
  /\ LET released == frame[Root].op = "deprovision" /\ frame[Root].result = "nil"
     IN  /\ owner' = [owner EXCEPT !.gone = released]
         /\ pending' = IF released THEN FALSE ELSE pending \/ frame[Root].result = "yield"
  /\ frame' = [frame EXCEPT ![Root] = Idle]
  /\ UNCHANGED <<argoVars, gen, count, objects, faults>>

PassEnd ==
  /\ frame[Root].at = "done"
  /\ LET released == frame[Root].op = "deprovision" /\ frame[Root].result = "nil"
     IN  /\ owner' = [owner EXCEPT !.gone = released]
         /\ pending' = IF released THEN FALSE ELSE pending \/ frame[Root].result # "nil"
  /\ frame' = [frame EXCEPT ![Root] = Idle]
  /\ UNCHANGED <<argoVars, gen, count, objects, faults>>

\* The process dies in a pass; its successor lists the resource again.
Crash ==
  /\ faults < MaxFaults
  /\ frame[Root].at # "idle"
  /\ faults' = faults + 1
  /\ frame' = [n \in Nodes |-> Idle]
  /\ pending' = TRUE
  /\ UNCHANGED <<argoVars, owner, gen, count, objects>>
-----------------------------------------------------------------------------
(***************************************************************************)
(* Calling and returning. A concurrent group keeps the first error.        *)
(***************************************************************************)
Goto(n, at) == [frame EXCEPT ![n].at = at]

\* Mutant of Returned: the group reports the last member's result.
ReturnedLast(n, result) ==
  [m \in Nodes |->
     IF m = n THEN [frame[n] EXCEPT !.at = "done", !.result = result, !.base = None]
     ELSE IF m \in Range(Children[n]) THEN Idle
     ELSE IF m \in Parents(n) /\ Kind[m] = "concurrent"
     THEN [frame[m] EXCEPT !.result = result]
     ELSE frame[m]]

Returned(n, result) ==
  [m \in Nodes |->
     IF m = n THEN [frame[n] EXCEPT !.at = "done", !.result = result, !.base = None]
     ELSE IF m \in Range(Children[n]) THEN Idle
     ELSE IF m \in Parents(n) /\ Kind[m] = "concurrent" /\ frame[m].result = "nil"
     THEN [frame[m] EXCEPT !.result = result]
     ELSE frame[m]]

Return(n, result) == frame' = Returned(n, result)

Active(n, op, at) == frame[n].op = op /\ frame[n].at = at

Quiet == UNCHANGED <<owner, pending, gen>>

\* The call in hand fails.
Fail(n, result) ==
  /\ faults < MaxFaults
  /\ faults' = faults + 1
  /\ Return(n, result)

(***************************************************************************)
(* serial, concurrent and conditional.                                     *)
(***************************************************************************)
Reverse(s) == [i \in 1..Len(s) |-> s[(Len(s) - i) + 1]]

\* Mutant of Order: teardown follows the order of creation.
OrderForward(n) == Children[n]

Order(n) == IF frame[n].op = "deprovision" THEN Reverse(Children[n]) ELSE Children[n]

Serial(n) ==
  /\ Kind[n] = "serial"
  /\ frame[n].at = "start"
  /\ LET members == Order(n)
         failed  == {i \in DOMAIN members : frame[members[i]].result # "nil"}
         left    == {i \in DOMAIN members : frame[members[i]].at # "done"}
     IN  \/ \E i \in failed : frame[members[i]].at = "done" /\ Return(n, frame[members[i]].result)
         \/ failed = {} /\ left = {} /\ Return(n, "nil")
         \/ /\ failed = {}
            /\ \E i \in left :
                 /\ \A j \in left : i <= j
                 /\ frame[members[i]].at = "idle"
                 /\ frame' = [frame EXCEPT ![members[i]] = Call(frame[n].op, frame[n].background)]
  /\ Quiet /\ UNCHANGED <<argoVars, count, objects, faults>>

Concurrent(n) ==
  /\ Kind[n] = "concurrent"
  /\ \/ /\ frame[n].at = "start"
        /\ frame' = [m \in Nodes |->
             IF m = n THEN [frame[n] EXCEPT !.at = "wait"]
             ELSE IF m \in Range(Children[n]) THEN Call(frame[n].op, frame[n].background)
             ELSE frame[m]]
     \/ /\ frame[n].at = "wait"
        /\ \A m \in Range(Children[n]) : frame[m].at = "done"
        /\ Return(n, frame[n].result)
  /\ Quiet /\ UNCHANGED <<argoVars, count, objects, faults>>

Wanted(n) == IF frame[n].op = "provision" /\ gen \in Condition[n] THEN "provision" ELSE "deprovision"

Conditional(n) ==
  /\ Kind[n] = "conditional"
  /\ LET child == Children[n][1]
     IN  \/ /\ frame[n].at = "start"
            /\ frame' = [frame EXCEPT ![n].at = "wait", ![child] = Call(Wanted(n), frame[n].background)]
         \/ /\ frame[n].at = "wait"
            /\ frame[child].at = "done"
            /\ Return(n, frame[child].result)
  /\ Quiet /\ UNCHANGED <<argoVars, count, objects, faults>>
-----------------------------------------------------------------------------
(***************************************************************************)
(* remotecluster. Its critical sections make one write each and are one    *)
(* step. The remote's kubeconfig is there while the cluster runs.          *)
(***************************************************************************)
refCount == Cardinality(Remotes)

ProvisionRemote(n) ==
  /\ Active(n, "provision", "start")
  /\ count' = count + 1
  /\ \/ /\ Controller /\ count + 1 = 1
        /\ \/ ~ClusterUp /\ Return(n, "yield") /\ UNCHANGED <<argoVars, faults>>
           \/ Fail(n, "error") /\ UNCHANGED argoVars
           \/ Fail(n, "yield") /\ ((ClusterUp /\ Register) \/ UNCHANGED argoVars)
           \/ ClusterUp /\ Register /\ frame' = Goto(n, "client") /\ UNCHANGED faults
     \/ /\ ~(Controller /\ count + 1 = 1)
        /\ frame' = Goto(n, "client") /\ UNCHANGED <<argoVars, faults>>
  /\ Quiet /\ UNCHANGED objects

Enter(n, background) ==
  frame' = [frame EXCEPT ![n].at = "wait", ![Children[n][1]] = Call(frame[n].op, background)]

ProvisionOnRemote(n) ==
  /\ LET child == frame[Children[n][1]]
     IN  \/ /\ Active(n, "provision", "client")
            /\ \/ ~ClusterUp /\ Return(n, "yield") /\ UNCHANGED faults
               \/ Fail(n, "error")
               \/ ClusterUp /\ Enter(n, frame[n].background) /\ UNCHANGED faults
         \/ /\ Active(n, "provision", "wait") /\ child.at = "done"
            /\ Return(n, child.result) /\ UNCHANGED faults
  /\ Quiet /\ UNCHANGED <<argoVars, count, objects>>

DeprovisionOnRemote(n) ==
  /\ LET child == frame[Children[n][1]]
     IN  \/ /\ Active(n, "deprovision", "start")
            /\ \/ ~ClusterUp /\ frame' = Goto(n, "release") /\ UNCHANGED faults
               \/ Fail(n, "error")
               \/ ClusterUp /\ Enter(n, frame[n].background \/ n \in Background) /\ UNCHANGED faults
         \/ /\ Active(n, "deprovision", "wait") /\ child.at = "done"
            /\ IF child.result = "nil" THEN frame' = Goto(n, "release") ELSE Return(n, child.result)
            /\ UNCHANGED faults
  /\ Quiet /\ UNCHANGED <<argoVars, count, objects>>

DeprovisionRemote(n) ==
  /\ Active(n, "deprovision", "release")
  /\ count' = count + 1
  /\ \/ /\ Controller /\ count + 1 = refCount
        /\ \/ Fail(n, "error") /\ (Unregister \/ UNCHANGED argoVars)
           \/ Unregister /\ Return(n, "nil") /\ UNCHANGED faults
     \/ /\ ~(Controller /\ count + 1 = refCount)
        /\ Return(n, "nil") /\ UNCHANGED <<argoVars, faults>>
  /\ Quiet /\ UNCHANGED objects

RemoteStep(n) ==
  /\ Kind[n] = "remote"
  /\ ProvisionRemote(n) \/ ProvisionOnRemote(n) \/ DeprovisionOnRemote(n) \/ DeprovisionRemote(n)
-----------------------------------------------------------------------------
(***************************************************************************)
(* application. Lookup is everything up to the driver's list: the version, *)
(* the identity, the generator, the hook before a deprovision.             *)
(***************************************************************************)
Base(o) == [spec |-> o.spec, automated |-> o.automated, finalizer |-> o.finalizer]

Await(n) == IF frame[n].background THEN "nil" ELSE "yield"

Lookup(n) ==
  /\ frame[n].at = "start"
  /\ \/ Fail(n, "error")
     \/ /\ UNCHANGED faults
        /\ LET found == GetHelmApplication(n)
           IN  \/ /\ Required(n, gen) = {} \/ found.error = "Mismatch"
                  /\ Return(n, "error")
               \/ /\ Required(n, gen) # {} /\ found.error = "NotFound"
                  /\ IF frame[n].op = "provision" THEN frame' = Goto(n, "create") ELSE Return(n, "nil")
               \/ /\ Required(n, gen) # {} /\ found.error = "nil"
                  /\ IF frame[n].op = "deprovision" /\ found.object.deleting THEN Return(n, Await(n))
                     ELSE frame' = [frame EXCEPT ![n].at = "patch", ![n].base = Base(found.object)]
  /\ Quiet /\ UNCHANGED <<argoVars, count, objects>>

Create(n) ==
  /\ frame[n].at = "create"
  /\ \E spec \in Required(n, gen) :
       \/ CreateApplication(n, spec) /\ Return(n, Judge(n, NoStatus)) /\ UNCHANGED faults
       \/ Fail(n, "error") /\ (CreateApplication(n, spec) \/ UNCHANGED argoVars)
  /\ Quiet /\ UNCHANGED <<count, objects>>

\* The status in the reply is what is judged; then the hook runs, if any.
Update(n) ==
  /\ Active(n, "provision", "patch")
  /\ \/ apps[n] = <<>> /\ Return(n, "error") /\ UNCHANGED <<argoVars, faults>>
     \/ /\ apps[n] # <<>>
        /\ \E spec \in Required(n, gen) :
             LET write == PatchApplication(n, frame[n].base, [frame[n].base EXCEPT !.spec = spec, !.automated = TRUE])
             IN  \/ write /\ Return(n, Judge(n, apps[n][1].status)) /\ UNCHANGED faults
                 \/ Fail(n, "error") /\ (write \/ UNCHANGED argoVars)
  /\ Quiet /\ UNCHANGED <<count, objects>>

Finalize(n) ==
  /\ Active(n, "deprovision", "patch")
  /\ \/ apps[n] = <<>> /\ Return(n, "error") /\ UNCHANGED <<argoVars, faults>>
     \/ /\ apps[n] # <<>>
        /\ LET write == PatchApplication(n, frame[n].base, [frame[n].base EXCEPT !.automated = FALSE, !.finalizer = TRUE])
           IN  \/ write /\ frame' = Goto(n, "delete") /\ UNCHANGED faults
               \/ Fail(n, "error") /\ (write \/ UNCHANGED argoVars)
  /\ Quiet /\ UNCHANGED <<count, objects>>

Discard(n) ==
  /\ frame[n].at = "delete"
  /\ \/ apps[n] = <<>> /\ Return(n, "error") /\ UNCHANGED <<argoVars, faults>>
     \/ /\ apps[n] # <<>>
        /\ \/ DeleteApplication(n) /\ Return(n, Await(n)) /\ UNCHANGED faults
           \/ Fail(n, "error") /\ (DeleteApplication(n) \/ UNCHANGED argoVars)
  /\ Quiet /\ UNCHANGED <<count, objects>>

ApplicationStep(n) ==
  /\ Kind[n] = "application"
  /\ Lookup(n) \/ Create(n) \/ Update(n) \/ Finalize(n) \/ Discard(n)

(***************************************************************************)
(* resource. An object that is there is left as it is, being deleted or    *)
(* not; the API server (external) removes it in its own time.              *)
(***************************************************************************)
ResourceStep(n) ==
  /\ Kind[n] = "resource"
  /\ frame[n].at = "start"
  /\ \/ Fail(n, "error") /\ UNCHANGED objects
     \/ /\ UNCHANGED faults
        /\ IF frame[n].op = "provision"
           THEN /\ objects' = [objects EXCEPT ![n] = IF @ = "absent" THEN "live" ELSE @]
                /\ Return(n, "nil")
           ELSE /\ objects' = [objects EXCEPT ![n] = IF @ = "absent" THEN @ ELSE "deleting"]
                /\ Return(n, IF objects[n] = "absent" THEN "nil" ELSE "yield")
  /\ Quiet /\ UNCHANGED <<argoVars, count>>

Collect(n) ==
  /\ objects[n] = "deleting"
  /\ objects' = [objects EXCEPT ![n] = "absent"]
  /\ UNCHANGED <<argoVars, owner, pending, gen, frame, count, faults>>
-----------------------------------------------------------------------------
Step(n) == Serial(n) \/ Concurrent(n) \/ Conditional(n) \/ RemoteStep(n) \/ ApplicationStep(n) \/ ResourceStep(n)

Argo(a) == ArgoStep(a) /\ UNCHANGED treeVars

Pass == PassStart \/ PassEnd \/ \E n \in Nodes : Step(n)

External == (\E a \in Apps : Argo(a)) \/ \E n \in Resources : Collect(n)

Next == Edit \/ Delete \/ Crash \/ Pass \/ External

Spec == Init /\ [][Next]_vars

\* With an informer behind the driver's list (Lag).
LagSpec == Init /\ [][Next \/ \E a \in Apps : Deliver(a) /\ UNCHANGED treeVars]_vars

(***************************************************************************)
(* The work queue serves what is pending and a pass that started goes on;  *)
(* Argo CD and the API server get on with their work. Nobody has to edit   *)
(* or delete.                                                              *)
(***************************************************************************)
FairSpec == Spec /\ WF_vars(Pass) /\ WF_vars(External)
-----------------------------------------------------------------------------
\* The applications nobody waits for.
Discarded == UNION {Under[n] : n \in Background}

\* The generations in which every condition above a node holds.
NeededIn ==
  [m \in Nodes |-> {g \in 1..MaxGen :
     \A n \in Nodes : Kind[n] = "conditional" /\ m \in Under[n] => g \in Condition[n]}]

Absent ==
  /\ ~secret
  /\ \A n \in Resources : objects[n] = "absent"
  /\ \A a \in Apps : workload[a] = None /\ \A i \in DOMAIN apps[a] : apps[a][i].deleting

Present(g) ==
  /\ Remotes # {} => secret
  /\ \A n \in Resources : objects[n] # "absent" <=> g \in NeededIn[n]
  /\ \A a \in Apps : IF g \in NeededIn[a] THEN workload[a] # None ELSE apps[a] = <<>> /\ workload[a] = None

Contract == INSTANCE ProvisionerContract WITH
  world    <- IF Absent THEN "none" ELSE IF Present(gen) THEN "all" ELSE "some",
  call     <- IF frame[Root].at = "idle" THEN "none" ELSE frame[Root].op,
  deleting <- owner.deleting,
  released <- owner.gone

(***************************************************************************)
(* The tree keeps the contract: whatever the order its goroutines run in,  *)
(* whichever calls fail and wherever it is cut short, Provision says nil   *)
(* only when everything is deployed and the unwanted is gone, Deprovision  *)
(* only when nothing is left.                                              *)
(***************************************************************************)
ImplementsContract == Contract!Spec

TypeOK ==
  /\ Lag \/ \A a \in Apps : Len(apps[a]) <= 1
  /\ secret \in BOOLEAN
  /\ owner \in [gen : 1..MaxGen, deleting : BOOLEAN, gone : BOOLEAN]
  /\ gen \in 1..owner.gen
  /\ pending \in BOOLEAN
  /\ \A n \in Nodes : frame[n].op \in {"none", "provision", "deprovision"}
                   /\ frame[n].result \in {"nil", "yield", "error"}
  /\ count \in 0..refCount
  /\ objects \in [Resources -> {"absent", "live", "deleting"}]
  /\ faults \in 0..MaxFaults

\* Pairs of nodes under members of a serial group, in that order.
InOrder ==
  {p \in Nodes \X Nodes : \E n \in Nodes : \E i, j \in DOMAIN Children[n] :
     /\ Kind[n] = "serial" /\ i < j
     /\ p[1] \in Under[Children[n][i]] /\ p[2] \in Under[Children[n][j]]}

(***************************************************************************)
(* serial: nothing is created before all that comes earlier is deployed    *)
(* and has been found in some health, or is gone if it is not wanted.      *)
(***************************************************************************)
CreatedInOrder ==
  [][\A b \in Apps : apps[b] = <<>> /\ apps'[b] # <<>> =>
       \A a \in Apps : <<a, b>> \in InOrder =>
         IF gen \in NeededIn[a]
         THEN apps[a] # <<>> /\ apps[a][1].status.health # None /\ workload[a] # None
         ELSE apps[a] = <<>> \/ a \in Discarded]_vars

(***************************************************************************)
(* serial and remotecluster: teardown runs the other way. While an         *)
(* application that is waited for exists, nothing before it is deleted,    *)
(* and while one is on the remote cluster, that stays registered. Before   *)
(* teardown only what the generation does not want is deleted.             *)
(***************************************************************************)
Kept(n) == IF n \in Apps THEN apps[n] # <<>> /\ ~apps[n][1].deleting ELSE objects[n] = "live"

TornDownInReverse ==
  [][/\ \A n \in Apps \cup Resources : Kept(n) /\ ~Kept(n)' =>
          IF frame[Root].op = "deprovision"
          THEN \A b \in Apps \ Discarded : <<n, b>> \in InOrder => apps[b] = <<>>
          ELSE gen \notin NeededIn[n]
     /\ secret /\ ~secret' => \A b \in Remote \ Discarded : apps[b] = <<>>]_vars

(***************************************************************************)
(* interfaces.go: Provision is idempotent. Once an application has the     *)
(* package of the current generation, passes do not write another.         *)
(***************************************************************************)
Idempotent ==
  [][\A a \in Apps : /\ apps[a] # <<>> /\ apps'[a] # <<>>
                     /\ gen = owner.gen
                     /\ apps[a][1].spec \in Required(a, gen)
       => apps'[a][1].spec = apps[a][1].spec]_vars

(***************************************************************************)
(* ListHelmApplications: what is listed of the applications names the      *)
(* version, or for a git repository the branch, that some generation asked *)
(* for, and the identity it gives finds the application again.             *)
(***************************************************************************)
ListedIDs == [a \in Apps |-> ConvertApplicationIDs(ApplicationLabels(ID(a)))]

ListedAsRequested ==
  \A a \in Apps : \A i \in DOMAIN apps[a] :
    /\ \E g \in 1..owner.gen :
         LET template == GetVersion(Versions[a], WantedVersion[a][g])
             listing  == ConvertApplication(apps[a][i].spec)
         IN  /\ listing.version = IF template.branch = None THEN template.version ELSE None
             /\ listing.branch = template.branch
    /\ \A id \in ListedIDs[a] : ApplicationLabels(id) = ApplicationLabels(ID(a))

(***************************************************************************)
(* interfaces.go: "Deprovisioners should be gating, waiting for their      *)
(* resources to be removed before indicating success." When the owner is   *)
(* released nothing is left.                                               *)
(***************************************************************************)
Gating == owner.gone => Absent

(***************************************************************************)
(* Whatever failed on the way, the last generation is deployed in the end  *)
(* (every application that is needed runs its package, no other is left),  *)
(* and a deleted owner is let go.                                          *)
(***************************************************************************)
Deployed(g) ==
  \A a \in Apps : IF g \in NeededIn[a] THEN workload[a] \in Required(a, g)
                                      ELSE apps[a] = <<>> /\ workload[a] = None

Settles ==
  owner.deleting \/ owner.gen = MaxGen ~>
    IF owner.deleting THEN owner.gone ELSE Deployed(MaxGen) /\ frame[Root].at = "idle" /\ ~pending
=============================================================================

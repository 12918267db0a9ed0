------------------------------- MODULE ArgoCD -------------------------------
(***************************************************************************)
(* The Argo CD driver of pkg/cd/argocd/driver.go: its calls on the         *)
(* applications and on the cluster secret, one operator per API call, and  *)
(* the external actors behind them: Argo CD's controller, the API server   *)
(* and the informer that feeds the cache the driver lists from.            *)
(***************************************************************************)
EXTENDS HelmApplication

CONSTANTS
  Apps,            \* the applications of one managed resource
  Remote,          \* those installed on the remote cluster
  ClusterApp,      \* the application that creates the remote cluster
  MaxGen,          \* bound: generations of the managed resource
  Versions,        \* app -> versions of its HelmApplication
  WantedVersion,   \* app -> generation -> the version asked for
  Generator,       \* app -> its customizations
  ResourceLabels,  \* labels of the managed resource
  LabelOrder,      \* their keys, sorted
  AllowDegraded,   \* applications that count as provisioned when degraded
  Lag              \* the cache may be behind the API server

\* A resource has one value of a label, and none of the application label.
ASSUME LabelAssumption ==
  /\ LabelOrder \in Seq({l.name : l \in ResourceLabels})
  /\ Range(LabelOrder) = {l.name : l \in ResourceLabels}
  /\ \A k, l \in ResourceLabels : k.name = l.name => k = l
  /\ \A l \in ResourceLabels : l.name # ApplicationLabel

\* HelmApplicationVersion is a chart's or, with a path, a branch's, by the
\* validation of its type.
ASSUME VersionAssumption ==
  \A a \in Apps : Versions[a] \in Seq(Range(Versions[a])) /\ \A i \in DOMAIN Versions[a] :
    LET v == Versions[a][i]
    IN  IF v.branch = None THEN v.chart # None /\ v.path = None ELSE v.chart = None /\ v.path # None

VARIABLES
  apps,      \* app -> its Argo CD objects in the API server, oldest first
  listed,    \* app -> the objects the cache holds; used when Lag only
  secret,    \* the cluster secret exists: the remote is registered
  workload   \* app -> the specification that is deployed, or None

argoVars == <<apps, listed, secret, workload>>

ID(a)     == ResourceID(a, ResourceLabels, LabelOrder)
RemoteID  == ResourceID("remote", ResourceLabels, LabelOrder)

\* The Argo CD application of a at a generation; none if its version is
\* unknown, several if a map's order shows in it.
RequiredOf ==
  [a \in Apps |-> [g \in 1..MaxGen |->
     LET template == GetVersion(Versions[a], WantedVersion[a][g])
     IN  IF template = None THEN {}
         ELSE {GenerateApplication(p) :
                 p \in Packages(template, Generator[a], IF a \in Remote THEN RemoteID ELSE None,
                                None, a \in AllowDegraded)}]]

Required(a, gen) == RequiredOf[a][gen]

\* None is no status and no specification.
ASSUME NoneAssumption ==
  /\ None \notin {"Synced", "OutOfSync", "Degraded", "Healthy"}
  /\ \A a \in Apps : \A g \in 1..MaxGen : None \notin Required(a, g)

NoStatus == [sync |-> None, health |-> None]

ArgoInit ==
  /\ apps     = [a \in Apps |-> <<>>]
  /\ listed   = [a \in Apps |-> <<>>]
  /\ secret   = FALSE
  /\ workload = [a \in Apps |-> None]
-----------------------------------------------------------------------------
(***************************************************************************)
(* The driver.                                                             *)
(***************************************************************************)
Cached(a) == IF Lag THEN listed[a] ELSE apps[a]

SelectedBy ==
  [a \in Apps |-> {b \in Apps : Selects(ApplicationLabels(ID(a)), ApplicationLabels(ID(b)))}]

\* The items of the list: the place of each among the objects.
Selected(a) == UNION {{b} \X DOMAIN Cached(b) : b \in SelectedBy[a]}

Outcome(found) ==
  IF found = {} THEN [error |-> "NotFound", object |-> None]
  ELSE LET item == CHOOSE p \in found : TRUE
       IN  IF found = {item} THEN [error |-> "nil", object |-> Cached(item[1])[item[2]]]
           ELSE [error |-> "Mismatch", object |-> None]

GetHelmApplication(a) == Outcome(Selected(a))

\* Mutant of Judge: a synchronized application needs no health.
JudgeSync(a, status) == IF status.sync = "Synced" THEN "nil" ELSE "yield"

Judge(a, status) ==
  IF /\ status.sync = "Synced"
     /\ \/ status.health = "Degraded" /\ a \in AllowDegraded
        \/ status.health = "Healthy"
  THEN "nil" ELSE "yield"

\* GenerateName: a create never collides with an earlier one.
CreateApplication(a, spec) ==
  /\ apps' = [apps EXCEPT ![a] = Append(@, [spec |-> spec, automated |-> TRUE, finalizer |-> FALSE,
                                            deleting |-> FALSE, status |-> NoStatus])]
  /\ UNCHANGED <<listed, secret, workload>>

\* A merge patch sends what differs from the cached copy it was made of.
Merge(object, base, new) ==
  [object EXCEPT !.spec      = IF base.spec = new.spec THEN @ ELSE new.spec,
                 !.automated = IF base.automated = new.automated THEN @ ELSE new.automated,
                 !.finalizer = IF base.finalizer = new.finalizer THEN @ ELSE new.finalizer]

PatchApplication(a, base, new) ==
  /\ apps' = [apps EXCEPT ![a][1] = Merge(@, base, new)]
  /\ UNCHANGED <<listed, secret, workload>>

\* An object without a finalizer goes at once, and leaves its workload.
DeleteApplication(a) ==
  /\ apps' = [apps EXCEPT ![a] = IF @[1].finalizer THEN <<[@[1] EXCEPT !.deleting = TRUE]>> \o Tail(@)
                                                    ELSE Tail(@)]
  /\ UNCHANGED <<listed, secret, workload>>

\* CreateOrUpdateCluster once the API of the cluster answers; DeleteCluster.
Register ==
  /\ secret' = TRUE
  /\ UNCHANGED <<apps, listed, workload>>

Unregister ==
  /\ secret' = FALSE
  /\ UNCHANGED <<apps, listed, workload>>
-----------------------------------------------------------------------------
(***************************************************************************)
(* Argo CD (external). It deploys what is automated and reachable, reports *)
(* how it went, and on deletion removes the workload if it can reach it.   *)
(***************************************************************************)
ClusterUp    == workload[ClusterApp] # None
Reachable(a) == a \in Remote => secret /\ ClusterUp

Report(a, i, status) == apps' = [apps EXCEPT ![a][i].status = status]

ArgoCompare(a, i) ==
  /\ ~apps[a][i].deleting
  /\ apps[a][i].status.sync = "Synced"
  /\ workload[a] # apps[a][i].spec
  /\ Report(a, i, [apps[a][i].status EXCEPT !.sync = "OutOfSync"])
  /\ UNCHANGED <<listed, secret, workload>>

ArgoSync(a, i, health) ==
  /\ ~apps[a][i].deleting
  /\ apps[a][i].automated
  /\ Reachable(a)
  /\ apps[a][i].status.sync # "Synced"
  /\ workload' = [workload EXCEPT ![a] = apps[a][i].spec]
  /\ Report(a, i, [sync |-> "Synced", health |-> health])
  /\ UNCHANGED <<listed, secret>>

ArgoHeal(a, i) ==
  /\ apps[a][i].status.sync = "Synced"
  /\ apps[a][i].status.health # "Healthy"
  /\ Report(a, i, [apps[a][i].status EXCEPT !.health = "Healthy"])
  /\ UNCHANGED <<listed, secret, workload>>

RemoveAt(s, i) == SubSeq(s, 1, i - 1) \o SubSeq(s, i + 1, Len(s))

\* With the cluster go the workloads on it.
ArgoReap(a, i) ==
  /\ apps[a][i].deleting
  /\ apps' = [apps EXCEPT ![a] = RemoveAt(@, i)]
  /\ workload' = IF Reachable(a)
                 THEN [b \in Apps |-> IF b = a \/ (a = ClusterApp /\ b \in Remote) THEN None ELSE workload[b]]
                 ELSE workload
  /\ UNCHANGED <<listed, secret>>

\* The informer delivers what the API server holds.
Deliver(a) ==
  /\ listed[a] # apps[a]
  /\ listed' = [listed EXCEPT ![a] = apps[a]]
  /\ UNCHANGED <<apps, secret, workload>>

\* Of an application that must be healthy, None stands for any other health.
ArgoStep(a) ==
  \E i \in DOMAIN apps[a] :
    \/ ArgoCompare(a, i) \/ ArgoHeal(a, i) \/ ArgoReap(a, i)
    \/ \E health \in {apps[a][i].status.health, IF a \in AllowDegraded THEN "Degraded" ELSE "Healthy"} :
         ArgoSync(a, i, health)
=============================================================================

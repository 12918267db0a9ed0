-------------------------- MODULE LifecycleProofs ---------------------------
(***************************************************************************)
(* Trees of provisioners from setup to teardown: the order in which things *)
(* are created, and the order in which they are deleted.                   *)
(***************************************************************************)
EXTENDS ProvisionersProofs

(***************************************************************************)
(* Teardown in reverse. The cluster is unregistered by the last remote to  *)
(* be torn down, and that it is the last is known from the count alone: in *)
(* a teardown every remote that has been counted is over and empty.        *)
(***************************************************************************)
TornRemotes == {m \in Remotes : Over(m) /\ Removed(m)}

TornCount == frame[Root].op = "deprovision" => count <= Cardinality(TornRemotes)

ReverseInv == BaseInv /\ PassInv /\ TornInv /\ ClusterInv /\ CountInv /\ TornCount

\* A remote that counts itself in a teardown is empty, and is over with that.
LEMMA TornCounts ==
  ASSUME ~Lag, BaseInv, TornInv, [Next]_vars, frame[Root].op = "deprovision",
         NEW n \in Remotes, Step(n), Counts(n)
  PROVE  n \notin TornRemotes /\ n \in TornRemotes'
<1> USE DEF BaseInv
<1>1. n \in Nodes /\ n \in Under[Root] /\ Root \in Nodes
      BY Zenon, TreeAssumption DEF Remotes
<1>2. Running(n) /\ frame'[n].op = frame[n].op
      BY Zenon, <1>1, StepMoves, OwnCall
<1>3. frame[n].op = "deprovision"
      BY Zenon, <1>1, <1>2, TearsDown DEF Running
<1>4. Removed(n)
      BY Zenon, <1>1, <1>3 DEF Counts, Active, TornInv, Torn
<1>5. Removed(n)'
      BY Zenon, <1>1, <1>4, RemovedOn
<1>6. n \notin Counted /\ n \in Counted'
      BY Zenon, CountsOnce
<1>7. Over(n)'
      BY Zenon, <1>2, <1>3, <1>6 DEF Counted
<1>8. n \notin TornRemotes
      BY Zenon, <1>1, <1>2, RunningNotOver DEF TornRemotes
<1>9. QED
      BY Zenon, <1>5, <1>7, <1>8 DEF TornRemotes, Remotes

\* In a teardown a remote that is over and empty stays so.
LEMMA TornRemotesStay ==
  ASSUME ~Lag, BaseInv, [Next]_vars, frame[Root].op = "deprovision", frame'[Root].op = "deprovision", ~PassStart
  PROVE  TornRemotes \subseteq TornRemotes'
<1> USE DEF BaseInv
<1> SUFFICES ASSUME NEW m \in Remotes, Over(m), Removed(m) PROVE Over(m)' /\ Removed(m)'
    BY Zenon DEF TornRemotes, Remotes
<1>1. m \in Nodes /\ Root \in Nodes
      BY Zenon, TreeAssumption DEF Remotes
<1>2. Removed(m)'
      BY Zenon, <1>1, RemovedOn
<1>3. ASSUME NEW n \in Nodes, Step(n) PROVE Over(m)'
      BY Zenon, <1>1, <1>3, OverStays
<1>4. ~Crash /\ ~PassEnd
  <2>1. Crash \/ PassEnd => frame'[Root] = Idle
        BY Zenon, <1>1 DEF Crash, PassEnd, FrameType
  <2>2. QED
        BY Zenon, <2>1, IdleFields
<1>5. CASE frame' = frame
      BY Zenon, <1>2, <1>5 DEF Over
<1>6. Edit \/ Delete \/ External \/ UNCHANGED vars => frame' = frame
      BY Zenon DEF Edit, Delete, External, Argo, Collect, treeVars, vars
<1>7. QED
      BY Zenon, <1>2, <1>3, <1>4, <1>5, <1>6 DEF Next, Pass

\* TornCount is kept.
LEMMA TornCountStep ==
  ASSUME ~Lag, BaseInv, TornInv, CountInv, TornCount, [Next]_vars
  PROVE  TornCount'
<1> SUFFICES ASSUME frame'[Root].op = "deprovision" PROVE count' <= Cardinality(TornRemotes')
    BY Zenon DEF TornCount
<1>1. TornRemotes \in SUBSET Remotes /\ TornRemotes' \in SUBSET Remotes
      BY Zenon DEF TornRemotes, Remotes
<1>2. /\ IsFiniteSet(TornRemotes') /\ Cardinality(TornRemotes) \in Nat /\ Cardinality(TornRemotes') \in Nat
      /\ count \in Nat
      BY Zenon, <1>1, RemotesFinite DEF CountInv, CountType
<1>3. CASE PassStart
      BY <1>2, <1>3 DEF PassStart
<1>4. CASE ~PassStart
  <2>1. frame[Root].op = "deprovision"
        BY Zenon, <1>4, RootGoesOn
  <2>2. count <= Cardinality(TornRemotes) /\ TornRemotes \subseteq TornRemotes'
        BY Zenon, <1>4, <2>1, TornRemotesStay DEF TornCount
  <2>3. CASE count' = count
    <3>1. Cardinality(TornRemotes) <= Cardinality(TornRemotes')
          BY Zenon, <1>2, <2>2, FS_Subset
    <3>2. QED
          BY ONLY SMTT(30), <1>2, <2>2, <2>3, <3>1
  <2>4. ASSUME NEW n \in Remotes, Step(n), Counts(n) PROVE count' <= Cardinality(TornRemotes')
    <3>1. n \notin TornRemotes /\ n \in TornRemotes'
          BY Zenon, <2>1, <2>4, TornCounts
    <3>2. Cardinality(TornRemotes) + 1 <= Cardinality(TornRemotes')
          BY Zenon, <1>1, <2>2, <3>1, OneMore
    <3>3. count' = count + 1
          BY Zenon, <2>4 DEF Counts
    <3>4. QED
          BY ONLY SMTT(30), <1>2, <2>2, <3>2, <3>3
  <2>5. QED
        BY Zenon, <1>4, <2>3, <2>4, CountMoves DEF BaseInv
<1>5. QED
      BY Zenon, <1>3, <1>4

\* ReverseInv holds at the start.
LEMMA ReverseInit ==
  ASSUME Init, ClusterFirst
  PROVE  PassInv /\ TornInv /\ ClusterInv /\ TornCount
<1>1. Root \in Nodes /\ ClusterApp \in Apps /\ Remotes \subseteq Nodes
      BY Zenon, TreeAssumption DEF ClusterFirst, Remotes
<1>2. \A n \in Nodes : frame[n].op = "none" /\ frame[n].at = "idle" /\ frame[n].background = FALSE
      BY Zenon, IdleFields DEF Init, Idle
<1>3. \A a \in Apps : apps[a] = <<>>
      BY Zenon DEF Init, ArgoInit
<1>4. \A n \in Nodes : Removed(n)
      BY Zenon, <1>3 DEF Removed
<1>5. PassInv /\ TornInv
      BY Zenon, <1>1, <1>2 DEF PassInv, TornInv, Torn
<1>6. ClusterInv
      BY Zenon, <1>1, <1>2, <1>3, <1>4 DEF ClusterInv
<1>7. QED
      BY Zenon, <1>1, <1>2, <1>5, <1>6 DEF TornCount

\* ReverseInv holds of every behaviour.
LEMMA ReverseHolds ==
  ASSUME ~Lag, ClusterFirst
  PROVE  Spec => []ReverseInv
<1>1. Init => PassInv /\ TornInv /\ ClusterInv /\ TornCount
      BY Zenon, ReverseInit
<1>2. BaseInv /\ PassInv /\ TornInv /\ ClusterInv /\ CountInv /\ TornCount /\ [Next]_vars
      => PassInv' /\ TornInv' /\ ClusterInv' /\ TornCount'
      BY Zenon, PassInvStep, TornInvStep, ClusterInvStep, TornCountStep
<1>3. QED
      BY <1>1, <1>2, BaseHolds, CountHolds, PTL DEF Spec, ReverseInv

\* What is kept is let go of by a call of Deprovision.
LEMMA Unkept ==
  ASSUME ~Lag, BaseInv, CountType, [Next]_vars, NEW n \in Apps \cup Resources, Kept(n), ~Kept(n)'
  PROVE  n \in Nodes /\ frame[n].at # "idle" /\ frame[n].op = "deprovision"
<1> USE DEF BaseInv
<1>1. n \in Nodes /\ FrameOK(n)
      BY Zenon, TreeAssumption DEF Resources, TreeInv
<1>2. CASE n \in Apps
  <2>1. apps[n] # <<>> /\ ~apps[n][1].deleting /\ (apps'[n] = <<>> \/ apps'[n][1].deleting)
        BY Zenon, <1>2 DEF Kept
  <2>2. CASE apps'[n] # <<>>
        BY Zenon, <1>1, <1>2, <2>1, <2>2, Marked
  <2>3. CASE apps'[n] = <<>>
    <3>1. ASSUME NEW s, Put(n, s) PROVE apps'[n] = s
          BY Zenon, <1>2, <3>1 DEF Put, ArgoType
    <3>2. \A o : <<o>> # <<>>
          BY Zenon
    <3>3. ~Creates(n) /\ ~Patches(n) /\ ~Reports(n) /\ ~Reaps(n)
          BY Zenon, <2>1, <2>3, <3>1, <3>2 DEF Creates, Patches, Reports, Reaps
    <3>4. Deletes(n)
          BY Zenon, <1>2, <2>1, <2>3, <3>3, NextApps, OtherApps
    <3>5. QED
          BY Zenon, <1>1, <3>4 DEF Deletes, FrameOK
  <2>4. QED
        BY Zenon, <2>2, <2>3
<1>3. CASE n \notin Apps
  <2>1. n \in Resources /\ objects[n] = "live" /\ objects'[n] # "live"
        BY Zenon, <1>3 DEF Kept
  <2>2. ASSUME NEW m \in Resources, Collect(m) PROVE FALSE
    <3>1. objects[m] = "deleting" /\ objects' = [objects EXCEPT ![m] = "absent"]
          BY Zenon, <2>2 DEF Collect
    <3>2. QED
          BY Zenon, <2>1, <3>1 DEF CountType
  <2>3. ASSUME NEW m \in Nodes, ResourceStep(m) PROVE m = n /\ frame[n].at = "start" /\ frame[n].op # "provision"
    <3>1. m \in Resources /\ frame[m].at = "start"
          BY Zenon, <2>3 DEF ResourceStep, Resources
    <3>2. \/ objects' = objects
          \/ \E o : objects' = [objects EXCEPT ![m] = o] /\ (frame[m].op = "provision" => objects[m] = "absent" \/ o = objects[m])
          BY Zenon, <2>3 DEF ResourceStep
    <3>3. QED
          BY Zenon, <2>1, <3>1, <3>2 DEF CountType
  <2>4. ASSUME NEW m \in Nodes, Serial(m) \/ Concurrent(m) \/ Conditional(m) \/ RemoteStep(m) \/ ApplicationStep(m)
        PROVE  objects' = objects
        BY Zenon, <2>4 DEF Serial, Concurrent, Conditional, RemoteStep, ApplicationStep, ProvisionRemote, ProvisionOnRemote,
                    DeprovisionOnRemote, DeprovisionRemote, Lookup, Create, Update, Finalize, Discard
  <2>5. Edit \/ Delete \/ Crash \/ PassStart \/ PassEnd \/ (\E a \in Apps : Argo(a)) \/ UNCHANGED vars => objects' = objects
        BY Zenon DEF Edit, Delete, Crash, PassStart, PassEnd, Argo, vars, treeVars
  <2>6. frame[n].at = "start" /\ frame[n].op # "provision"
        BY Zenon, <2>1, <2>2, <2>3, <2>4, <2>5 DEF Next, Pass, External, Step
  <2>7. QED
        BY Zenon, <1>1, <2>6, FrameFields
<1>4. QED
      BY Zenon, <1>2, <1>3

\* The cluster is unregistered by a remote's release that makes the count full.
LEMMA Unregisters ==
  ASSUME [Next]_vars, secret, ~secret'
  PROVE  \E n \in Remotes : DeprovisionRemote(n) /\ Step(n) /\ count + 1 = refCount
<1>1. ASSUME NEW n \in Nodes, RemoteStep(n), ~secret' PROVE n \in Remotes /\ DeprovisionRemote(n) /\ count + 1 = refCount
  <2>1. n \in Remotes
        BY Zenon, <1>1 DEF RemoteStep, Remotes
  <2>2. ~ProvisionRemote(n) /\ ~ProvisionOnRemote(n) /\ ~DeprovisionOnRemote(n)
        BY Zenon, <1>1 DEF ProvisionRemote, ProvisionOnRemote, DeprovisionOnRemote, Register, argoVars
  <2>3. DeprovisionRemote(n)
        BY Zenon, <1>1, <2>2 DEF RemoteStep
  <2>4. QED
        BY Zenon, <1>1, <2>1, <2>3 DEF DeprovisionRemote, argoVars
<1>2. ASSUME NEW n \in Nodes, Serial(n) \/ Concurrent(n) \/ Conditional(n) \/ ResourceStep(n) PROVE secret' = secret
      BY Zenon, <1>2 DEF Serial, Concurrent, Conditional, ResourceStep, argoVars
<1>3. ASSUME NEW n \in Nodes, ApplicationStep(n) PROVE secret' = secret
      BY Zenon, <1>3 DEF ApplicationStep, Lookup, Create, Update, Finalize, Discard, argoVars,
                  CreateApplication, PatchApplication, DeleteApplication
<1>4. ASSUME NEW a \in Apps, Argo(a) PROVE secret' = secret
      BY Zenon, <1>4 DEF Argo, ArgoStep, ArgoCompare, ArgoHeal, ArgoReap, ArgoSync
<1>5. Edit \/ Delete \/ Crash \/ PassStart \/ PassEnd \/ (\E n \in Resources : Collect(n)) \/ UNCHANGED vars => secret' = secret
      BY Zenon DEF Edit, Delete, Crash, PassStart, PassEnd, Collect, vars, argoVars
<1>6. QED
      BY Zenon, <1>1, <1>2, <1>3, <1>4, <1>5 DEF Next, Pass, External, Step

\* The remote that makes the count full is the last: nothing is left on the cluster.
LEMMA LastRemote ==
  ASSUME ~Lag, ClusterFirst, ReverseInv, NEW n \in Remotes, DeprovisionRemote(n), count + 1 = refCount
  PROVE  \A m \in Remotes : Removed(m)
<1> USE DEF ReverseInv, BaseInv
<1>1. n \in Nodes /\ Active(n, "deprovision", "release") /\ gen \in NeededIn[n]
      BY Zenon DEF Remotes, DeprovisionRemote, ClusterFirst, OwnerType
<1>2. frame[Root].op = "deprovision"
      BY Zenon, <1>1, NeededSetsUp DEF Active
<1>3. Removed(n) /\ ~Over(n)
      BY Zenon, <1>1, RunningNotOver DEF Active, TornInv, Torn, Running
<1> DEFINE T == TornRemotes \cup {n}
<1>4. TornRemotes \in SUBSET Remotes /\ T \in SUBSET Remotes /\ TornRemotes \subseteq T /\ n \in T /\ n \notin TornRemotes
      BY Zenon, <1>3 DEF TornRemotes
<1> HIDE DEF T
<1>5. Cardinality(TornRemotes) + 1 <= Cardinality(T)
      BY Zenon, <1>4, OneMore
<1>6. /\ Cardinality(TornRemotes) \in Nat /\ Cardinality(T) \in Nat /\ Cardinality(T) <= refCount /\ refCount \in Nat
      /\ Cardinality(T) = refCount => T = Remotes
      BY Zenon, <1>4, RemotesFinite
<1>7. count <= Cardinality(TornRemotes) /\ count \in Nat
      BY Zenon, <1>2 DEF TornCount, CountInv, CountType
<1>8. Cardinality(T) = refCount
      BY SMTT(30), <1>5, <1>6, <1>7
<1>9. QED
      BY Zenon, <1>3, <1>6, <1>8 DEF T, TornRemotes

\* serial and remotecluster: teardown runs the other way round. Nothing is let
\* go of while an application after it that is waited for exists, the cluster
\* is not unregistered while one is on it, and before teardown only what the
\* generation does not want is let go of. So in every tree in which each
\* remote comes after the cluster's application, if all these are always
\* wanted and the driver's list is not behind, whatever fails or is cut short.
THEOREM TornDownInReverseHolds ==
  ASSUME ~Lag, ClusterFirst
  PROVE  Spec => TornDownInReverse
<1>1. ASSUME ReverseInv, [Next]_vars, NEW n \in Apps \cup Resources, Kept(n), ~Kept(n)'
      PROVE  IF frame[Root].op = "deprovision"
             THEN \A b \in Apps \ Discarded : <<n, b>> \in InOrder => apps[b] = <<>>
             ELSE gen \notin NeededIn[n]
  <2> USE DEF ReverseInv
  <2>1. n \in Nodes /\ frame[n].at # "idle" /\ frame[n].op = "deprovision"
        BY Zenon, <1>1, Unkept DEF CountInv
  <2>2. ASSUME frame[Root].op = "deprovision", NEW b \in Apps \ Discarded, <<n, b>> \in InOrder PROVE apps[b] = <<>>
    <3>1. b \in Nodes
          BY Zenon, TreeAssumption
    <3>2. PICK c \in Nodes : b \in Under[c] /\ Torn(c)
          BY Zenon, <1>1, <2>1, <2>2, <3>1, TornAfter DEF BaseInv
    <3>3. QED
          BY Zenon, <1>1, <3>2 DEF TornInv, Removed
  <2>3. gen \in NeededIn[n] => frame[Root].op = "deprovision"
        BY Zenon, <1>1, <2>1, NeededSetsUp DEF BaseInv
  <2>4. QED
        BY Zenon, <2>2, <2>3
<1>2. ASSUME ReverseInv, [Next]_vars, secret, ~secret' PROVE \A b \in Remote \ Discarded : apps[b] = <<>>
  <2>1. PICK n \in Remotes : DeprovisionRemote(n) /\ count + 1 = refCount
        BY Zenon, <1>2, Unregisters
  <2>2. \A m \in Remotes : Removed(m)
        BY Zenon, <1>2, <2>1, LastRemote
  <2>3. QED
        BY Zenon, <2>2 DEF ClusterFirst, Removed
<1>3. ReverseInv /\ [Next]_vars =>
        [/\ \A n \in Apps \cup Resources : Kept(n) /\ ~Kept(n)' =>
              IF frame[Root].op = "deprovision"
              THEN \A b \in Apps \ Discarded : <<n, b>> \in InOrder => apps[b] = <<>>
              ELSE gen \notin NeededIn[n]
         /\ secret /\ ~secret' => \A b \in Remote \ Discarded : apps[b] = <<>>]_vars
      BY Zenon, <1>1, <1>2
<1>4. QED
      BY <1>3, ReverseHolds, PTL DEF Spec, TornDownInReverse
-----------------------------------------------------------------------------
(***************************************************************************)
(* Setup in order. What a setup that is over has set up stays deployed     *)
(* while the pass goes on: no object of it is being deleted, so nothing    *)
(* takes its workload away. That needs conditions that do not come on      *)
(* again: an object that an earlier generation gave up may still be on its *)
(* way out when a later one wants it back.                                 *)
(***************************************************************************)
OnceOff ==
  \A a \in Apps : \A g, h \in 1..MaxGen : g \notin NeededIn[a] /\ h > g => h \notin NeededIn[a]

Up(a) == apps[a] # <<>> /\ apps[a][1].status.health # None /\ workload[a] # None

AsWanted(a) == IF gen \in NeededIn[a] THEN Up(a) ELSE apps[a] = <<>> \/ a \in Discarded

WasSetUp(n) == frame[n].op = "provision" /\ frame[n].at = "done" /\ frame[n].result = "nil"

Ending == owner.deleting /\ frame[Root].op # "provision"

DeployInv == \A n \in Nodes : WasSetUp(n) => \A a \in Apps \cap Under[n] : AsWanted(a)

DeletingInv ==
  \A a \in Apps : apps[a] # <<>> /\ apps[a][1].deleting => Ending \/ gen \notin NeededIn[a]

WorkInv ==
  \A a \in Apps : apps[a] # <<>> /\ apps[a][1].status.sync # None => workload[a] # None \/ Ending

OrderInv == ReverseInv /\ DeployInv /\ DeletingInv /\ WorkInv

\* The end of a resource does not turn back.
LEMMA EndingStays ==
  ASSUME ~Lag, BaseInv, [Next]_vars, Ending
  PROVE  Ending'
<1>1. owner'.deleting
      BY Zenon, OwnerTypeStep DEF BaseInv, Ending
<1>2. frame'[Root].op # "provision"
      BY Zenon, RootGoesOn DEF Ending
<1>3. QED
      BY Zenon, <1>1, <1>2 DEF Ending

\* DeletingInv is kept.
LEMMA DeletingInvStep ==
  ASSUME ~Lag, OnceOff, BaseInv, PassInv, DeletingInv, [Next]_vars
  PROVE  DeletingInv'
<1> SUFFICES ASSUME NEW a \in Apps, apps'[a] # <<>>, apps'[a][1].deleting
             PROVE  Ending' \/ gen' \notin NeededIn[a]
    BY Zenon DEF DeletingInv
<1> USE DEF BaseInv
<1>1. Ending \/ gen \notin NeededIn[a]
  <2>1. CASE apps[a] # <<>> /\ apps[a][1].deleting
        BY Zenon, <2>1 DEF DeletingInv
  <2>2. CASE a \in Nodes /\ frame[a].op = "deprovision"
        BY Zenon, <2>2, NeededSetsUp DEF PassInv, Ending
  <2>3. QED
        BY Zenon, <2>1, <2>2, Marked
<1>2. gen \in 1..MaxGen /\ gen' \in 1..MaxGen /\ gen' >= gen
      BY Zenon, OwnerTypeStep DEF OwnerType
<1>3. gen \notin NeededIn[a] => gen' \notin NeededIn[a]
  <2>1. gen' = gen \/ gen' > gen
        BY <1>2
  <2>2. QED
        BY Zenon, <1>2, <2>1 DEF OnceOff
<1>4. QED
      BY Zenon, <1>1, <1>3, EndingStays

\* The workload of an application goes when its object is reaped, or the
\* cluster it is on.
LEMMA WorkGoes ==
  ASSUME ~Lag, ClusterFirst, BaseInv, DeletingInv, [Next]_vars, NEW a \in Apps, workload[a] # None, workload'[a] = None
  PROVE  Reaps(a) \/ Ending
<1> USE DEF BaseInv
<1>1. workload' # workload
      BY Zenon
<1>2. PICK x \in Apps : Reports(x) \/ Reaps(x)
      BY Zenon, <1>1, NextApps
<1>3. CASE Reports(x)
  <2>1. PICK o \in Objects : workload' = workload \/ workload' = [workload EXCEPT ![x] = o.spec]
        BY Zenon, <1>3 DEF Reports
  <2>2. o.spec \in Specs
        BY Zenon DEF Objects
  <2>3. None \notin Specs
        BY NoneAssumption DEF Specs
  <2>4. workload \in [Apps -> Specs \cup {None}]
        BY Zenon DEF ArgoType
  <2>5. QED
        BY Zenon, <2>1, <2>2, <2>3, <2>4
<1>4. CASE Reaps(x) /\ x # a
  <2>1. x = ClusterApp
        BY Zenon, <1>4 DEF Reaps
  <2>2. gen \in NeededIn[x]
        BY Zenon, <2>1 DEF ClusterFirst, OwnerType
  <2>3. QED
        BY Zenon, <1>4, <2>2 DEF Reaps, DeletingInv
<1>5. QED
      BY Zenon, <1>2, <1>3, <1>4

\* WorkInv is kept.
LEMMA WorkInvStep ==
  ASSUME ~Lag, ClusterFirst, BaseInv, DeletingInv, WorkInv, [Next]_vars
  PROVE  WorkInv'
<1> SUFFICES ASSUME NEW a \in Apps, apps'[a] # <<>>, apps'[a][1].status.sync # None, ~Ending
             PROVE  workload'[a] # None
    BY Zenon, EndingStays DEF WorkInv
<1> USE DEF BaseInv
<1>0. \A o : <<o>>[1] = o
      BY Zenon
<1>1. ASSUME NEW s, Put(a, s) PROVE apps'[a] = s
      BY Zenon, <1>1 DEF Put, ArgoType
<1>2. ~Reaps(a)
      BY Zenon, <1>1 DEF Reaps
<1>3. CASE apps[a] # <<>> /\ apps[a][1].status.sync # None
      BY Zenon, <1>2, <1>3, WorkGoes DEF WorkInv
<1>4. CASE ~(apps[a] # <<>> /\ apps[a][1].status.sync # None)
  <2>1. apps'[a] # apps[a]
        BY Zenon, <1>4
  <2>2. Creates(a) \/ Patches(a) \/ Deletes(a) \/ Reports(a)
        BY Zenon, <1>2, <2>1, NextApps, OtherApps
  <2>3. ~Creates(a)
    <3>1. \A spec : NewObject(spec).status.sync = None
          BY Zenon DEF NewObject, NoStatus
    <3>2. ASSUME NEW spec, Put(a, <<NewObject(spec)>>) PROVE FALSE
      <4>1. apps'[a] = <<NewObject(spec)>>
            BY Zenon, <1>1, <3>2
      <4>2. apps'[a][1] = NewObject(spec)
            BY Zenon, <1>0, <4>1
      <4>3. QED
            BY Zenon, <3>1, <4>2
    <3>3. QED
          BY Zenon, <3>2 DEF Creates
  <2>4. ~Patches(a) /\ ~Deletes(a)
        BY Zenon, <1>0, <1>1, <1>4 DEF Patches, Deletes
  <2>5. PICK o \in Objects : workload' = [workload EXCEPT ![a] = o.spec]
        BY Zenon, <1>4, <2>2, <2>3, <2>4 DEF Reports
  <2>6. o.spec \in Specs
        BY Zenon DEF Objects
  <2>7. None \notin Specs
        BY NoneAssumption DEF Specs
  <2>8. QED
        BY Zenon, <2>5, <2>6, <2>7 DEF ArgoType
<1>5. QED
      BY Zenon, <1>3, <1>4

\* While the root sets up, what is as wanted stays so.
LEMMA WantedStays ==
  ASSUME ~Lag, ClusterFirst, BaseInv, DeletingInv, [Next]_vars, frame[Root].op = "provision", gen' = gen,
         NEW a \in Apps, AsWanted(a)
  PROVE  AsWanted(a)'
<1> USE DEF BaseInv
<1>1. a \in Nodes /\ FrameOK(a) /\ Kind[a] = "application"
      BY Zenon, TreeAssumption DEF TreeInv
<1>2. CASE gen \notin NeededIn[a]
  <2>1. apps[a] = <<>> => apps'[a] = <<>>
        BY Zenon, <1>1, <1>2, Appears, SetsUp
  <2>2. QED
        BY Zenon, <1>2, <2>1 DEF AsWanted
<1>3. CASE gen \in NeededIn[a]
  <2>1. Up(a) /\ ~Ending
        BY Zenon, <1>3 DEF AsWanted, Ending
  <2>2. ~Reaps(a) /\ ~Deletes(a) /\ ~Creates(a)
    <3>1. frame[a].op # "deprovision"
          BY Zenon, <1>1, <1>3, NeededSetsUp
    <3>2. QED
          BY Zenon, <1>1, <1>3, <2>1, <3>1 DEF Reaps, Deletes, Creates, Up, DeletingInv, FrameOK
  <2>3. workload'[a] # None
        BY Zenon, <2>1, <2>2, WorkGoes DEF Up
  <2>4. ASSUME NEW o, Put(a, <<o>>), o.status.health # None PROVE apps'[a] # <<>> /\ apps'[a][1].status.health # None
    <3>1. apps'[a] = <<o>>
          BY Zenon, <2>4 DEF Put, ArgoType
    <3>2. <<o>> # <<>> /\ <<o>>[1] = o
          BY Zenon
    <3>3. QED
          BY Zenon, <2>4, <3>1, <3>2
  <2>5. Patches(a) \/ Reports(a) => \E o \in Objects : Put(a, <<o>>) /\ o.status.health # None
    <3>1. apps[a][1].status.health # None
          BY Zenon, <2>1 DEF Up
    <3>2. QED
          BY Zenon, <3>1 DEF Patches, Reports
  <2>6. apps'[a] = apps[a] \/ Patches(a) \/ Reports(a)
        BY Zenon, <2>2, NextApps, OtherApps
  <2>7. apps'[a] # <<>> /\ apps'[a][1].status.health # None
        BY Zenon, <2>1, <2>4, <2>5, <2>6 DEF Up
  <2>8. QED
        BY Zenon, <1>3, <2>3, <2>7 DEF AsWanted, Up
<1>4. QED
      BY Zenon, <1>2, <1>3

\* What a conditional or a group has set up or torn down is as wanted.
LEMMA KidWanted ==
  ASSUME BaseInv, TornInv, DeployInv, frame[Root].op = "provision", NEW n \in Nodes, NEW k \in Kids(n),
         frame[k].at = "done", frame[k].result = "nil", NEW a \in Apps, a \in Under[k]
  PROVE  AsWanted(a)
<1> USE DEF BaseInv
<1>1. k \in Nodes /\ frame[k].op \in {"provision", "deprovision"}
      BY Zenon, KidsAreNodes, FrameFields
<1>2. CASE frame[k].op = "provision"
      BY Zenon, <1>1, <1>2 DEF DeployInv, WasSetUp
<1>3. CASE frame[k].op = "deprovision"
  <2>1. gen \notin NeededIn[k]
        BY Zenon, <1>1, <1>3, NeededSetsUp
  <2>2. a \in Nodes /\ \A m \in Nodes : k \in Under[m] => a \in Under[m]
        BY Zenon, <1>1, UnderTransitive, TreeAssumption
  <2>3. gen \notin NeededIn[a]
        BY Zenon, <1>1, <2>1, <2>2 DEF NeededIn
  <2>4. apps[a] = <<>> \/ a \in Discarded
        BY Zenon, <1>1, <1>3 DEF TornInv, Torn, Removed
  <2>5. QED
        BY Zenon, <2>3, <2>4 DEF AsWanted
<1>4. QED
      BY Zenon, <1>1, <1>2, <1>3

\* While something is called for setup, the root sets up, and no pass begins.
LEMMA RootSetsUp ==
  ASSUME BaseInv, NEW n \in Nodes, frame[n].op = "provision"
  PROVE  frame[Root].op = "provision" /\ ~PassStart
<1> USE DEF BaseInv
<1>1. Root \in Nodes /\ n \in Under[Root]
      BY Zenon, TreeAssumption
<1>2. frame[n].at # "idle"
      BY Zenon, IdleFields DEF TreeInv, FrameOK
<1>3. frame[Root].at # "idle"
      BY Zenon, <1>1, <1>2, CallerRuns DEF Running
<1>4. frame[Root].op \in {"provision", "deprovision"}
      BY Zenon, <1>1, <1>3, FrameFields
<1>5. frame[Root].op # "deprovision"
      BY Zenon, <1>1, <1>2, TearsDown
<1>6. QED
      BY Zenon, <1>3, <1>4, <1>5 DEF PassStart

\* A node whose setup ends has all under it as wanted.
LEMMA WantedNow ==
  ASSUME ~Lag, BaseInv, TornInv, DeployInv, WorkInv, NEW n \in Nodes, Step(n), WasSetUp(n)', NEW a \in Apps, a \in Under[n]
  PROVE  AsWanted(a)
<1> USE DEF BaseInv
<1>1. frame[n].op = "provision" /\ frame'[n].at = "done" /\ frame'[n].result = "nil"
      BY Zenon, OwnCall DEF WasSetUp
<1>2. frame[Root].op = "provision"
      BY Zenon, <1>1, RootSetsUp
<1>3. ASSUME n \notin Apps, \A k \in Kids(n) : frame[k].at = "done" /\ frame[k].result = "nil" PROVE AsWanted(a)
  <2>1. PICK k \in Kids(n) : a \in Under[k]
        BY Zenon, <1>3, UnderKids
  <2>2. QED
        BY Zenon, <1>2, <1>3, <2>1, KidWanted
<1>4. CASE Serial(n) \/ Concurrent(n) \/ Conditional(n)
  <2>1. n \notin Apps
        BY Zenon, <1>4, TreeAssumption DEF Serial, Concurrent, Conditional
  <2>2. QED
        BY Zenon, <1>1, <1>3, <1>4, <2>1, NilBelow
<1>5. CASE RemoteStep(n)
  <2> DEFINE c == Children[n][1]
  <2>1. n \notin Apps /\ Kids(n) = {c}
        BY Zenon, <1>5, OnlyChild, TreeAssumption DEF RemoteStep
  <2>2. frame[c].at = "done" /\ frame[c].result = "nil"
        BY Zenon, <1>1, <1>5, RemoteNil
  <2> HIDE DEF c
  <2>3. QED
        BY Zenon, <1>3, <2>1, <2>2
<1>6. CASE ApplicationStep(n)
  <2>1. n \in Apps /\ Kids(n) = {} /\ Kind[n] = "application"
        BY Zenon, <1>6, LeafKids, TreeAssumption DEF ApplicationStep
  <2>2. a = n
        BY Zenon, <2>1, UnderKids
  <2>3. apps[n] # <<>> /\ apps[n][1].status.sync = "Synced" /\ apps[n][1].status.health # None
        BY Zenon, <1>1, <1>6, ApplicationNil
  <2>4. workload[n] # None
        BY Zenon, <1>2, <2>1, <2>3, NoneAssumption DEF WorkInv, Ending
  <2>5. gen \in NeededIn[n]
        BY Zenon, <1>1, <2>1, SetsUp
  <2>6. QED
        BY Zenon, <2>2, <2>3, <2>4, <2>5 DEF AsWanted, Up
<1>7. CASE ResourceStep(n)
  <2>1. n \notin Apps /\ Kids(n) = {}
        BY Zenon, <1>7, LeafKids, TreeAssumption DEF ResourceStep
  <2>2. QED
        BY Zenon, <1>3, <2>1
<1>8. QED
      BY Zenon, <1>4, <1>5, <1>6, <1>7 DEF Step

\* DeployInv is kept.
LEMMA DeployInvStep ==
  ASSUME ~Lag, ClusterFirst, BaseInv, TornInv, DeployInv, DeletingInv, WorkInv, [Next]_vars
  PROVE  DeployInv'
<1> SUFFICES ASSUME NEW n \in Nodes, WasSetUp(n)', NEW a \in Apps, a \in Under[n] PROVE AsWanted(a)'
    BY Zenon DEF DeployInv
<1> USE DEF BaseInv
<1>1. frame[n].op = "provision" /\ AsWanted(a)
  <2>1. CASE Step(n)
    <3>1. frame[n].op = "provision"
          BY Zenon, <2>1, OwnCall DEF WasSetUp
    <3>2. QED
          BY Zenon, <2>1, <3>1, WantedNow
  <2>2. CASE ~Step(n)
    <3>1. WasSetUp(n)
          BY Zenon, <2>2, CallsKept DEF WasSetUp
    <3>2. QED
          BY Zenon, <3>1 DEF DeployInv, WasSetUp
  <2>3. QED
        BY Zenon, <2>1, <2>2
<1>2. frame[Root].op = "provision" /\ ~PassStart
      BY Zenon, <1>1, RootSetsUp
<1>3. gen' = gen
  <2>1. \A m \in Nodes : Step(m) => gen' = gen
        BY Zenon DEF Step, Serial, Concurrent, Conditional, ResourceStep, RemoteStep, ProvisionRemote, ProvisionOnRemote,
                  DeprovisionOnRemote, DeprovisionRemote, ApplicationStep, Lookup, Create, Update, Finalize, Discard, Quiet
  <2>2. Edit \/ Delete \/ Crash \/ PassEnd \/ External \/ UNCHANGED vars => gen' = gen
        BY Zenon DEF Edit, Delete, Crash, PassEnd, External, Argo, Collect, vars, treeVars
  <2>3. QED
        BY Zenon, <1>2, <2>1, <2>2 DEF Next, Pass
<1>4. QED
      BY Zenon, <1>1, <1>2, <1>3, WantedStays

\* What comes before a node that is called for setup in a serial group has
\* been set up.
LEMMA SetUpBefore ==
  ASSUME BaseInv, NEW b \in Nodes, frame[b].op = "provision", Kind[b] # "conditional", NEW a \in Nodes, <<a, b>> \in InOrder
  PROVE  \E c \in Nodes : a \in Under[c] /\ WasSetUp(c)
<1> USE DEF BaseInv
<1>1. PICK n \in Nodes : \E i, j \in DOMAIN Children[n] :
        Kind[n] = "serial" /\ i < j /\ a \in Under[Children[n][i]] /\ b \in Under[Children[n][j]]
      BY Zenon DEF InOrder
<1>2. PICK i \in DOMAIN Children[n], j \in DOMAIN Children[n] :
        Kind[n] = "serial" /\ i < j /\ a \in Under[Children[n][i]] /\ b \in Under[Children[n][j]]
      BY Zenon, <1>1
<1>3. Children[n][j] \in Kids(n) /\ Children[n][i] \in Kids(n)
      BY Zenon DEF Kids, Range
<1>4. b \in Under[n] /\ Children[n][i] \in Nodes
      BY Zenon, <1>2, <1>3, UnderClosed, UnderTransitive, KidsAreNodes
<1>5. frame[n].op = "provision" /\ frame[b].at # "idle"
      BY SMTT(30), <1>4, SetsUp, IdleFields DEF TreeInv, FrameOK
<1>6. Order(n) = Children[n]
      BY Zenon, <1>5 DEF Order
<1>7. /\ frame[Children[n][i]].at = "done" /\ frame[Children[n][i]].result = "nil"
      /\ frame[Children[n][i]].op = frame[n].op
      BY SMTT(30), <1>2, <1>5, <1>6, SerialBefore
<1>8. QED
      BY Zenon, <1>2, <1>4, <1>5, <1>7 DEF WasSetUp

\* OrderInv holds of every behaviour.
LEMMA OrderHolds ==
  ASSUME ~Lag, ClusterFirst, OnceOff
  PROVE  Spec => []OrderInv
<1>1. Init => DeployInv /\ DeletingInv /\ WorkInv
  <2> SUFFICES ASSUME Init PROVE DeployInv /\ DeletingInv /\ WorkInv
      BY Zenon
  <2>1. \A n \in Nodes : frame[n].op = "none"
        BY Zenon, IdleFields DEF Init
  <2>2. \A a \in Apps : apps[a] = <<>>
        BY Zenon DEF Init, ArgoInit
  <2>3. QED
        BY Zenon, <2>1, <2>2 DEF DeployInv, WasSetUp, DeletingInv, WorkInv
<1>2. ReverseInv /\ DeployInv /\ DeletingInv /\ WorkInv /\ [Next]_vars => DeployInv' /\ DeletingInv' /\ WorkInv'
      BY Zenon, DeployInvStep, DeletingInvStep, WorkInvStep DEF ReverseInv
<1>3. QED
      BY <1>1, <1>2, ReverseHolds, PTL DEF Spec, OrderInv

\* serial: nothing is created before all that comes earlier is deployed and
\* has been found in some health, or is gone if it is not wanted. So in every
\* tree in which each remote comes after the cluster's application, these are
\* always wanted and no condition comes on again, if the driver's list is not
\* behind, whatever fails, is cut short or is edited meanwhile.
THEOREM CreatedInOrderHolds ==
  ASSUME ~Lag, ClusterFirst, OnceOff
  PROVE  Spec => CreatedInOrder
<1>1. ASSUME OrderInv, [Next]_vars, NEW b \in Apps, apps[b] = <<>>, apps'[b] # <<>>, NEW a \in Apps, <<a, b>> \in InOrder
      PROVE  AsWanted(a)
  <2>1. b \in Nodes /\ frame[b].op = "provision" /\ Kind[b] # "conditional" /\ a \in Nodes
        BY Zenon, <1>1, Appears, TreeAssumption DEF OrderInv, ReverseInv
  <2>2. PICK c \in Nodes : a \in Under[c] /\ WasSetUp(c)
        BY Zenon, <1>1, <2>1, SetUpBefore DEF OrderInv, ReverseInv
  <2>3. QED
        BY Zenon, <1>1, <2>2 DEF OrderInv, DeployInv
<1>2. OrderInv /\ [Next]_vars =>
        [\A b \in Apps : apps[b] = <<>> /\ apps'[b] # <<>> =>
           \A a \in Apps : <<a, b>> \in InOrder =>
             IF gen \in NeededIn[a]
             THEN apps[a] # <<>> /\ apps[a][1].status.health # None /\ workload[a] # None
             ELSE apps[a] = <<>> \/ a \in Discarded]_vars
      BY Zenon, <1>1 DEF AsWanted, Up
<1>3. QED
      BY <1>2, OrderHolds, PTL DEF Spec, CreatedInOrder
=============================================================================

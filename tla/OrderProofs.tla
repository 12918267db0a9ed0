---------------------------- MODULE OrderProofs -----------------------------
(***************************************************************************)
(* Trees of provisioners, continued: the invariant every other rests on    *)
(* (BaseInv), which operation is going on where, what stands behind the    *)
(* nil a provisioner returns, and the order things are torn down in that   *)
(* follows from it.                                                        *)
(***************************************************************************)
EXTENDS TreeProofs

(***************************************************************************)
(* The types, and what the later invariants rest on.                       *)
(***************************************************************************)
\* A step changes one application at most, by its node or by Argo CD.
LEMMA NextApps ==
  ASSUME ~Lag, ArgoType, OwnerType, AppsInv, FrameType, TreeInv, [Next]_vars
  PROVE  \/ UNCHANGED <<apps, workload>>
         \/ \E a \in Apps : /\ Step(a) /\ workload' = workload /\ secret' = secret
                            /\ Creates(a) \/ Patches(a) \/ Deletes(a)
         \/ \E a \in Apps : UNCHANGED treeVars /\ secret' = secret /\ (Reports(a) \/ Reaps(a))
<1>1. CASE Edit \/ Delete \/ Crash \/ PassStart \/ PassEnd \/ (\E n \in Resources : Collect(n)) \/ UNCHANGED vars
      BY Zenon, <1>1 DEF Edit, Delete, Crash, PassStart, PassEnd, Collect, vars, argoVars
<1>2. ASSUME NEW a \in Apps, Argo(a)
      PROVE  UNCHANGED treeVars /\ secret' = secret /\ (Reports(a) \/ Reaps(a))
      BY Zenon, <1>2, ArgoMoves DEF Argo
<1>3. ASSUME NEW n \in Nodes, Serial(n) \/ Concurrent(n) \/ Conditional(n) \/ ResourceStep(n) \/ RemoteStep(n)
      PROVE  UNCHANGED <<apps, workload>>
      BY Zenon, <1>3 DEF Serial, Concurrent, Conditional, ResourceStep, RemoteStep, ProvisionRemote, ProvisionOnRemote,
                  DeprovisionOnRemote, DeprovisionRemote, Register, Unregister, argoVars
<1>4. ASSUME NEW n \in Nodes, ApplicationStep(n)
      PROVE  /\ n \in Apps /\ Step(n) /\ workload' = workload /\ secret' = secret
             /\ apps' = apps \/ Creates(n) \/ Patches(n) \/ Deletes(n)
      BY Zenon, <1>4, ApplicationMoves, AppsMoves DEF Step
<1>5. QED
      BY Zenon, <1>1, <1>2, <1>3, <1>4 DEF Next, Pass, External, Step

\* The type of what Argo CD holds is kept.
LEMMA ArgoTypeStep ==
  ASSUME ~Lag, ArgoType, OwnerType, AppsInv, FrameType, TreeInv, [Next]_vars
  PROVE  ArgoType'
<1>1. ASSUME NEW a \in Apps, NEW s \in One, Put(a, s) PROVE apps' \in [Apps -> One]
      BY Zenon, <1>1 DEF Put, ArgoType
<1>2. <<>> \in One /\ \A o \in Objects : <<o>> \in One
      BY Zenon DEF One
<1>3. gen \in 1..MaxGen
      BY Zenon DEF OwnerType
<1>4. apps' \in [Apps -> One]
  <2>1. ASSUME NEW a \in Apps, Creates(a) PROVE apps' \in [Apps -> One]
        BY Zenon, <1>1, <1>2, <1>3, <2>1, NewFields, RequiredSpecs DEF Creates
  <2>2. ASSUME NEW a \in Apps, Patches(a) \/ Deletes(a) \/ Reports(a) \/ Reaps(a) PROVE apps' \in [Apps -> One]
        BY Zenon, <1>1, <1>2, <2>2 DEF Patches, Deletes, Reports, Reaps
  <2>3. QED
        BY Zenon, <2>1, <2>2, NextApps DEF ArgoType
<1>5. workload' \in [Apps -> Specs \cup {None}]
  <2>1. ASSUME NEW a \in Apps, Reports(a) PROVE workload' \in [Apps -> Specs \cup {None}]
        BY Zenon, <2>1 DEF Reports, Objects, ArgoType
  <2>2. ASSUME NEW a \in Apps, Reaps(a) PROVE workload' \in [Apps -> Specs \cup {None}]
        BY Zenon, <2>2 DEF Reaps, ArgoType
  <2>3. QED
        BY Zenon, <2>1, <2>2, NextApps DEF ArgoType
<1>6. secret' \in BOOLEAN
  <2>1. secret' = secret \/ Register \/ Unregister
    <3>1. CASE \E a \in Apps : Argo(a)
          BY Zenon, <3>1, ArgoMoves DEF Argo
    <3>2. CASE Edit \/ Delete \/ Crash \/ PassStart \/ PassEnd \/ (\E n \in Resources : Collect(n)) \/ UNCHANGED vars
          BY Zenon, <3>2 DEF Edit, Delete, Crash, PassStart, PassEnd, Collect, vars, argoVars
    <3>3. ASSUME NEW n \in Nodes, Serial(n) \/ Concurrent(n) \/ Conditional(n) \/ ResourceStep(n) \/ RemoteStep(n)
          PROVE  secret' = secret \/ Register \/ Unregister
          BY Zenon, <3>3 DEF Serial, Concurrent, Conditional, ResourceStep, RemoteStep, ProvisionRemote, ProvisionOnRemote,
                      DeprovisionOnRemote, DeprovisionRemote, argoVars
    <3>4. ASSUME NEW n \in Nodes, ApplicationStep(n) PROVE secret' = secret
          BY Zenon, <3>4, AppsMoves
    <3>5. QED
          BY Zenon, <3>1, <3>2, <3>3, <3>4 DEF Next, Pass, External, Step
  <2>2. QED
        BY Zenon, <2>1 DEF Register, Unregister, ArgoType
<1>7. QED
      BY Zenon, <1>4, <1>5, <1>6 DEF ArgoType

\* So is that of the resource.
LEMMA OwnerTypeStep ==
  ASSUME ~Lag, ArgoType, OwnerType, FrameType, TreeInv, [Next]_vars
  PROVE  /\ OwnerType' /\ owner'.gen >= owner.gen /\ gen' >= gen
         /\ owner.deleting => owner'.deleting
<1>1. owner.gen \in 1..MaxGen /\ owner.gen \in Nat /\ gen \in Nat /\ gen \in 1..MaxGen /\ gen <= owner.gen /\ MaxGen \in Nat
      BY BoundAssumption DEF OwnerType
<1>2. CASE Edit
  <2>1. owner' \in [gen : 1..MaxGen, deleting : BOOLEAN, gone : BOOLEAN]
        BY <1>1, <1>2 DEF Edit, OwnerType
  <2>2. owner'.gen = owner.gen + 1 /\ gen' = gen /\ pending' = TRUE
        BY Zenon, <1>2 DEF Edit, OwnerType
  <2>3. owner.deleting = FALSE
        BY Zenon, <1>2 DEF Edit, OwnerType
  <2>4. QED
        BY <1>1, <2>1, <2>2, <2>3 DEF OwnerType
<1>3. CASE Delete
  <2>1. owner' \in [gen : 1..MaxGen, deleting : BOOLEAN, gone : BOOLEAN]
        BY Zenon, <1>3 DEF Delete, OwnerType
  <2>2. owner'.gen = owner.gen /\ gen' = gen /\ pending' = TRUE
        BY Zenon, <1>3 DEF Delete, OwnerType
  <2>3. owner'.deleting = TRUE
        BY Zenon, <1>3 DEF Delete, OwnerType
  <2>4. QED
        BY <1>1, <2>1, <2>2, <2>3 DEF OwnerType
<1>4. CASE Crash \/ PassStart
  <2>1. owner' = owner /\ pending' \in BOOLEAN /\ gen' \in {gen, owner.gen}
        BY Zenon, <1>4 DEF Crash, PassStart
  <2>2. QED
        BY <1>1, <2>1 DEF OwnerType
<1>5. CASE PassEnd
  <2>1. gen' = gen /\ \E g \in BOOLEAN : owner' = [owner EXCEPT !.gone = g]
        BY Zenon, <1>5 DEF PassEnd
  <2>2. pending' \in BOOLEAN
        BY Zenon, <1>5 DEF PassEnd, OwnerType
  <2>3. owner' \in [gen : 1..MaxGen, deleting : BOOLEAN, gone : BOOLEAN]
        BY Zenon, <2>1 DEF OwnerType
  <2>4. owner'.gen = owner.gen
        BY Zenon, <2>1 DEF OwnerType
  <2>5. owner'.deleting = owner.deleting
        BY Zenon, <2>1 DEF OwnerType
  <2>6. QED
        BY <1>1, <2>1, <2>2, <2>3, <2>4, <2>5 DEF OwnerType
<1>6. CASE UNCHANGED <<owner, gen, pending>>
      BY <1>1, <1>6 DEF OwnerType
<1>7. ASSUME NEW n \in Nodes, Step(n) PROVE UNCHANGED <<owner, gen, pending>>
      BY Zenon, <1>7, StepMoves DEF Quiet
<1>8. External \/ UNCHANGED vars => UNCHANGED <<owner, gen, pending>>
      BY Zenon DEF External, Argo, Collect, treeVars, vars
<1>9. QED
      BY Zenon, <1>2, <1>3, <1>4, <1>5, <1>6, <1>7, <1>8 DEF Next, Pass

\* A step of another node leaves a node where it is, calls or resets it.
LEMMA OtherFrames ==
  ASSUME ~Lag, ArgoType, FrameType, TreeInv, NEW n \in Nodes, Step(n), NEW m \in Nodes \ {n}
  PROVE  frame'[m].at \in {"idle", "start"} \/ (frame'[m].at = frame[m].at /\ frame'[m].base = frame[m].base)
<1>1. CASE Returns(n)
  <2>1. PICK r \in Results : Return(n, r)
        BY Zenon, <1>1 DEF Returns
  <2>2. CASE m \in Kids(n)
        BY Zenon, <2>1, <2>2, ReturnFrames, IdleFields
  <2>3. CASE m \notin Kids(n)
        BY <2>1, <2>3, ReturnFields
  <2>4. QED
        BY Zenon, <2>2, <2>3
<1>2. CASE Calls(n)
  <2>1. PICK C \in SUBSET Kids(n), b \in BOOLEAN :
          /\ \A x \in C : frame'[x] = Call(Direction(n), b)
          /\ \A x \in Nodes \ (C \cup {n}) : frame'[x] = frame[x]
        BY <1>2 DEF Calls
  <2>2. Direction(n) \in Operations
        BY Zenon, FrameFields DEF Direction, Wanted, Operations
  <2>3. CASE m \in C
        BY <2>1, <2>2, <2>3, CallFields
  <2>4. CASE m \notin C
        BY Zenon, <2>1, <2>4
  <2>5. QED
        BY Zenon, <2>3, <2>4
<1>3. QED
      BY Zenon, <1>1, <1>2, StepMoves

\* A change of another application.
LEMMA OtherApps ==
  ASSUME ArgoType, NEW a \in Apps, Creates(a) \/ Patches(a) \/ Deletes(a) \/ Reports(a) \/ Reaps(a),
         NEW b \in Apps \ {a}
  PROVE  apps'[b] = apps[b]
<1>1. \E s : Put(a, s)
      BY Zenon DEF Creates, Patches, Deletes, Reports, Reaps
<1>2. QED
      BY Zenon, <1>1 DEF Put, ArgoType

\* AppsInv is kept.
LEMMA AppsInvStep ==
  ASSUME ~Lag, ArgoType, OwnerType, AppsInv, FrameType, TreeInv, [Next]_vars
  PROVE  AppsInv'
<1> SUFFICES ASSUME NEW a \in Apps
             PROVE  /\ frame'[a].at = "create" => apps'[a] = <<>>
                    /\ frame'[a].at = "patch" => frame'[a].base \in Copies
    BY Zenon DEF AppsInv
<1>1. a \in Nodes /\ Kind[a] = "application"
      BY Zenon, TreeAssumption
<1>2. CASE Step(a)
  <2>1. ApplicationStep(a)
        BY Zenon, <1>1, <1>2 DEF Step, Serial, Concurrent, Conditional, RemoteStep, ResourceStep
  <2>2. ASSUME NEW r \in Results, Return(a, r) PROVE frame'[a].at = "done"
        BY Zenon, <1>1, <2>2, ReturnFields
  <2>3. CASE frame' = Goto(a, "create") /\ apps[a] = <<>> /\ apps' = apps
    <3>1. frame'[a].at = "create"
          BY Zenon, <1>1, <2>3, GotoFields DEF Places, Bases
    <3>2. QED
          BY Zenon, <2>3, <3>1
  <2>4. CASE apps[a] # <<>> /\ frame' = [frame EXCEPT ![a].at = "patch", ![a].base = Base(apps[a][1])]
    <3>1. Base(apps[a][1]) \in Copies /\ Base(apps[a][1]) \in Bases
          BY Zenon, <2>4, OnlyObject, BaseType DEF ArgoType
    <3>2. frame'[a].at = "patch" /\ (frame' # Goto(a, "patch") => frame'[a].base = Base(apps[a][1]))
          BY Zenon, <1>1, <2>4, <3>1, GotoFields DEF Places
    <3>3. frame' = [frame EXCEPT ![a] = [frame[a] EXCEPT !.at = "patch", !.base = Base(apps[a][1])]]
          BY Zenon, <1>1, <2>4 DEF FrameType
    <3>4. frame'[a].base = Base(apps[a][1])
          BY Zenon, <1>1, <3>3 DEF FrameType, Frames
    <3>5. QED
          BY Zenon, <3>1, <3>2, <3>4
  <2>5. CASE frame' = Goto(a, "delete")
    <3>1. frame'[a].at = "delete"
          BY Zenon, <1>1, <2>5, GotoFields DEF Places, Bases
    <3>2. QED
          BY Zenon, <3>1
  <2>6. QED
        BY Zenon, <1>1, <2>1, <2>2, <2>3, <2>4, <2>5, ApplicationMoves
<1>3. ASSUME NEW n \in Nodes \ {a}, Step(n)
      PROVE  /\ frame'[a].at = "create" => apps'[a] = <<>>
             /\ frame'[a].at = "patch" => frame'[a].base \in Copies
  <2>1. frame'[a].at \in {"idle", "start"} \/ (frame'[a].at = frame[a].at /\ frame'[a].base = frame[a].base)
        BY Zenon, <1>1, <1>3, OtherFrames
  <2>2. apps'[a] = apps[a]
    <3>1. CASE ApplicationStep(n)
          BY Zenon, <1>3, <3>1, ApplicationMoves, AppsMoves, OtherApps
    <3>2. CASE ~ApplicationStep(n)
          BY Zenon, <1>3, <3>2 DEF Step, Serial, Concurrent, Conditional, ResourceStep, RemoteStep, ProvisionRemote,
               ProvisionOnRemote, DeprovisionOnRemote, DeprovisionRemote, Register, Unregister, argoVars
    <3>3. QED
          BY Zenon, <3>1, <3>2
  <2>3. QED
        BY Zenon, <2>1, <2>2 DEF AppsInv
<1>4. CASE PassStart \/ PassEnd \/ Crash
  <2>1. apps' = apps
        BY Zenon, <1>4 DEF PassStart, PassEnd, Crash, argoVars
  <2>2. frame'[a].at \in {"idle", "start"} \/ frame'[a] = frame[a]
    <3>1. CASE Crash
          BY Zenon, <1>1, <3>1, IdleFields DEF Crash
    <3>2. CASE PassStart
      <4>1. frame' = [frame EXCEPT ![Root] = Call("provision", FALSE)] \/ frame' = [frame EXCEPT ![Root] = Call("deprovision", FALSE)]
            BY Zenon, <3>2 DEF PassStart
      <4>2. QED
            BY Zenon, <1>1, <4>1, CallFields DEF Operations, FrameType
    <3>3. CASE PassEnd
      <4>1. frame' = [frame EXCEPT ![Root] = Idle]
            BY Zenon, <3>3 DEF PassEnd
      <4>2. QED
            BY Zenon, <1>1, <4>1, IdleFields DEF FrameType
    <3>4. QED
          BY Zenon, <1>4, <3>1, <3>2, <3>3
  <2>3. QED
        BY Zenon, <2>1, <2>2 DEF AppsInv
<1>5. ASSUME NEW x \in Apps, Argo(x)
      PROVE  /\ frame'[a].at = "create" => apps'[a] = <<>>
             /\ frame'[a].at = "patch" => frame'[a].base \in Copies
  <2>1. frame' = frame /\ (Reports(x) \/ Reaps(x))
        BY Zenon, <1>5, ArgoMoves DEF Argo, treeVars
  <2>2. x = a => apps[a] # <<>>
        BY Zenon, <2>1 DEF Reports, Reaps
  <2>3. x # a => apps'[a] = apps[a]
        BY Zenon, <2>1, OtherApps
  <2>4. QED
        BY Zenon, <2>1, <2>2, <2>3 DEF AppsInv
<1>6. CASE UNCHANGED <<frame, apps>>
      BY Zenon, <1>6 DEF AppsInv
<1>7. Edit \/ Delete \/ (\E n \in Resources : Collect(n)) \/ UNCHANGED vars => UNCHANGED <<frame, apps>>
      BY Zenon DEF Edit, Delete, Collect, vars, argoVars, treeVars
<1>8. QED
      BY Zenon, <1>2, <1>3, <1>4, <1>5, <1>6, <1>7 DEF Next, Pass, External

\* Every specification is one that a generation asked for.
SpecInv == \A a \in Apps : apps[a] # <<>> => \E g \in 1..owner.gen : apps[a][1].spec \in Required(a, g)

\* SpecInv is kept.
LEMMA SpecInvStep ==
  ASSUME ~Lag, ArgoType, OwnerType, AppsInv, FrameType, TreeInv, SpecInv, [Next]_vars
  PROVE  SpecInv'
<1> SUFFICES ASSUME NEW a \in Apps, apps'[a] # <<>>
             PROVE  \E g \in 1..owner'.gen : apps'[a][1].spec \in Required(a, g)
    BY Zenon DEF SpecInv
<1>1. 1..owner.gen \subseteq 1..owner'.gen /\ gen \in 1..owner'.gen /\ gen \in 1..MaxGen
  <2>1. OwnerType' /\ owner'.gen >= owner.gen
        BY Zenon, OwnerTypeStep
  <2>2. QED
        BY <2>1, BoundAssumption DEF OwnerType
<1>2. CASE apps'[a] = apps[a]
      BY Zenon, <1>1, <1>2 DEF SpecInv
<1>3. ASSUME NEW s, Put(a, s) PROVE apps'[a] = s
      BY Zenon, <1>3 DEF Put, ArgoType
<1>4. \A o : <<o>>[1] = o
      BY Zenon
<1>5. CASE Creates(a)
  <2>1. PICK spec \in Required(a, gen) : apps'[a] = <<NewObject(spec)>>
        BY Zenon, <1>3, <1>5 DEF Creates
  <2>2. apps'[a][1].spec = spec
    <3>1. spec \in Specs
          BY Zenon, <1>1, <2>1, RequiredSpecs
    <3>2. apps'[a][1] = NewObject(spec)
          BY Zenon, <2>1, <1>4
    <3>3. QED
          BY Zenon, <3>1, <3>2, NewFields
  <2>3. QED
        BY Zenon, <1>1, <2>2
<1>6. CASE Patches(a)
  <2>1. PICK o \in Objects : /\ apps'[a] = <<o>>
                             /\ o.spec = apps[a][1].spec \/ o.spec \in Required(a, gen)
        BY Zenon, <1>3, <1>6 DEF Patches
  <2>2. apps[a] # <<>> /\ apps'[a][1] = o
        BY Zenon, <1>4, <1>6, <2>1 DEF Patches
  <2>3. QED
        BY Zenon, <1>1, <2>1, <2>2 DEF SpecInv
<1>7. CASE Deletes(a) \/ Reports(a) \/ Reaps(a)
  <2>1. PICK o \in Objects : apps'[a] = <<o>> /\ o.spec = apps[a][1].spec
        BY Zenon, <1>3, <1>7 DEF Deletes, Reports, Reaps
  <2>2. apps[a] # <<>> /\ apps'[a][1] = o
        BY Zenon, <1>4, <1>7, <2>1 DEF Deletes, Reports, Reaps
  <2>3. QED
        BY Zenon, <1>1, <2>1, <2>2 DEF SpecInv
<1>8. QED
      BY Zenon, <1>2, <1>5, <1>6, <1>7, NextApps, OtherApps

BaseInv == ArgoType /\ OwnerType /\ FrameType /\ TreeInv /\ AppsInv /\ SpecInv

\* The first state has it.
LEMMA BaseInit ==
  ASSUME Init
  PROVE  BaseInv
<1>1. \A n \in Nodes : frame[n] = Idle /\ frame[n].at = "idle"
      BY Zenon, IdleFields DEF Init
<1>2. ArgoType
      BY Zenon DEF Init, ArgoInit, ArgoType, One
<1>3. OwnerType
  <2>1. 1 \in 1..MaxGen
        BY BoundAssumption
  <2>2. owner \in [gen : 1..MaxGen, deleting : BOOLEAN, gone : BOOLEAN]
        BY Zenon, <2>1 DEF Init
  <2>3. owner.gen = 1 /\ gen = 1 /\ pending = TRUE
        BY Zenon DEF Init
  <2>4. QED
        BY <2>1, <2>2, <2>3 DEF OwnerType
<1>4. FrameType
      BY Zenon, FrameTypes DEF FrameType, Init
<1>5. TreeInv
  <2>1. \A n \in Nodes : FrameOK(n)
        BY Zenon, <1>1, IdleFields DEF FrameOK
  <2>2. \A n \in Nodes : \A m \in Kids(n) : frame[m].at = "idle"
        BY Zenon, <1>1, KidsAreNodes
  <2>3. ASSUME NEW n \in Nodes PROVE SerialOK(n)
    <3> SUFFICES ASSUME NEW j \in DOMAIN Order(n) PROVE frame[Order(n)[j]].at = "idle"
        BY Zenon DEF SerialOK
    <3>1. Order(n) \in {Children[n], Reverse(Children[n])}
          BY Zenon DEF Order
    <3>2. Order(n)[j] \in Kids(n)
          BY Zenon, <3>1, OrderKids DEF Goes
    <3>3. QED
          BY Zenon, <2>2, <3>2
  <2>4. QED
        BY Zenon, <2>1, <2>2, <2>3 DEF TreeInv, KidOK
<1>6. AppsInv
  <2>1. Apps \subseteq Nodes
        BY Zenon, TreeAssumption
  <2>2. QED
        BY Zenon, <1>1, <2>1 DEF AppsInv
<1>7. SpecInv
      BY Zenon DEF Init, ArgoInit, SpecInv
<1>8. QED
      BY Zenon, <1>2, <1>3, <1>4, <1>5, <1>6, <1>7 DEF BaseInv

\* Every step keeps it.
LEMMA BaseStep ==
  ASSUME ~Lag, BaseInv, [Next]_vars
  PROVE  BaseInv'
  BY Zenon, NextTree, ArgoTypeStep, OwnerTypeStep, AppsInvStep, SpecInvStep DEF BaseInv

\* It is an invariant if the driver's list is not behind.
LEMMA BaseHolds ==
  ASSUME ~Lag
  PROVE  Spec => []BaseInv
<1>1. Init => BaseInv
      BY Zenon, BaseInit
<1>2. BaseInv /\ [Next]_vars => BaseInv'
      BY Zenon, BaseStep
<1>3. QED
      BY <1>1, <1>2, PTL DEF Spec
-----------------------------------------------------------------------------
(***************************************************************************)
(* Directions. A call that tears down makes calls that do, and a call that *)
(* sets up was made by calls that do, under conditions that hold.          *)
(***************************************************************************)
\* Only under a running node is a node called.
LEMMA CallerRuns ==
  ASSUME TreeInv, NEW n \in Nodes, NEW m \in Under[n], m # n, frame[m].at # "idle"
  PROVE  Running(n)
  BY Zenon, IdleUnder

\* Teardown goes all the way down.
LEMMA TearsDown ==
  ASSUME TreeInv, NEW n \in Nodes, frame[n].op = "deprovision", NEW m \in Under[n], frame[m].at # "idle"
  PROVE  frame[m].op = "deprovision"
<1> DEFINE S == {x \in Nodes : frame[x].at # "idle" => frame[x].op = "deprovision"}
<1>1. S \in SUBSET Nodes /\ n \in S
      BY Zenon
<1>2. ASSUME NEW p \in S PROVE Kids(p) \subseteq S
  <2> SUFFICES ASSUME NEW k \in Kids(p), frame[k].at # "idle" PROVE frame[k].op = "deprovision"
      BY Zenon, KidsAreNodes
  <2>1. KidOK(p, k)
        BY Zenon DEF TreeInv
  <2>2. frame[p].op = "deprovision"
        BY Zenon, <2>1 DEF KidOK
  <2>3. QED
        BY Zenon, <2>1, <2>2 DEF KidOK, Wanted
<1>3. Under[n] \subseteq S
  <2> HIDE DEF S
  <2> QED
      BY Zenon, <1>1, <1>2, UnderLeast
<1>4. QED
      BY Zenon, <1>3

\* What sets up was called by what sets up, and is needed.
LEMMA SetsUp ==
  ASSUME FrameType, TreeInv, OwnerType, NEW m \in Nodes, frame[m].op = "provision", Kind[m] # "conditional"
  PROVE  /\ \A n \in Nodes : m \in Under[n] => frame[n].op = "provision"
         /\ gen \in NeededIn[m]
<1>1. frame[m].at # "idle"
      BY Zenon, IdleFields DEF TreeInv, FrameOK
<1>2. ASSUME NEW n \in Nodes, m \in Under[n] PROVE frame[n].op = "provision"
  <2>1. frame[n].at # "idle"
        BY Zenon, <1>1, <1>2, CallerRuns DEF Running
  <2>2. frame[n].op \in {"provision", "deprovision"}
        BY Zenon, <2>1, FrameFields
  <2>3. QED
        BY Zenon, <1>1, <1>2, <2>2, TearsDown
<1>3. ASSUME NEW n \in Nodes, Kind[n] = "conditional", m \in Under[n] PROVE gen \in Condition[n]
  <2>1. PICK k \in Kids(n) : m \in Under[k]
        BY Zenon, <1>3, UnderKids
  <2>2. k \in Nodes /\ frame[k].op = "provision"
        BY Zenon, <1>2, <2>1, KidsAreNodes
  <2>3. frame[k].at # "idle" /\ KidOK(n, k)
        BY Zenon, <2>2, IdleFields DEF TreeInv, FrameOK
  <2>4. Wanted(n) = "provision"
        BY Zenon, <1>3, <2>2, <2>3 DEF KidOK
  <2>5. QED
        BY Zenon, <2>4 DEF Wanted
<1>4. QED
      BY Zenon, <1>2, <1>3 DEF NeededIn, OwnerType

\* What a generation needs is not torn down while the root sets up.
LEMMA NeededSetsUp ==
  ASSUME FrameType, TreeInv, OwnerType, NEW m \in Nodes, frame[m].op = "deprovision", gen \in NeededIn[m]
  PROVE  frame[Root].op = "deprovision"
<1> SUFFICES ASSUME frame[Root].op # "deprovision" PROVE FALSE
    BY Zenon
<1> DEFINE S == {x \in Nodes : gen \in NeededIn[x] => frame[x].op # "deprovision"}
<1>1. S \in SUBSET Nodes /\ Root \in S
      BY Zenon, TreeAssumption
<1>2. ASSUME NEW p \in S PROVE Kids(p) \subseteq S
  <2> SUFFICES ASSUME NEW k \in Kids(p), gen \in NeededIn[k], frame[k].op = "deprovision" PROVE FALSE
      BY Zenon, KidsAreNodes
  <2>1. k \in Nodes /\ p \in Nodes
        BY Zenon, KidsAreNodes
  <2>2. \A n \in Nodes : p \in Under[n] => k \in Under[n]
        BY Zenon, UnderClosed
  <2>3. gen \in NeededIn[p] /\ (Kind[p] = "conditional" => gen \in Condition[p])
        BY Zenon, <2>1, <2>2, UnderClosed DEF NeededIn
  <2>4. frame[p].op # "deprovision"
        BY Zenon, <2>3
  <2>5. frame[k].at # "idle" /\ KidOK(p, k)
        BY Zenon, <2>1, IdleFields DEF TreeInv, FrameOK
  <2>6. frame[p].at # "idle"
        BY Zenon, <2>5 DEF KidOK
  <2>7. frame[p].op = "provision"
        BY Zenon, <2>1, <2>4, <2>6, FrameFields
  <2>8. QED
        BY Zenon, <2>3, <2>5, <2>7 DEF KidOK, Wanted
<1>3. Under[Root] \subseteq S
  <2>1. Root \in Nodes
        BY Zenon, TreeAssumption
  <2> HIDE DEF S
  <2> QED
      BY Zenon, <1>1, <1>2, <2>1, UnderLeast
<1>4. QED
      BY Zenon, <1>3, TreeAssumption
-----------------------------------------------------------------------------
(***************************************************************************)
(* What a step of one node does to the call of another.                    *)
(***************************************************************************)
\* Apart from being called and being dropped, a call of another node only
\* takes note of an error.
LEMMA OtherCalls ==
  ASSUME ~Lag, ArgoType, FrameType, TreeInv, NEW n \in Nodes, Step(n), NEW m \in Nodes \ {n}
  PROVE  /\ frame'[m].at \notin {"idle", "start"} =>
              /\ frame'[m].at = frame[m].at /\ frame'[m].op = frame[m].op
              /\ frame'[m].result = "nil" => frame[m].result = "nil"
         /\ frame[m].at # "idle" /\ m \notin Kids(n) =>
              /\ frame'[m].at = frame[m].at /\ frame'[m].op = frame[m].op
              /\ frame[m].at = "done" => frame'[m].result = frame[m].result
         /\ frame'[m].background => frame[m].background \/ (m \in Kids(n) /\ (frame[n].background \/ n \in Background))
<1>1. Running(n)
      BY Zenon, StepMoves
<1>2. CASE Returns(n)
  <2>1. PICK r \in Results : Return(n, r)
        BY Zenon, <1>2 DEF Returns
  <2>2. CASE m \in Kids(n)
        BY Zenon, <2>1, <2>2, ReturnFrames, IdleFields
  <2>3. CASE m \notin Kids(n)
    <3>1. /\ frame'[m].at = frame[m].at /\ frame'[m].op = frame[m].op
          /\ frame'[m].background = frame[m].background
          /\ frame'[m].result =
               IF n \in Kids(m) /\ Kind[m] = "concurrent" /\ frame[m].result = "nil" THEN r ELSE frame[m].result
      <4>1. m \in Nodes \ {n}
            BY Zenon
      <4>2. QED
            BY ONLY FrameType, <2>1, <2>3, <4>1, ReturnFields
    <3>2. frame[m].at = "done" => n \notin Kids(m)
          BY Zenon, <1>1, IdleBelow DEF Running
    <3>3. QED
          BY Zenon, <2>3, <3>1, <3>2
  <2>4. QED
        BY Zenon, <2>2, <2>3
<1>3. CASE Calls(n)
  <2>1. PICK C \in SUBSET Kids(n), b \in BOOLEAN :
          /\ \A x \in C : frame[x].at = "idle" /\ frame'[x] = Call(Direction(n), b)
          /\ \A x \in Nodes \ (C \cup {n}) : frame'[x] = frame[x]
          /\ b => frame[n].background \/ n \in Background
        BY Zenon, <1>3 DEF Calls
  <2>2. Direction(n) \in Operations
        BY Zenon, FrameFields DEF Direction, Wanted, Operations
  <2>3. CASE m \in C
    <3>1. frame[m].at = "idle" /\ frame'[m].at = "start" /\ frame'[m].background = b /\ m \in Kids(n)
          BY <2>1, <2>2, <2>3, CallFields
    <3>2. QED
          BY Zenon, <2>1, <3>1
  <2>4. CASE m \notin C
        BY Zenon, <2>1, <2>4
  <2>5. QED
        BY Zenon, <2>3, <2>4
<1>4. QED
      BY Zenon, <1>2, <1>3, StepMoves

\* The call of the node that steps keeps its operation.
LEMMA OwnCall ==
  ASSUME ~Lag, ArgoType, FrameType, TreeInv, NEW n \in Nodes, Step(n)
  PROVE  /\ frame'[n].op = frame[n].op /\ frame'[n].background = frame[n].background
         /\ frame'[n].at # "idle" /\ frame[n].at \notin {"idle", "done"}
<1>1. CASE Returns(n)
      BY Zenon, <1>1, StepMoves, ReturnFields DEF Returns, Running
<1>2. CASE Calls(n)
      BY Zenon, <1>2, StepMoves DEF Calls, Running
<1>3. QED
      BY Zenon, <1>1, <1>2, StepMoves

\* A node steps only within a call of the root, which goes on with what it does.
LEMMA RootCall ==
  ASSUME ~Lag, ArgoType, FrameType, TreeInv, NEW n \in Nodes, Step(n)
  PROVE  frame'[Root].op = frame[Root].op /\ Running(Root)
<1>1. Running(n) /\ Root \in Nodes /\ n \in Under[Root]
      BY Zenon, StepMoves, TreeAssumption
<1>2. Running(Root)
      BY Zenon, <1>1, CallerRuns DEF Running
<1>3. Root \notin Kids(n)
      BY Zenon, OneParent
<1>4. QED
      BY Zenon, <1>1, <1>2, <1>3, OwnCall, OtherCalls DEF Running

(***************************************************************************)
(* The root is told to deprovision only when the owner is being deleted,   *)
(* and only what is discarded is called in the background.                 *)
(***************************************************************************)
PassInv ==
  /\ frame[Root].op = "deprovision" => owner.deleting
  /\ \A n \in Nodes : frame[n].background => n \in Discarded

\* PassInv is kept.
LEMMA PassInvStep ==
  ASSUME ~Lag, BaseInv, PassInv, [Next]_vars
  PROVE  PassInv'
<1> USE DEF BaseInv
<1>1. Root \in Nodes /\ (owner.deleting => owner'.deleting)
      BY Zenon, OwnerTypeStep, TreeAssumption
<1>2. CASE Crash
  <2>1. \A n \in Nodes : frame'[n] = Idle
        BY Zenon, <1>2 DEF Crash
  <2>2. QED
        BY Zenon, <1>1, <2>1, IdleFields DEF PassInv
<1>3. CASE PassEnd
  <2>1. frame'[Root] = Idle /\ \A n \in Nodes \ {Root} : frame'[n] = frame[n]
        BY Zenon, <1>1, <1>3 DEF PassEnd, FrameType
  <2>2. QED
        BY Zenon, <1>1, <2>1, IdleFields DEF PassInv
<1>4. CASE PassStart
  <2> DEFINE op == IF owner.deleting THEN "deprovision" ELSE "provision"
  <2>1. frame'[Root] = Call(op, FALSE) /\ owner' = owner /\ \A n \in Nodes \ {Root} : frame'[n] = frame[n]
        BY Zenon, <1>1, <1>4 DEF PassStart, FrameType
  <2>2. op \in Operations /\ (op = "deprovision" => owner.deleting)
        BY Zenon DEF Operations
  <2> HIDE DEF op
  <2>3. Call(op, FALSE).op = op /\ Call(op, FALSE).background = FALSE
        BY Zenon, <2>2, CallFields
  <2>4. QED
        BY Zenon, <1>1, <2>1, <2>2, <2>3 DEF PassInv
<1>5. ASSUME NEW n \in Nodes, Step(n) PROVE PassInv'
  <2>1. frame'[Root].op = frame[Root].op
        BY Zenon, <1>5, RootCall
  <2>2. ASSUME NEW m \in Nodes, frame'[m].background PROVE m \in Discarded
    <3>1. frame[m].background \/ (m \in Kids(n) /\ (frame[n].background \/ n \in Background))
          BY Zenon, <1>5, <2>2, OwnCall, OtherCalls
    <3>2. Background \subseteq Nodes
          BY Zenon, TreeAssumption DEF Remotes
    <3>3. ASSUME m \in Kids(n), n \in Discarded \/ n \in Background PROVE m \in Discarded
          BY Zenon, <3>2, <3>3, UnderClosed DEF Discarded
    <3>4. QED
          BY Zenon, <3>1, <3>3 DEF PassInv
  <2>3. QED
        BY Zenon, <1>1, <2>1, <2>2 DEF PassInv
<1>6. CASE frame' = frame
      BY Zenon, <1>1, <1>6 DEF PassInv
<1>7. Edit \/ Delete \/ External \/ UNCHANGED vars => frame' = frame
      BY Zenon DEF Edit, Delete, External, Argo, Collect, treeVars, vars
<1>8. QED
      BY Zenon, <1>2, <1>3, <1>4, <1>5, <1>6, <1>7 DEF Next, Pass

-----------------------------------------------------------------------------
(***************************************************************************)
(* What stands behind a nil.                                               *)
(***************************************************************************)
\* A return gives the result, and a node that moves on is not done.
LEMMA ReturnGives ==
  ASSUME FrameType, NEW n \in Nodes
  PROVE  /\ \A r \in Results : Return(n, r) => frame'[n].at = "done" /\ frame'[n].result = r
         /\ \A at \in Places : frame' = Goto(n, at) => frame'[n].at = at
<1>1. ASSUME NEW r \in Results, Return(n, r) PROVE frame'[n].at = "done" /\ frame'[n].result = r
      BY Zenon, <1>1, ReturnFields
<1>2. ASSUME NEW at \in Places, frame' = Goto(n, at) PROVE frame'[n].at = at
      BY Zenon, <1>2, GotoFields DEF Bases
<1>3. QED
      BY Zenon, <1>1, <1>2

\* A group or a condition returns nil when all it called have returned nil.
LEMMA NilBelow ==
  ASSUME FrameType, TreeInv, NEW n \in Nodes, Serial(n) \/ Concurrent(n) \/ Conditional(n),
         frame'[n].at = "done", frame'[n].result = "nil"
  PROVE  \A k \in Kids(n) : frame[k].at = "done" /\ frame[k].result = "nil"
<1>1. CASE Serial(n)
  <2> DEFINE s == Order(n)
  <2>1. Goes(s, n)
    <3>1. s \in {Children[n], Reverse(Children[n])}
          BY Zenon DEF Order
    <3> HIDE DEF s
    <3>2. QED
          BY Zenon, <3>1, OrderKids
  <2>2. \A i \in DOMAIN s : s[i] \in Nodes /\ s[i] # n
        BY Zenon, <2>1, KidsAreNodes, KidsApart DEF Goes
  <2>3. \/ \E i \in DOMAIN s : frame[s[i]].result # "nil" /\ Return(n, frame[s[i]].result)
        \/ \A i \in DOMAIN s : frame[s[i]].result = "nil" /\ frame[s[i]].at = "done"
        \/ \E i \in DOMAIN s : frame' = [frame EXCEPT ![s[i]] = Call(frame[n].op, frame[n].background)]
        BY Zenon, <1>1 DEF Serial
  <2> HIDE DEF s
  <2>4. ASSUME NEW i \in DOMAIN s, frame[s[i]].result # "nil", Return(n, frame[s[i]].result) PROVE FALSE
    <3>1. frame[s[i]].result \in Results
          BY Zenon, <2>2, FrameFields
    <3>2. QED
          BY Zenon, <2>4, <3>1, ReturnGives
  <2>5. ASSUME NEW i \in DOMAIN s, frame' = [frame EXCEPT ![s[i]] = Call(frame[n].op, frame[n].background)] PROVE FALSE
    <3>1. frame'[n] = frame[n]
          BY Zenon, <2>2, <2>5 DEF FrameType
    <3>2. QED
          BY Zenon, <1>1, <3>1 DEF Serial
  <2>6. QED
        BY Zenon, <2>1, <2>3, <2>4, <2>5 DEF Goes
<1>2. CASE Concurrent(n)
  <2>1. CASE frame[n].at = "start"
    <3>1. frame'[n] = [frame[n] EXCEPT !.at = "wait"] /\ frame[n] \in Frames
          BY Zenon, <1>2, <2>1 DEF Concurrent, FrameType
    <3>2. frame'[n].at = "wait"
          BY Zenon, <3>1 DEF Frames
    <3>3. QED
          BY Zenon, <3>2
  <2>2. CASE frame[n].at # "start"
    <3>1. Kind[n] = "concurrent" /\ Return(n, frame[n].result) /\ \A k \in Kids(n) : frame[k].at = "done"
          BY Zenon, <1>2, <2>2 DEF Concurrent, Kids
    <3>2. frame[n].result = "nil"
          BY Zenon, <3>1, FrameFields, ReturnGives
    <3>3. QED
          BY Zenon, <3>1, <3>2 DEF TreeInv, KidOK
  <2>3. QED
        BY Zenon, <2>1, <2>2
<1>3. CASE Conditional(n)
  <2> DEFINE c == Children[n][1]
  <2>1. Kids(n) = {c} /\ c \in Nodes /\ c # n
        BY Zenon, <1>3, OnlyChild DEF Conditional
  <2>2. CASE frame[n].at = "start"
    <3>1. frame' = [frame EXCEPT ![n].at = "wait", ![c] = Call(Wanted(n), frame[n].background)]
          BY Zenon, <1>3, <2>2 DEF Conditional
    <3>2. frame'[n] = [frame[n] EXCEPT !.at = "wait"] /\ frame[n] \in Frames
          BY Zenon, <2>1, <3>1 DEF FrameType
    <3>3. frame'[n].at = "wait"
          BY Zenon, <3>2 DEF Frames
    <3>4. QED
          BY Zenon, <3>3
  <2>3. CASE frame[n].at # "start"
    <3>1. Return(n, frame[c].result) /\ frame[c].at = "done"
          BY Zenon, <1>3, <2>3 DEF Conditional
    <3>2. frame[c].result = "nil"
          BY Zenon, <2>1, <3>1, FrameFields, ReturnGives
    <3>3. QED
          BY Zenon, <2>1, <3>1, <3>2
  <2>4. QED
        BY Zenon, <2>2, <2>3
<1>4. QED
      BY Zenon, <1>1, <1>2, <1>3

\* A remote says nil for a provision when its child did, and for a
\* deprovision once it has come to the release, which it does when its child
\* said nil or the cluster is not there.
LEMMA RemoteNil ==
  ASSUME FrameType, TreeInv, NEW n \in Nodes, RemoteStep(n)
  PROVE  /\ frame'[n].at = "done" /\ frame'[n].result = "nil" =>
              \/ frame[n].op = "deprovision" /\ frame[n].at = "release"
              \/ /\ frame[n].op = "provision"
                 /\ frame[Children[n][1]].at = "done" /\ frame[Children[n][1]].result = "nil"
         /\ frame'[n].at = "release" =>
              /\ frame[n].op = "deprovision"
              /\ ~ClusterUp \/ (frame[Children[n][1]].at = "done" /\ frame[Children[n][1]].result = "nil")
<1> DEFINE c == Children[n][1]
<1>1. Kids(n) = {c} /\ c \in Nodes /\ c # n /\ frame[c].result \in Results
      BY Zenon, OnlyChild, FrameFields DEF RemoteStep
<1>2. ASSUME NEW b, Enter(n, b) PROVE frame'[n].at = "wait"
  <2>1. frame'[n] = [frame[n] EXCEPT !.at = "wait"] /\ frame[n] \in Frames
        BY Zenon, <1>1, <1>2 DEF Enter, FrameType
  <2>2. QED
        BY Zenon, <2>1 DEF Frames
<1>3. /\ \A r \in {"yield", "error"} : Return(n, r) => frame'[n].at = "done" /\ frame'[n].result # "nil"
      /\ Return(n, "nil") => frame'[n].at = "done"
      /\ Return(n, frame[c].result) => frame'[n].at = "done" /\ frame'[n].result = frame[c].result
      /\ frame' = Goto(n, "client") => frame'[n].at = "client"
      BY Zenon, <1>1, ReturnGives DEF Results, Places
<1> HIDE DEF c
<1>4. CASE ProvisionRemote(n)
  <2>1. Return(n, "yield") \/ Return(n, "error") \/ frame' = Goto(n, "client")
        BY Zenon, <1>4 DEF ProvisionRemote, Fail
  <2>2. QED
        BY Zenon, <1>3, <2>1
<1>5. CASE ProvisionOnRemote(n)
  <2>1. /\ frame[n].op = "provision"
        /\ \/ Return(n, "yield") \/ Return(n, "error") \/ Enter(n, frame[n].background)
           \/ Return(n, frame[c].result) /\ frame[c].at = "done"
        BY Zenon, <1>5 DEF ProvisionOnRemote, Fail, Active, c
  <2>2. QED
        BY Zenon, <1>2, <1>3, <2>1 DEF c
<1>6. CASE DeprovisionOnRemote(n)
  <2>1. /\ frame[n].op = "deprovision"
        /\ \/ Return(n, "error") \/ Enter(n, frame[n].background \/ n \in Background)
           \/ Return(n, frame[c].result) /\ frame[c].result # "nil"
           \/ ~ClusterUp \/ (frame[c].at = "done" /\ frame[c].result = "nil")
        BY Zenon, <1>6 DEF DeprovisionOnRemote, Fail, Active, c
  <2>2. frame' = Goto(n, "release") => frame'[n].at = "release"
        BY Zenon, ReturnGives DEF Places
  <2>3. \/ Return(n, "error") \/ Enter(n, frame[n].background \/ n \in Background)
        \/ Return(n, frame[c].result) /\ frame[c].result # "nil"
        \/ frame' = Goto(n, "release")
        BY Zenon, <1>6 DEF DeprovisionOnRemote, Fail, c
  <2>4. QED
        BY Zenon, <1>2, <1>3, <2>1, <2>2, <2>3 DEF c
<1>7. CASE DeprovisionRemote(n)
  <2>1. frame[n].op = "deprovision" /\ frame[n].at = "release" /\ (Return(n, "nil") \/ Return(n, "error"))
        BY Zenon, <1>7 DEF DeprovisionRemote, Fail, Active
  <2>2. QED
        BY Zenon, <1>3, <2>1
<1>8. QED
      BY Zenon, <1>4, <1>5, <1>6, <1>7 DEF RemoteStep

\* An application says nil for a deprovision when there is no object or
\* nobody waits, and for a provision when the object it has just written was
\* in sync and in some health.
LEMMA ApplicationNil ==
  ASSUME ~Lag, ArgoType, FrameType, TreeInv, NEW n \in Nodes, ApplicationStep(n),
         frame'[n].at = "done", frame'[n].result = "nil"
  PROVE  /\ frame[n].op = "deprovision" => apps[n] = <<>> \/ frame[n].background
         /\ frame[n].op = "provision" =>
              apps[n] # <<>> /\ apps[n][1].status.sync = "Synced" /\ apps[n][1].status.health # None
<1>1. n \in Apps /\ FrameOK(n)
      BY Zenon, TreeAssumption DEF ApplicationStep, TreeInv
<1>2. /\ ~Return(n, "error")
      /\ Return(n, Await(n)) => frame[n].background
      /\ \A s : Return(n, Judge(n, s)) => Judge(n, s) = "nil"
      /\ frame' # Goto(n, "create") /\ frame' # Goto(n, "delete")
  <2>1. Await(n) \in Results /\ (Await(n) = "nil" => frame[n].background)
        BY Zenon DEF Await, Results
  <2>2. \A s : Judge(n, s) \in Results
        BY Zenon DEF Judge, Results
  <2>3. QED
        BY Zenon, <2>1, <2>2, ReturnGives DEF Results, Places
<1>3. \A s : Judge(n, s) = "nil" => s.sync = "Synced" /\ s.health \in {"Degraded", "Healthy"}
      BY Zenon DEF Judge
<1>4. CASE Lookup(n)
  <2>1. ASSUME NEW o, frame' = [frame EXCEPT ![n].at = "patch", ![n].base = Base(o)] PROVE FALSE
    <3>1. frame'[n] = [frame[n] EXCEPT !.at = "patch", !.base = Base(o)] /\ frame[n] \in Frames
          BY Zenon, <2>1 DEF FrameType
    <3>2. frame'[n].at = "patch"
          BY Zenon, <3>1 DEF Frames
    <3>3. QED
          BY Zenon, <3>2
  <2>2. \/ GetHelmApplication(n).error = "NotFound" /\ frame[n].op # "provision"
        \/ frame[n].op = "deprovision" /\ Return(n, Await(n))
        BY Zenon, <1>2, <1>4, <2>1 DEF Lookup, Fail
  <2>3. QED
        BY Zenon, <1>1, <1>2, <2>2, Finds
<1>5. CASE Create(n)
  <2>1. NoStatus.sync = None
        BY Zenon DEF NoStatus
  <2>2. \E spec \in Required(n, gen) : Return(n, Judge(n, NoStatus))
        BY Zenon, <1>2, <1>5 DEF Create, Fail
  <2>3. QED
        BY Zenon, <1>2, <1>3, <2>1, <2>2, NoneAssumption
<1>6. CASE Update(n)
  <2>1. frame[n].op = "provision" /\ apps[n] # <<>> /\ Return(n, Judge(n, apps[n][1].status))
        BY Zenon, <1>2, <1>6 DEF Update, Fail, Active
  <2>2. QED
        BY Zenon, <1>2, <1>3, <2>1, NoneAssumption
<1>7. CASE Finalize(n)
      BY Zenon, <1>2, <1>7 DEF Finalize, Fail
<1>8. CASE Discard(n)
  <2>1. frame[n].at = "delete" /\ Return(n, Await(n))
        BY Zenon, <1>2, <1>8 DEF Discard, Fail
  <2>2. QED
        BY Zenon, <1>1, <1>2, <2>1 DEF FrameOK
<1>9. QED
      BY Zenon, <1>4, <1>5, <1>6, <1>7, <1>8 DEF ApplicationStep
-----------------------------------------------------------------------------
(***************************************************************************)
(* Teardown. What is under a node whose teardown is over is gone, but for  *)
(* what nobody waits for; and a cluster that is not there has nothing on   *)
(* it. The latter is so when every remote comes after the application of   *)
(* the cluster and all these are always wanted.                            *)
(***************************************************************************)
Removed(n) == \A b \in (Apps \cap Under[n]) \ Discarded : apps[b] = <<>>

Torn(n) ==
  frame[n].op = "deprovision" /\ (frame[n].at = "release" \/ (frame[n].at = "done" /\ frame[n].result = "nil"))

TornInv == \A n \in Nodes : Torn(n) => Removed(n)

ClusterFirst ==
  /\ ClusterApp \in Apps /\ NeededIn[ClusterApp] = 1..MaxGen
  /\ \A n \in Remotes : <<ClusterApp, n>> \in InOrder /\ NeededIn[n] = 1..MaxGen
  /\ \A b \in Remote : b \in Apps /\ \E n \in Remotes : b \in Under[n]

ClusterInv ==
  /\ ~ClusterUp => \A n \in Remotes : Removed(n) /\ ~(frame[n].at = "wait" /\ frame[n].op = "provision")
  /\ apps[ClusterApp] # <<>> /\ apps[ClusterApp][1].deleting =>
       owner.deleting /\ frame[Root].op # "provision" /\ \A n \in Remotes : Removed(n)

\* An application appears when it is created, in a call of Provision.
LEMMA Appears ==
  ASSUME ~Lag, BaseInv, [Next]_vars, NEW b \in Apps, apps[b] = <<>>, apps'[b] # <<>>
  PROVE  b \in Nodes /\ Step(b) /\ Creates(b) /\ frame[b].at = "create" /\ frame[b].op = "provision"
<1>1. b \in Nodes
      BY Zenon, TreeAssumption
<1>2. PICK a \in Apps : \/ Step(a) /\ (Creates(a) \/ Patches(a) \/ Deletes(a))
                        \/ Reports(a) \/ Reaps(a)
      BY Zenon, NextApps DEF BaseInv
<1>3. a = b
      BY Zenon, <1>2, OtherApps DEF BaseInv
<1>4. Step(b) /\ Creates(b)
      BY Zenon, <1>2, <1>3 DEF Patches, Deletes, Reports, Reaps
<1>5. frame[b].at = "create" /\ FrameOK(b)
      BY Zenon, <1>1, <1>4 DEF Creates, BaseInv, TreeInv
<1>6. QED
      BY Zenon, <1>1, <1>4, <1>5 DEF FrameOK

\* What has been removed under a node that is torn down stays removed.
LEMMA RemovedStays ==
  ASSUME ~Lag, BaseInv, [Next]_vars, NEW n \in Nodes, Removed(n), frame[n].op # "provision"
  PROVE  Removed(n)'
<1> SUFFICES ASSUME NEW b \in (Apps \cap Under[n]) \ Discarded, apps'[b] # <<>>
             PROVE  FALSE
    BY Zenon DEF Removed
<1>1. apps[b] = <<>>
      BY Zenon DEF Removed
<1>2. b \in Nodes /\ frame[b].at = "create" /\ frame[b].op = "provision"
      BY Zenon, <1>1, Appears
<1>3. frame[n].op = "deprovision"
  <2>1. n = b \/ Running(n)
        BY Zenon, <1>2, CallerRuns DEF BaseInv
  <2>2. frame[n].at # "idle"
        BY Zenon, <1>2, <2>1 DEF Running
  <2>3. QED
        BY Zenon, <2>2, FrameFields DEF BaseInv
<1>4. QED
      BY Zenon, <1>2, <1>3, TearsDown DEF BaseInv

\* Gone below is gone.
LEMMA RemovedBelow ==
  ASSUME NEW n \in Nodes, n \notin Apps, \A k \in Kids(n) : Removed(k)
  PROVE  Removed(n)
<1> SUFFICES ASSUME NEW b \in (Apps \cap Under[n]) \ Discarded
             PROVE  apps[b] = <<>>
    BY Zenon DEF Removed
<1>1. PICK k \in Kids(n) : b \in Under[k]
      BY Zenon, UnderKids
<1>2. QED
      BY Zenon, <1>1 DEF Removed

\* When all children are torn down, nothing is left.
LEMMA KidsTorn ==
  ASSUME TreeInv, TornInv, NEW n \in Nodes, n \notin Apps, frame[n].op = "deprovision",
         \A k \in Kids(n) : frame[k].at = "done" /\ frame[k].result = "nil"
  PROVE  Removed(n)
<1>1. ASSUME NEW k \in Kids(n) PROVE Removed(k)
  <2>1. k \in Nodes /\ k \in Under[n]
        BY Zenon, KidsAreNodes, UnderClosed
  <2>2. frame[k].op = "deprovision"
        BY Zenon, <2>1, TearsDown
  <2>3. QED
        BY Zenon, <2>1, <2>2 DEF TornInv, Torn
<1>2. QED
      BY Zenon, <1>1, RemovedBelow

\* A node whose teardown ends has nothing left under it.
LEMMA TornNow ==
  ASSUME ~Lag, BaseInv, PassInv, TornInv, ClusterInv, NEW n \in Nodes, Step(n), Torn(n)'
  PROVE  Removed(n)
<1>1. frame[n].op = "deprovision"
      BY Zenon, OwnCall DEF Torn, BaseInv
<1>2. CASE Serial(n) \/ Concurrent(n) \/ Conditional(n)
  <2>1. n \notin Apps /\ Kind[n] # "remote" /\ FrameOK(n)'
    <3>1. TreeInv'
      <4>1. CASE Serial(n)
            BY Zenon, <4>1, SerialTree DEF BaseInv
      <4>2. CASE Concurrent(n)
            BY Zenon, <4>2, ConcurrentTree DEF BaseInv
      <4>3. CASE Conditional(n)
            BY Zenon, <4>3, ConditionalTree DEF BaseInv
      <4>4. QED
            BY Zenon, <1>2, <4>1, <4>2, <4>3
    <3>2. QED
          BY Zenon, <1>2, <3>1, TreeAssumption DEF Serial, Concurrent, Conditional, TreeInv
  <2>2. frame'[n].at # "release"
    <3>1. Kind[n] \in {"serial", "concurrent", "conditional"}
          BY Zenon, <1>2 DEF Serial, Concurrent, Conditional
    <3>2. QED
          BY <2>1, <3>1 DEF FrameOK, PlacesOf
  <2>3. QED
        BY Zenon, <1>1, <1>2, <2>1, <2>2, NilBelow, KidsTorn DEF Torn, BaseInv
<1>3. CASE RemoteStep(n)
  <2> DEFINE c == Children[n][1]
  <2>1. n \in Remotes /\ n \notin Apps /\ Kids(n) = {c}
        BY Zenon, <1>3, OnlyChild, TreeAssumption DEF RemoteStep, Remotes
  <2>2. \/ Torn(n) \/ ~ClusterUp \/ (frame[c].at = "done" /\ frame[c].result = "nil")
        BY Zenon, <1>1, <1>3, RemoteNil DEF Torn, BaseInv
  <2> HIDE DEF c
  <2>3. QED
        BY Zenon, <1>1, <2>1, <2>2, KidsTorn DEF TornInv, ClusterInv, BaseInv
<1>4. CASE ApplicationStep(n)
  <2>1. n \in Apps /\ Kids(n) = {} /\ Kind[n] = "application"
        BY Zenon, <1>4, LeafKids, TreeAssumption DEF ApplicationStep
  <2>2. frame'[n].at = "done" /\ frame'[n].result = "nil"
    <3>1. FrameOK(n)'
          BY Zenon, <1>4, ApplicationTree DEF BaseInv, TreeInv
    <3>2. QED
          BY SMTT(30), <2>1, <3>1 DEF Torn, FrameOK, PlacesOf
  <2>3. apps[n] = <<>> \/ n \in Discarded
        BY Zenon, <1>1, <1>4, <2>2, ApplicationNil DEF BaseInv, PassInv
  <2>4. \A b \in Under[n] : b = n
        BY Zenon, <2>1, UnderKids
  <2>5. QED
        BY Zenon, <2>3, <2>4 DEF Removed
<1>5. CASE ResourceStep(n)
  <2>1. n \notin Apps /\ Kids(n) = {}
        BY Zenon, <1>5, LeafKids, TreeAssumption DEF ResourceStep
  <2>2. QED
        BY Zenon, <2>1, RemovedBelow
<1>6. QED
      BY Zenon, <1>2, <1>3, <1>4, <1>5 DEF Step

\* A call that is under way was moved by its node or is as it was, but for
\* an error it may have noted.
LEMMA CallsKept ==
  ASSUME ~Lag, BaseInv, [Next]_vars, NEW n \in Nodes, frame'[n].at \notin {"idle", "start"}, ~Step(n)
  PROVE  /\ frame'[n].at = frame[n].at /\ frame'[n].op = frame[n].op
         /\ frame'[n].result = "nil" => frame[n].result = "nil"
<1> USE DEF BaseInv
<1>1. CASE Crash \/ PassEnd
  <2>1. frame'[n] = Idle \/ frame'[n] = frame[n]
        BY Zenon, <1>1 DEF Crash, PassEnd, FrameType
  <2>2. QED
        BY Zenon, <2>1, IdleFields
<1>2. CASE PassStart
  <2> DEFINE op == IF owner.deleting THEN "deprovision" ELSE "provision"
  <2>1. frame'[n] = Call(op, FALSE) \/ frame'[n] = frame[n]
        BY Zenon, <1>2 DEF PassStart, FrameType
  <2>2. Call(op, FALSE).at = "start"
        BY Zenon, CallFields DEF Operations
  <2> HIDE DEF op
  <2>3. QED
        BY Zenon, <2>1, <2>2
<1>3. ASSUME NEW m \in Nodes, Step(m)
      PROVE  /\ frame'[n].at = frame[n].at /\ frame'[n].op = frame[n].op
             /\ frame'[n].result = "nil" => frame[n].result = "nil"
      BY Zenon, <1>3, OtherCalls
<1>4. Edit \/ Delete \/ External \/ UNCHANGED vars => frame' = frame
      BY Zenon DEF Edit, Delete, External, Argo, Collect, treeVars, vars
<1>5. QED
      BY Zenon, <1>1, <1>2, <1>3, <1>4 DEF Next, Pass

\* TornInv is kept.
LEMMA TornInvStep ==
  ASSUME ~Lag, BaseInv, PassInv, TornInv, ClusterInv, [Next]_vars
  PROVE  TornInv'
<1> SUFFICES ASSUME NEW n \in Nodes, Torn(n)' PROVE Removed(n)'
    BY Zenon DEF TornInv
<1>1. CASE Step(n)
  <2>1. Removed(n) /\ frame[n].op = "deprovision"
        BY Zenon, <1>1, TornNow, OwnCall DEF Torn, BaseInv
  <2>2. QED
        BY Zenon, <2>1, RemovedStays
<1>2. CASE ~Step(n)
  <2>1. Torn(n)
        BY Zenon, <1>2, CallsKept DEF Torn
  <2>2. Removed(n) /\ frame[n].op = "deprovision"
        BY Zenon, <2>1 DEF TornInv, Torn
  <2>3. QED
        BY Zenon, <2>2, RemovedStays
<1>3. QED
      BY Zenon, <1>1, <1>2

\* In a serial group, when something under a member is called, the members
\* before it in the order of the pass have returned nil.
LEMMA SerialBefore ==
  ASSUME FrameType, TreeInv, NEW n \in Nodes, Kind[n] = "serial",
         NEW i \in DOMAIN Order(n), NEW j \in DOMAIN Order(n), i < j,
         NEW x \in Under[Order(n)[j]], frame[x].at # "idle"
  PROVE  /\ Order(n)[i] \in Kids(n) /\ frame[Order(n)[i]].at = "done" /\ frame[Order(n)[i]].result = "nil"
         /\ frame[n].at # "idle" /\ frame[Order(n)[i]].op = frame[n].op
<1> DEFINE s == Order(n)
<1>1. Goes(s, n)
  <2>1. s \in {Children[n], Reverse(Children[n])}
        BY Zenon DEF Order
  <2> HIDE DEF s
  <2>2. QED
        BY Zenon, <2>1, OrderKids
<1>2. s[i] \in Kids(n) /\ s[j] \in Kids(n) /\ s[i] \in Nodes /\ s[j] \in Nodes
      BY Zenon, <1>1, KidsAreNodes DEF Goes
<1>3. SerialOK(n) /\ KidOK(n, s[i]) /\ KidOK(n, s[j])
      BY Zenon, <1>2 DEF TreeInv
<1>4. frame[s[j]].at # "idle"
      BY Zenon, <1>2, CallerRuns DEF Running
<1>5. frame[s[i]].at = "done" /\ frame[s[i]].result = "nil"
      BY Zenon, <1>3, <1>4 DEF SerialOK
<1> HIDE DEF s
<1>6. frame[n].at # "idle" /\ frame[s[i]].op = frame[n].op
      BY Zenon, <1>3, <1>5 DEF KidOK
<1>7. QED
      BY Zenon, <1>2, <1>5, <1>6 DEF s

\* In a teardown what comes later has been torn down before.
LEMMA TornAfter ==
  ASSUME FrameType, TreeInv, frame[Root].op = "deprovision", NEW a \in Nodes, frame[a].at # "idle",
         NEW b \in Nodes, <<a, b>> \in InOrder
  PROVE  \E c \in Nodes : b \in Under[c] /\ Torn(c)
<1>0. PICK n \in Nodes : \E i, j \in DOMAIN Children[n] :
        Kind[n] = "serial" /\ i < j /\ a \in Under[Children[n][i]] /\ b \in Under[Children[n][j]]
      BY Zenon DEF InOrder
<1>1. PICK i \in DOMAIN Children[n], j \in DOMAIN Children[n] :
        Kind[n] = "serial" /\ i < j /\ a \in Under[Children[n][i]] /\ b \in Under[Children[n][j]]
      BY Zenon, <1>0
<1> DEFINE len == Len(Children[n])
           k   == (len - i) + 1
           l   == (len - j) + 1
           c   == Children[n][j]
<1>2. len \in Nat /\ DOMAIN Children[n] = 1..len /\ Children[n][i] \in Kids(n) /\ c \in Kids(n)
      BY TreeAssumption DEF Kids, Range
<1>3. Children[n][i] \in Nodes /\ c \in Nodes /\ n \in Under[Root] /\ Root \in Nodes
      BY Zenon, <1>2, KidsAreNodes, TreeAssumption
<1>4. frame[n].at # "idle"
  <2>1. frame[Children[n][i]].at # "idle"
        BY Zenon, <1>1, <1>3, CallerRuns DEF Running
  <2>2. KidOK(n, Children[n][i])
        BY Zenon, <1>2 DEF TreeInv
  <2>3. QED
        BY Zenon, <2>1, <2>2 DEF KidOK
<1>5. frame[n].op = "deprovision"
      BY Zenon, <1>3, <1>4, TearsDown
<1>6. Order(n) = [x \in 1..len |-> Children[n][(len - x) + 1]]
      BY Zenon, <1>5 DEF Order, Reverse
<1>7. k \in 1..len /\ l \in 1..len /\ l < k /\ (len - k) + 1 = i /\ (len - l) + 1 = j
  <2>1. len \in Nat /\ i \in 1..len /\ j \in 1..len /\ i < j
        BY Zenon, <1>1, <1>2
  <2> HIDE DEF len
  <2>2. QED
        BY <2>1
<1>8. k \in DOMAIN Order(n) /\ l \in DOMAIN Order(n) /\ Order(n)[k] = Children[n][i] /\ Order(n)[l] = c
      BY Zenon, <1>6, <1>7
<1> HIDE DEF len, k, l, c
<1>9. frame[c].at = "done" /\ frame[c].result = "nil" /\ frame[c].op = "deprovision"
  <2>1. a \in Under[Order(n)[k]]
        BY Zenon, <1>1, <1>8
  <2>2. l < k
        BY Zenon, <1>7
  <2>3. Kind[n] = "serial"
        BY Zenon, <1>1
  <2>4. /\ frame[Order(n)[l]].at = "done" /\ frame[Order(n)[l]].result = "nil"
        /\ frame[Order(n)[l]].op = frame[n].op
        BY Zenon, <1>8, <2>1, <2>2, <2>3, SerialBefore
  <2>5. QED
        BY Zenon, <1>5, <1>8, <2>4
<1>10. QED
       BY Zenon, <1>1, <1>3, <1>9 DEF Torn, c

\* What is removed stays so while the root does not set up.
LEMMA RemovedOn ==
  ASSUME ~Lag, BaseInv, [Next]_vars, NEW n \in Nodes, Removed(n), frame[Root].op # "provision"
  PROVE  Removed(n)'
<1> SUFFICES ASSUME NEW b \in (Apps \cap Under[n]) \ Discarded, apps'[b] # <<>>
             PROVE  FALSE
    BY Zenon DEF Removed
<1>1. apps[b] = <<>>
      BY Zenon DEF Removed
<1>2. b \in Nodes /\ frame[b].op = "provision" /\ Kind[b] = "application"
      BY Zenon, <1>1, Appears, TreeAssumption
<1>3. QED
      BY Zenon, <1>2, SetsUp, TreeAssumption DEF BaseInv

\* What is removed under a node is removed under those below it.
LEMMA RemovedUnder ==
  ASSUME NEW n \in Nodes, NEW m \in Under[n], Removed(n)
  PROVE  Removed(m)
  BY Zenon, UnderTransitive DEF Removed

\* An application on a remote is created while the remote waits for it.
LEMMA RemoteWaits ==
  ASSUME BaseInv, NEW n \in Remotes, NEW b \in Apps, b \in Under[n], frame[b].op = "provision"
  PROVE  frame[n].at = "wait" /\ frame[n].op = "provision"
<1> USE DEF BaseInv
<1>1. n \in Nodes /\ b \in Nodes /\ Kind[n] = "remote" /\ Kind[b] = "application" /\ b # n
      BY Zenon, TreeAssumption DEF Remotes
<1>2. PICK k \in Kids(n) : b \in Under[k]
      BY Zenon, <1>1, UnderKids
<1>3. frame[n].op = "provision" /\ k \in Nodes /\ frame[k].op = "provision"
      BY Zenon, <1>1, <1>2, SetsUp, KidsAreNodes
<1>4. frame[k].at # "idle" /\ KidOK(n, k) /\ FrameOK(n)
      BY Zenon, <1>1, <1>2, <1>3, IdleFields DEF TreeInv, FrameOK
<1>5. QED
      BY Zenon, <1>1, <1>3, <1>4 DEF KidOK, FrameOK

\* A remote provisions what is on it only when the cluster is there.
LEMMA RemoteEnters ==
  ASSUME FrameType, TreeInv, NEW n \in Nodes, RemoteStep(n), frame[n].op = "provision", frame'[n].at = "wait"
  PROVE  ClusterUp
<1>1. /\ \A r \in Results : ~Return(n, r)
      /\ frame' # Goto(n, "client")
      BY Zenon, ReturnGives DEF Places
<1>2. frame[Children[n][1]].result \in Results
      BY Zenon, OnlyChild, FrameFields DEF RemoteStep
<1>3. ProvisionRemote(n) \/ ProvisionOnRemote(n)
      BY Zenon DEF RemoteStep, DeprovisionOnRemote, DeprovisionRemote, Active
<1>4. ~ProvisionRemote(n)
      BY Zenon, <1>1 DEF ProvisionRemote, Fail, Results
<1>5. QED
      BY Zenon, <1>1, <1>2, <1>3, <1>4 DEF ProvisionOnRemote, Fail, Results

\* The root goes on with what it does, begins a pass, or stops.
LEMMA RootGoesOn ==
  ASSUME ~Lag, BaseInv, [Next]_vars
  PROVE  \/ frame'[Root].op = frame[Root].op
         \/ frame'[Root].op = "none"
         \/ PassStart /\ frame'[Root].op = IF owner.deleting THEN "deprovision" ELSE "provision"
<1> USE DEF BaseInv
<1>1. Root \in Nodes
      BY Zenon, TreeAssumption
<1>2. CASE Crash \/ PassEnd
  <2>1. frame'[Root] = Idle
        BY Zenon, <1>1, <1>2 DEF Crash, PassEnd, FrameType
  <2>2. QED
        BY Zenon, <2>1, IdleFields
<1>3. CASE PassStart
  <2> DEFINE op == IF owner.deleting THEN "deprovision" ELSE "provision"
  <2>1. frame'[Root] = Call(op, FALSE)
        BY Zenon, <1>1, <1>3 DEF PassStart, FrameType
  <2>2. Call(op, FALSE).op = op
        BY Zenon, CallFields DEF Operations
  <2>3. QED
        BY Zenon, <1>3, <2>1, <2>2
<1>4. ASSUME NEW n \in Nodes, Step(n) PROVE frame'[Root].op = frame[Root].op
      BY Zenon, <1>4, RootCall
<1>5. Edit \/ Delete \/ External \/ UNCHANGED vars => frame' = frame
      BY Zenon DEF Edit, Delete, External, Argo, Collect, treeVars, vars
<1>6. QED
      BY Zenon, <1>2, <1>3, <1>4, <1>5 DEF Next, Pass

\* An object is marked as being deleted by a call of Deprovision.
LEMMA Marked ==
  ASSUME ~Lag, BaseInv, [Next]_vars, NEW a \in Apps, apps'[a] # <<>>, apps'[a][1].deleting
  PROVE  \/ apps[a] # <<>> /\ apps[a][1].deleting
         \/ a \in Nodes /\ Step(a) /\ frame[a].at = "delete" /\ frame[a].op = "deprovision"
<1> USE DEF BaseInv
<1>1. a \in Nodes /\ FrameOK(a)
      BY Zenon, TreeAssumption DEF TreeInv
<1>2. ASSUME NEW s, Put(a, s) PROVE apps'[a] = s
      BY Zenon, <1>2 DEF Put, ArgoType
<1>3. \A o : <<o>>[1] = o
      BY Zenon
<1>4. CASE apps' = apps
      BY Zenon, <1>4
<1>5. ASSUME NEW x \in Apps, x # a, Creates(x) \/ Patches(x) \/ Deletes(x) \/ Reports(x) \/ Reaps(x)
      PROVE  apps'[a] = apps[a]
      BY Zenon, <1>5, OtherApps
<1>6. CASE Creates(a)
  <2>1. PICK spec \in Required(a, gen) : apps'[a] = <<NewObject(spec)>>
        BY Zenon, <1>2, <1>6 DEF Creates
  <2>2. spec \in Specs
        BY Zenon, RequiredSpecs DEF OwnerType
  <2>3. apps'[a][1] = NewObject(spec)
        BY Zenon, <1>3, <2>1
  <2>4. NewObject(spec).deleting = FALSE
        BY Zenon, <2>2, NewFields
  <2>5. QED
        BY Zenon, <2>3, <2>4
<1>7. CASE Patches(a)
      BY Zenon, <1>2, <1>3, <1>7 DEF Patches
<1>8. CASE Reports(a)
      BY Zenon, <1>2, <1>3, <1>8 DEF Reports
<1>9. CASE Reaps(a)
      BY Zenon, <1>2, <1>9 DEF Reaps
<1>10. CASE Deletes(a) /\ Step(a)
       BY Zenon, <1>1, <1>10 DEF Deletes, FrameOK
<1>11. QED
       BY Zenon, <1>4, <1>5, <1>6, <1>7, <1>8, <1>9, <1>10, NextApps

\* The cluster goes when its application, being deleted, is reaped.
LEMMA ClusterGoes ==
  ASSUME ~Lag, BaseInv, [Next]_vars, ClusterApp \in Apps, ClusterUp, ~ClusterUp'
  PROVE  frame' = frame /\ apps[ClusterApp] # <<>> /\ apps[ClusterApp][1].deleting
<1> USE DEF BaseInv
<1>1. workload' # workload
      BY Zenon DEF ClusterUp
<1>2. PICK a \in Apps : UNCHANGED treeVars /\ (Reports(a) \/ Reaps(a))
      BY Zenon, <1>1, NextApps
<1>3. frame' = frame
      BY Zenon, <1>2 DEF treeVars
<1>4. CASE Reports(a)
  <2>1. PICK o \in Objects : o.spec = apps[a][1].spec /\ workload' = [workload EXCEPT ![a] = o.spec]
        BY Zenon, <1>1, <1>4 DEF Reports
  <2>2. apps[a] # <<>>
        BY Zenon, <1>4 DEF Reports
  <2>3. PICK g \in 1..owner.gen : apps[a][1].spec \in Required(a, g)
        BY Zenon, <2>2 DEF SpecInv
  <2>4. g \in 1..MaxGen
    <3>1. owner.gen \in 1..MaxGen
          BY Zenon DEF OwnerType
    <3>2. QED
          BY <2>3, <3>1, BoundAssumption
  <2>5. o.spec # None
        BY Zenon, <2>1, <2>3, <2>4, NoneAssumption
  <2>6. workload'[ClusterApp] = IF a = ClusterApp THEN o.spec ELSE workload[ClusterApp]
        BY Zenon, <2>1 DEF ArgoType
  <2>7. QED
        BY Zenon, <2>5, <2>6 DEF ClusterUp
<1>5. CASE Reaps(a)
  <2>1. a = ClusterApp
        BY Zenon, <1>1, <1>5 DEF Reaps, ClusterUp
  <2>2. QED
        BY Zenon, <1>3, <1>5, <2>1 DEF Reaps
<1>6. QED
      BY Zenon, <1>2, <1>4, <1>5

\* ClusterInv is kept.
LEMMA ClusterInvStep ==
  ASSUME ~Lag, ClusterFirst, BaseInv, PassInv, TornInv, ClusterInv, [Next]_vars
  PROVE  ClusterInv'
<1>1. ClusterApp \in Apps /\ ClusterApp \in Nodes /\ Root \in Nodes /\ Remotes \subseteq Nodes
      BY Zenon, TreeAssumption DEF ClusterFirst, Remotes
<1>2. ASSUME ~ClusterUp', NEW n \in Remotes
      PROVE  Removed(n)' /\ ~(frame'[n].at = "wait" /\ frame'[n].op = "provision")
  <2>1. CASE ClusterUp
    <3>1. frame' = frame /\ frame[Root].op # "provision" /\ Removed(n)
          BY Zenon, <1>1, <1>2, <2>1, ClusterGoes DEF ClusterInv
    <3>2. frame[n].op # "provision"
      <4>1. n \in Nodes /\ n \in Under[Root] /\ Kind[n] = "remote"
            BY Zenon, TreeAssumption DEF Remotes
      <4>2. QED
            BY Zenon, <1>1, <3>1, <4>1, SetsUp DEF BaseInv
    <3>3. QED
          BY Zenon, <1>1, <3>1, <3>2, RemovedOn
  <2>2. CASE ~ClusterUp
    <3>1. Removed(n) /\ ~(frame[n].at = "wait" /\ frame[n].op = "provision") /\ n \in Nodes
          BY Zenon, <1>1, <2>2 DEF ClusterInv
    <3>2. Removed(n)'
      <4> SUFFICES ASSUME NEW b \in (Apps \cap Under[n]) \ Discarded, apps'[b] # <<>>
                   PROVE  FALSE
          BY Zenon DEF Removed
      <4>1. apps[b] = <<>>
            BY Zenon, <3>1 DEF Removed
      <4>2. frame[b].op = "provision"
            BY Zenon, <4>1, Appears
      <4>3. QED
            BY Zenon, <3>1, <4>2, RemoteWaits
    <3>3. ASSUME frame'[n].at = "wait", frame'[n].op = "provision" PROVE FALSE
      <4>1. Step(n)
            BY Zenon, <3>1, <3>3, CallsKept
      <4>2. RemoteStep(n)
            BY Zenon, <4>1 DEF Remotes, Step, Serial, Concurrent, Conditional, ApplicationStep, ResourceStep
      <4>3. frame[n].op = "provision"
            BY Zenon, <3>1, <3>3, <4>1, OwnCall DEF BaseInv
      <4>4. QED
            BY Zenon, <2>2, <3>1, <3>3, <4>2, <4>3, RemoteEnters DEF BaseInv
    <3>4. QED
          BY Zenon, <3>2, <3>3
  <2>3. QED
        BY Zenon, <2>1, <2>2
<1>3. ASSUME apps'[ClusterApp] # <<>>, apps'[ClusterApp][1].deleting
      PROVE  owner'.deleting /\ frame'[Root].op # "provision" /\ \A n \in Remotes : Removed(n)'
  <2>1. owner.deleting /\ frame[Root].op # "provision" /\ \A n \in Remotes : Removed(n)
    <3>1. CASE apps[ClusterApp] # <<>> /\ apps[ClusterApp][1].deleting
          BY Zenon, <3>1 DEF ClusterInv
    <3>2. CASE frame[ClusterApp].at = "delete" /\ frame[ClusterApp].op = "deprovision"
      <4>1. gen \in NeededIn[ClusterApp]
            BY Zenon DEF ClusterFirst, BaseInv, OwnerType
      <4>2. frame[Root].op = "deprovision"
            BY Zenon, <1>1, <3>2, <4>1, NeededSetsUp DEF BaseInv
      <4>3. ASSUME NEW n \in Remotes PROVE Removed(n)
        <5>1. n \in Nodes /\ <<ClusterApp, n>> \in InOrder
              BY Zenon, <1>1 DEF ClusterFirst
        <5>2. PICK c \in Nodes : n \in Under[c] /\ Torn(c)
              BY Zenon, <1>1, <3>2, <4>2, <5>1, TornAfter DEF BaseInv
        <5>3. QED
              BY Zenon, <5>2, RemovedUnder DEF TornInv
      <4>4. QED
            BY Zenon, <4>2, <4>3 DEF PassInv
    <3>3. QED
          BY Zenon, <1>1, <1>3, <3>1, <3>2, Marked
  <2>2. owner'.deleting
        BY Zenon, <2>1, OwnerTypeStep DEF BaseInv
  <2>3. frame'[Root].op # "provision"
        BY Zenon, <2>1, RootGoesOn
  <2>4. QED
        BY Zenon, <1>1, <2>1, <2>2, <2>3, RemovedOn
<1>4. Remotes' = Remotes
      BY Zenon DEF Remotes
<1>5. QED
      BY Zenon, <1>2, <1>3, <1>4 DEF ClusterInv
=============================================================================

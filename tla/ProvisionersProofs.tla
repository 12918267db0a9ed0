------------------------- MODULE ProvisionersProofs -------------------------
(***************************************************************************)
(* Theorems about trees of provisioners: what is written and what is       *)
(* listed, and the types, with the count that registers a cluster.         *)
(***************************************************************************)
EXTENDS OrderProofs, FiniteSetTheorems

(***************************************************************************)
(* Provision is idempotent, where no map's order shows: a generator that   *)
(* yields one parameter at most makes one package of a generation.         *)
(***************************************************************************)
OneParameter ==
  \A a \in Apps : Generator[a].parameters = {} \/ \E p : Generator[a].parameters = {p}

\* There is one way to order a set of at most one member.
LEMMA OneOrder ==
  ASSUME NEW S, S = {} \/ \E p : S = {p}, NEW s \in Orders(S), NEW t \in Orders(S)
  PROVE  s = t
<1>1. CASE S = {}
  <2>1. Cardinality(S) = 0
        BY Zenon, <1>1, FS_EmptySet
  <2>2. s \in [1..0 -> {}] /\ t \in [1..0 -> {}]
        BY Zenon, <1>1, <2>1 DEF Orders, Injection, IsInjective
  <2>3. QED
        BY <2>2
<1>2. ASSUME NEW p, S = {p} PROVE s = t
  <2>1. Cardinality(S) = 1
        BY Zenon, <1>2, FS_Singleton
  <2>2. s \in [1..1 -> {p}] /\ t \in [1..1 -> {p}]
        BY Zenon, <1>2, <2>1 DEF Orders, Injection, IsInjective
  <2>3. QED
        BY <2>2
<1>3. QED
      BY Zenon, <1>1, <1>2

\* One package is required of an application at a generation.
LEMMA OneRequired ==
  ASSUME OneParameter, NEW a \in Apps, NEW g \in 1..MaxGen, NEW s \in Required(a, g), NEW t \in Required(a, g)
  PROVE  s = t
<1> DEFINE template == GetVersion(Versions[a], WantedVersion[a][g])
           cluster  == IF a \in Remote THEN RemoteID ELSE None
           degraded == a \in AllowDegraded
<1>1. Required(a, g) = IF template = None THEN {}
                       ELSE {GenerateApplication(p) : p \in Packages(template, Generator[a], cluster, None, degraded)}
      BY Zenon DEF Required, RequiredOf
<1> HIDE DEF template, cluster, degraded
<1>2. \A x, y \in Parameters(template, Generator[a]) : x = y
      BY Zenon, OneOrder DEF Parameters, OneParameter
<1>3. \A x, y \in Packages(template, Generator[a], cluster, None, degraded) : x = y
      BY Zenon, <1>2 DEF Packages
<1>4. QED
      BY <1>1, <1>3

\* A step that writes a specification writes the required one again.
LEMMA IdempotentStep ==
  ASSUME ~Lag, OneParameter, BaseInv, [Next]_vars, NEW a \in Apps, apps[a] # <<>>, apps'[a] # <<>>,
         apps[a][1].spec \in Required(a, gen)
  PROVE  apps'[a][1].spec = apps[a][1].spec
<1> USE DEF BaseInv
<1>1. ASSUME NEW s, Put(a, s) PROVE apps'[a] = s
      BY Zenon, <1>1 DEF Put, ArgoType
<1>2. \A o : <<o>>[1] = o
      BY Zenon
<1>3. gen \in 1..MaxGen
      BY Zenon DEF OwnerType
<1>4. CASE Patches(a)
  <2>1. PICK o \in Objects : apps'[a] = <<o>> /\ (o.spec = apps[a][1].spec \/ o.spec \in Required(a, gen))
        BY Zenon, <1>1, <1>4 DEF Patches
  <2>2. QED
        BY <1>2, <1>3, <2>1, OneRequired
<1>5. CASE Deletes(a) \/ Reports(a) \/ Reaps(a)
  <2>1. PICK o \in Objects : apps'[a] = <<o>> /\ o.spec = apps[a][1].spec
        BY Zenon, <1>1, <1>5 DEF Deletes, Reports, Reaps
  <2>2. QED
        BY Zenon, <1>2, <2>1
<1>6. ~Creates(a)
      BY Zenon DEF Creates
<1>7. QED
      BY Zenon, <1>4, <1>5, <1>6, NextApps, OtherApps

\* interfaces.go: Provision is idempotent. Once an application has the package
\* of the current generation, no pass writes another, whatever the tree, if
\* the driver's list is not behind and no generator yields two parameters.
THEOREM IdempotentHolds ==
  ASSUME ~Lag, OneParameter
  PROVE  Spec => Idempotent
<1>1. BaseInv /\ [Next]_vars =>
        [\A a \in Apps : /\ apps[a] # <<>> /\ apps'[a] # <<>>
                         /\ gen = owner.gen
                         /\ apps[a][1].spec \in Required(a, gen)
           => apps'[a][1].spec = apps[a][1].spec]_vars
      BY Zenon, IdempotentStep
<1>2. QED
      BY <1>1, BaseHolds, PTL DEF Spec, Idempotent
-----------------------------------------------------------------------------
(***************************************************************************)
(* What ListHelmApplications reports.                                      *)
(***************************************************************************)
\* A set of numbers has a least one.
LEMMA LeastOf ==
  ASSUME NEW T \in SUBSET Nat, T # {}
  PROVE  \E x \in T : \A y \in T : x <= y
<1> DEFINE Less == OpToRel(<, Nat)
<1>1. IsWellFoundedOn(Less, Nat)
      BY NatLessThanWellFounded, Zenon
<1>2. \A x, y \in Nat : y < x => <<y, x>> \in Less
      BY Zenon DEF OpToRel
<1> HIDE DEF Less
<1>3. PICK x \in T : \A y \in T : ~(<<y, x>> \in Less)
      BY Zenon, <1>1, WFMin
<1>4. \A y \in T : ~(y < x) /\ x \in Nat /\ y \in Nat
      BY Zenon, <1>2, <1>3
<1>5. \A y \in T : x <= y
      BY <1>4
<1>6. QED
      BY Zenon, <1>5

\* GetVersion finds one of the versions, if any.
LEMMA GetVersionFinds ==
  ASSUME NEW a \in Apps, NEW wanted, GetVersion(Versions[a], wanted) # None
  PROVE  \E i \in DOMAIN Versions[a] : GetVersion(Versions[a], wanted) = Versions[a][i]
<1> DEFINE T == {i \in DOMAIN Versions[a] : Versions[a][i].version = wanted}
<1>1. T # {} /\ GetVersion(Versions[a], wanted) =
        Versions[a][CHOOSE i \in DOMAIN Versions[a] :
                      Versions[a][i].version = wanted /\ \A j \in 1..(i - 1) : Versions[a][j].version # wanted]
      BY Zenon DEF GetVersion
<1>2. Versions[a] \in Seq(Range(Versions[a]))
      BY Zenon, VersionAssumption
<1>3. DOMAIN Versions[a] = 1..Len(Versions[a]) /\ Len(Versions[a]) \in Nat
      BY <1>2
<1>4. T \in SUBSET Nat
      BY <1>3
<1>5. PICK i \in T : \A j \in T : i <= j
      BY Zenon, <1>1, <1>4, LeastOf
<1>6. \A j \in 1..(i - 1) : Versions[a][j].version # wanted
      BY <1>3, <1>5
<1>7. QED
      BY Zenon, <1>1, <1>5, <1>6

\* What is generated of a version is listed as that version or branch.
LEMMA ListsVersion ==
  ASSUME NEW a \in Apps, NEW g \in 1..MaxGen, NEW spec \in Required(a, g)
  PROVE  LET template == GetVersion(Versions[a], WantedVersion[a][g])
             listing  == ConvertApplication(spec)
         IN  /\ listing.version = IF template.branch = None THEN template.version ELSE None
             /\ listing.branch = template.branch
<1> DEFINE template == GetVersion(Versions[a], WantedVersion[a][g])
           cluster  == IF a \in Remote THEN RemoteID ELSE None
           degraded == a \in AllowDegraded
<1>1. Required(a, g) = IF template = None THEN {}
                       ELSE {GenerateApplication(p) : p \in Packages(template, Generator[a], cluster, None, degraded)}
      BY Zenon DEF Required, RequiredOf
<1>2. template # None
      BY Zenon, <1>1
<1>3. PICK i \in DOMAIN Versions[a] : template = Versions[a][i]
      BY Zenon, <1>2, GetVersionFinds
<1>4. IF template.branch = None THEN template.chart # None /\ template.path = None
                                ELSE template.chart = None /\ template.path # None
      BY Zenon, <1>3, VersionAssumption
<1> HIDE DEF template, cluster, degraded
<1>5. PICK p \in Packages(template, Generator[a], cluster, None, degraded) : spec = GenerateApplication(p)
      BY Zenon, <1>1, <1>2
<1>6. p.chart = template.chart /\ p.path = template.path /\ p.branch = template.branch /\ p.version = template.version
      BY DEF Packages
<1>7. /\ spec.chart = template.chart /\ spec.path = template.path
      /\ spec.targetRevision = IF template.branch = None THEN template.version ELSE template.branch
      BY Zenon, <1>5, <1>6 DEF GenerateApplication, Or
<1>8. /\ ConvertApplication(spec).version = IF template.branch = None THEN template.version ELSE None
      /\ ConvertApplication(spec).branch = template.branch
      BY Zenon, <1>4, <1>7 DEF ConvertApplication
<1>9. QED
      BY Zenon, <1>8 DEF template

\* A sequence of a finite set's members without repetition has all of them.
LEMMA AllListed ==
  ASSUME NEW S, IsFiniteSet(S), NEW s \in Orders(S)
  PROVE  Range(s) = S
<1> DEFINE D == 1..Cardinality(S)
<1>1. Cardinality(S) \in Nat
      BY Zenon, FS_CardinalityType
<1>2. IsFiniteSet(D) /\ Cardinality(D) = Cardinality(S)
      BY <1>1, FS_Interval
<1>3. s \in [D -> S] /\ \A i, j \in D : i # j => s[i] # s[j]
      BY Zenon DEF Orders, Injection, IsInjective
<1>4. s \in Injection(D, S)
      BY Zenon, <1>3 DEF Injection, IsInjective
<1>5. s \in Surjection(D, S)
      BY Zenon, <1>2, <1>4, FS_Injection
<1>6. QED
      BY <1>3, <1>5 DEF Surjection, Range

\* The identity that is listed finds the application again.
LEMMA ListsIdentity ==
  ASSUME NEW a \in Apps, NEW id \in ListedIDs[a]
  PROVE  ApplicationLabels(id) = ApplicationLabels(ID(a))
<1> DEFINE L == Range(ID(a).labels)
           l == [name |-> ApplicationLabel, value |-> a]
           labels == ApplicationLabels(ID(a))
<1>1. labels = L \cup {l} /\ \A k \in L : k.name # ApplicationLabel
      BY Zenon, LabelsOf
<1>2. l.name = ApplicationLabel /\ l.value = a
      BY Zenon
<1>3. IsFiniteSet(L)
  <2>1. Len(LabelOrder) \in Nat /\ DOMAIN LabelOrder = 1..Len(LabelOrder)
    <3> DEFINE names == {k.name : k \in ResourceLabels}
    <3>1. LabelOrder \in Seq(names)
          BY Zenon, LabelAssumption
    <3> HIDE DEF names
    <3>2. QED
          BY <3>1
  <2>2. DOMAIN ID(a).labels = 1..Len(LabelOrder)
        BY Zenon, <2>1 DEF ID, ResourceID
  <2>3. IsFiniteSet(1..Len(LabelOrder))
    <3> DEFINE len == Len(LabelOrder)
    <3>1. 1 \in Int /\ len \in Int
          BY <2>1
    <3> HIDE DEF len
    <3>2. IsFiniteSet(1..len)
          BY Zenon, <3>1, FS_Interval
    <3>3. QED
          BY Zenon, <3>2 DEF len
  <2>4. ID(a).labels \in Surjection(1..Len(LabelOrder), L)
    <3>1. ID(a).labels = [i \in 1..Len(LabelOrder) |-> ID(a).labels[i]]
          BY Zenon, <2>1 DEF ID, ResourceID
    <3>2. QED
          BY Zenon, <2>2, <3>1 DEF Surjection, Range
  <2>5. QED
        BY Zenon, <2>3, <2>4, FS_Surjection
<1> HIDE DEF L, l, labels
<1>4. {k \in labels : k.name # ApplicationLabel} = L
      BY Zenon, <1>1, <1>2
<1>5. LabelValue(labels, ApplicationLabel) = a
  <2>1. (CHOOSE k \in labels : k.name = ApplicationLabel) = l
        BY Zenon, <1>1, <1>2
  <2>2. QED
        BY Zenon, <1>2, <2>1 DEF LabelValue
<1>6. id \in [name : {a}, labels : Orders(L)]
      BY Zenon, <1>4, <1>5 DEF ListedIDs, ConvertApplicationIDs, labels
<1>7. id.name = a /\ id.labels \in Orders(L)
      BY Zenon, <1>6
<1>8. Range(id.labels) = L
      BY Zenon, <1>3, <1>7, AllListed
<1>9. {k \in {[name |-> ApplicationLabel, value |-> id.name]} : \A x \in Range(id.labels) : x.name # k.name} = {l}
      BY Zenon, <1>1, <1>2, <1>7, <1>8 DEF l
<1>10. QED
       BY Zenon, <1>1, <1>8, <1>9 DEF ApplicationLabels, labels

\* ListHelmApplications: what is listed of an application names the version
\* or branch that some generation asked for, and the identity it gives finds
\* the application again, for any versions, generators and labels, if the
\* driver's list is not behind.
THEOREM ListedAsRequestedHolds ==
  ASSUME ~Lag
  PROVE  Spec => []ListedAsRequested
<1>1. BaseInv => ListedAsRequested
  <2> SUFFICES ASSUME BaseInv, NEW a \in Apps, NEW i \in DOMAIN apps[a]
               PROVE  \E g \in 1..owner.gen :
                        LET template == GetVersion(Versions[a], WantedVersion[a][g])
                            listing  == ConvertApplication(apps[a][i].spec)
                        IN  /\ listing.version = IF template.branch = None THEN template.version ELSE None
                            /\ listing.branch = template.branch
      BY Zenon, ListsIdentity DEF ListedAsRequested
  <2>1. apps[a] \in One /\ apps[a] # <<>>
        BY DEF BaseInv, ArgoType
  <2>2. i = 1
        BY Zenon, <2>1, OnlyObject
  <2>3. PICK g \in 1..owner.gen : apps[a][1].spec \in Required(a, g)
        BY Zenon, <2>1 DEF BaseInv, SpecInv
  <2>4. g \in 1..MaxGen
        BY BoundAssumption DEF BaseInv, OwnerType
  <2>5. QED
        BY Zenon, <2>2, <2>3, <2>4, ListsVersion
<1>2. QED
      BY <1>1, BaseHolds, PTL
-----------------------------------------------------------------------------
(***************************************************************************)
(* The count of a RemoteCluster. It is raised once in a call, and in a     *)
(* pass a node is called once at most: those counted are over, or have     *)
(* their client.                                                           *)
(***************************************************************************)
\* No more is to come from a node, or from one above it.
Over(m) == \E n \in Nodes : m \in Under[n] /\ frame[n].at = "done"

Counted == {m \in Remotes : Over(m) \/ (frame[m].op = "provision" /\ frame[m].at \in {"client", "wait"})}

CountInv ==
  /\ CountType
  /\ count <= refCount
  /\ frame[Root].at # "idle" => count <= Cardinality(Counted)

\* A call of a remote counts itself, then has its client or returns.
Counts(n) ==
  /\ Active(n, "provision", "start") \/ Active(n, "deprovision", "release")
  /\ count' = count + 1
  /\ frame'[n].at \in {"client", "done"}

\* What is over stays so for the rest of the pass.
LEMMA OverStays ==
  ASSUME ~Lag, ArgoType, FrameType, TreeInv, NEW n \in Nodes, Step(n), NEW m \in Nodes, Over(m)
  PROVE  Over(m)'
<1>1. PICK x \in Nodes : m \in Under[x] /\ frame[x].at = "done"
      BY Zenon DEF Over
<1>2. x # n
      BY Zenon, <1>1, OwnCall
<1>3. CASE x \notin Kids(n)
  <2>1. frame'[x].at = "done"
        BY Zenon, <1>1, <1>2, <1>3, OtherCalls
  <2>2. QED
        BY Zenon, <1>1, <2>1 DEF Over
<1>4. CASE x \in Kids(n)
  <2>1. m \in Under[n]
        BY Zenon, <1>1, <1>4, UnderClosed, UnderTransitive
  <2>2. CASE Returns(n)
    <3>1. frame'[n].at = "done"
          BY Zenon, <2>2, ReturnFields DEF Returns
    <3>2. QED
          BY Zenon, <2>1, <3>1 DEF Over
  <2>3. CASE Calls(n)
    <3>1. frame'[x] = frame[x]
          BY Zenon, <1>1, <1>2, <2>3 DEF Calls
    <3>2. QED
          BY Zenon, <1>1, <3>1 DEF Over
  <2>4. QED
        BY Zenon, <2>2, <2>3, StepMoves
<1>5. QED
      BY Zenon, <1>3, <1>4

\* A node that runs is not over.
LEMMA RunningNotOver ==
  ASSUME TreeInv, NEW n \in Nodes, Running(n)
  PROVE  ~Over(n)
<1> SUFFICES ASSUME NEW x \in Nodes, n \in Under[x], frame[x].at = "done" PROVE FALSE
    BY Zenon DEF Over
<1>1. x # n
      BY Zenon DEF Running
<1>2. Running(x)
      BY Zenon, <1>1, CallerRuns DEF Running
<1>3. QED
      BY Zenon, <1>2 DEF Running

\* A remote that has its client keeps it until it returns.
LEMMA ClientStays ==
  ASSUME FrameType, TreeInv, NEW n \in Nodes, RemoteStep(n),
         frame[n].op = "provision", frame[n].at \in {"client", "wait"}
  PROVE  frame'[n].at \in {"client", "wait", "done"}
<1>1. ASSUME NEW r \in Results, Return(n, r) PROVE frame'[n].at = "done"
      BY Zenon, <1>1, ReturnFields
<1>2. ASSUME NEW b \in BOOLEAN, Enter(n, b) PROVE frame'[n].at = "wait"
  <2>1. Kind[n] = "remote"
        BY Zenon DEF RemoteStep
  <2>2. Children[n][1] # n
        BY Zenon, <2>1, OnlyChild
  <2>3. frame'[n] = [frame[n] EXCEPT !.at = "wait"] /\ frame[n] \in Frames
        BY Zenon, <1>2, <2>2 DEF Enter, FrameType
  <2>4. QED
        BY Zenon, <2>3 DEF Frames
<1>3. QED
      BY Zenon, <1>1, <1>2, RemoteMoves DEF Active

\* Who is counted stays so for the rest of the pass.
LEMMA CountedStays ==
  ASSUME ~Lag, ArgoType, FrameType, TreeInv, NEW n \in Nodes, Step(n)
  PROVE  Counted \subseteq Counted'
<1> SUFFICES ASSUME NEW m \in Counted PROVE m \in Counted'
    BY Zenon
<1>1. m \in Nodes /\ m \in Remotes /\ Kind[m] = "remote"
      BY Zenon DEF Counted, Remotes
<1>2. CASE Over(m)
      BY Zenon, <1>1, <1>2, OverStays DEF Counted
<1>3. ASSUME frame'[m].at = "done" PROVE m \in Counted'
  <2>1. m \in Under[m]
        BY Zenon, <1>1, UnderClosed
  <2>2. Over(m)'
        BY Zenon, <1>1, <1>3, <2>1 DEF Over
  <2>3. QED
        BY Zenon, <1>1, <2>2 DEF Counted
<1>4. CASE ~Over(m) /\ m = n
  <2>1. RemoteStep(n)
        BY Zenon, <1>1, <1>4 DEF Step, Serial, Concurrent, Conditional, ApplicationStep, ResourceStep
  <2>2. frame[n].op = "provision" /\ frame[n].at \in {"client", "wait"}
        BY Zenon, <1>4 DEF Counted
  <2>3. frame'[n].at \in {"client", "wait", "done"} /\ frame'[n].op = "provision"
        BY Zenon, <2>1, <2>2, ClientStays, OwnCall
  <2>4. QED
        BY Zenon, <1>1, <1>3, <1>4, <2>3 DEF Counted
<1>5. CASE ~Over(m) /\ m # n
  <2>1. frame[m].op = "provision" /\ frame[m].at \in {"client", "wait"}
        BY Zenon, <1>5 DEF Counted
  <2>2. CASE m \notin Kids(n)
    <3>1. frame'[m].at = frame[m].at /\ frame'[m].op = frame[m].op
          BY Zenon, <1>1, <1>5, <2>1, <2>2, OtherCalls
    <3>2. QED
          BY Zenon, <1>1, <2>1, <3>1 DEF Counted
  <2>3. CASE m \in Kids(n) /\ Returns(n)
    <3>1. frame'[n].at = "done" /\ m \in Under[n]
          BY Zenon, <2>3, ReturnFields, UnderClosed DEF Returns
    <3>2. Over(m)'
          BY Zenon, <3>1 DEF Over
    <3>3. QED
          BY Zenon, <1>1, <3>2 DEF Counted
  <2>4. CASE m \in Kids(n) /\ Calls(n)
    <3>1. frame'[m] = frame[m]
          BY Zenon, <1>1, <1>5, <2>1, <2>4 DEF Calls
    <3>2. QED
          BY Zenon, <1>1, <2>1, <3>1 DEF Counted
  <2>5. QED
        BY Zenon, <2>2, <2>3, <2>4, StepMoves
<1>6. QED
      BY Zenon, <1>2, <1>4, <1>5

\* The count changes when a pass starts and when a remote counts itself.
LEMMA CountMoves ==
  ASSUME ~Lag, ArgoType, FrameType, TreeInv, [Next]_vars
  PROVE  \/ count' = count
         \/ PassStart /\ count' = 0
         \/ \E n \in Remotes : Step(n) /\ Counts(n)
<1>1. CASE Edit \/ Delete \/ Crash \/ PassEnd \/ External \/ UNCHANGED vars
      BY Zenon, <1>1 DEF Edit, Delete, Crash, PassEnd, External, Argo, Collect, vars, treeVars
<1>2. CASE PassStart
      BY Zenon, <1>2 DEF PassStart
<1>3. ASSUME NEW n \in Nodes, Serial(n) \/ Concurrent(n) \/ Conditional(n) \/ ApplicationStep(n) \/ ResourceStep(n)
      PROVE  count' = count
      BY Zenon, <1>3 DEF Serial, Concurrent, Conditional, ApplicationStep, ResourceStep,
                  Lookup, Create, Update, Finalize, Discard
<1>4. ASSUME NEW n \in Nodes, RemoteStep(n) PROVE count' = count \/ (n \in Remotes /\ Step(n) /\ Counts(n))
  <2>1. n \in Remotes /\ Step(n)
        BY Zenon, <1>4 DEF RemoteStep, Remotes, Step
  <2>2. ASSUME NEW r \in Results, Return(n, r) PROVE frame'[n].at = "done"
        BY Zenon, <2>2, ReturnFields
  <2>3. frame' = Goto(n, "client") => frame'[n].at = "client"
        BY Zenon, GotoFields DEF Places, Bases
  <2>4. CASE ProvisionRemote(n)
    <3>1. Return(n, "yield") \/ Return(n, "error") \/ frame' = Goto(n, "client")
          BY Zenon, <2>4 DEF ProvisionRemote, Fail
    <3>2. frame'[n].at \in {"client", "done"}
          BY Zenon, <2>2, <2>3, <3>1 DEF Results
    <3>3. QED
          BY Zenon, <2>1, <2>4, <3>2 DEF ProvisionRemote, Counts
  <2>5. CASE DeprovisionRemote(n)
    <3>1. Return(n, "nil") \/ Return(n, "error")
          BY Zenon, <2>5 DEF DeprovisionRemote, Fail
    <3>2. frame'[n].at \in {"client", "done"}
          BY Zenon, <2>2, <3>1 DEF Results
    <3>3. QED
          BY Zenon, <2>1, <2>5, <3>2 DEF DeprovisionRemote, Counts
  <2>6. CASE ProvisionOnRemote(n) \/ DeprovisionOnRemote(n)
        BY Zenon, <2>6 DEF ProvisionOnRemote, DeprovisionOnRemote
  <2>7. QED
        BY Zenon, <1>4, <2>4, <2>5, <2>6 DEF RemoteStep
<1>5. QED
      BY Zenon, <1>1, <1>2, <1>3, <1>4 DEF Next, Pass, Step

\* A remote that counts itself was not counted before.
LEMMA CountsOnce ==
  ASSUME ~Lag, ArgoType, FrameType, TreeInv, NEW n \in Remotes, Step(n), Counts(n)
  PROVE  n \notin Counted /\ n \in Counted'
<1>1. n \in Nodes /\ Running(n) /\ frame'[n].op = frame[n].op
      BY Zenon, StepMoves, OwnCall DEF Remotes
<1>2. ~Over(n)
      BY Zenon, <1>1, RunningNotOver
<1>3. n \notin Counted
      BY Zenon, <1>2 DEF Counted, Counts, Active
<1>4. CASE frame'[n].at = "done"
  <2>1. n \in Under[n]
        BY Zenon, <1>1, UnderClosed
  <2>2. Over(n)'
        BY Zenon, <1>1, <1>4, <2>1 DEF Over
  <2>3. QED
        BY Zenon, <1>3, <2>2 DEF Counted
<1>5. CASE frame'[n].at = "client"
  <2>1. FrameOK(n)'
        BY Zenon, <1>1, NextTree DEF TreeInv, Next, Pass
  <2>2. frame'[n].op = "provision"
        BY Zenon, <1>5, <2>1 DEF FrameOK
  <2>3. QED
        BY Zenon, <1>3, <1>5, <2>2 DEF Counted
<1>6. QED
      BY Zenon, <1>4, <1>5 DEF Counts

\* There are finitely many remotes.
LEMMA RemotesFinite ==
  /\ IsFiniteSet(Remotes) /\ refCount \in Nat
  /\ \A S \in SUBSET Remotes :
       /\ IsFiniteSet(S) /\ Cardinality(S) \in Nat /\ Cardinality(S) <= refCount
       /\ Cardinality(S) = refCount => S = Remotes
<1>1. IsFiniteSet(Remotes)
  <2>1. Remotes \subseteq Nodes /\ IsFiniteSet(Nodes)
        BY Zenon, TreeAssumption DEF Remotes
  <2>2. QED
        BY Zenon, <2>1, FS_Subset
<1>2. refCount \in Nat
      BY Zenon, <1>1, FS_CardinalityType DEF refCount
<1>3. ASSUME NEW S \in SUBSET Remotes
      PROVE  /\ IsFiniteSet(S) /\ Cardinality(S) \in Nat /\ Cardinality(S) <= refCount
             /\ Cardinality(S) = refCount => S = Remotes
  <2>1. IsFiniteSet(S) /\ Cardinality(S) <= Cardinality(Remotes) /\ (Cardinality(S) = Cardinality(Remotes) => S = Remotes)
        BY Zenon, <1>1, FS_Subset
  <2>2. Cardinality(S) \in Nat
        BY Zenon, <2>1, FS_CardinalityType
  <2>3. QED
        BY Zenon, <2>1, <2>2 DEF refCount
<1>4. QED
      BY Zenon, <1>1, <1>2, <1>3

\* A set of remotes that grows by one that was not in it.
LEMMA OneMore ==
  ASSUME NEW S \in SUBSET Remotes, NEW T \in SUBSET Remotes, S \subseteq T, NEW n \in T, n \notin S
  PROVE  Cardinality(S) + 1 <= Cardinality(T)
<1>1. IsFiniteSet(S) /\ IsFiniteSet(T)
      BY Zenon, RemotesFinite
<1>2. Cardinality(S \cup {n}) = Cardinality(S) + 1
      BY Zenon, <1>1, FS_AddElement
<1>3. S \cup {n} \subseteq T
      BY Zenon
<1>4. Cardinality(S \cup {n}) <= Cardinality(T)
      BY Zenon, <1>1, <1>3, FS_Subset
<1>5. QED
      BY Zenon, <1>2, <1>4

\* The types of the objects of resources and of the faults are kept.
LEMMA CountTypeStep ==
  ASSUME ~Lag, ArgoType, FrameType, TreeInv, CountType, [Next]_vars
  PROVE  CountType'
<1>1. count' \in Nat
  <2>1. count \in Nat
        BY Zenon DEF CountType
  <2>2. QED
        BY <2>1, CountMoves DEF Counts
<1>2. objects' \in [Resources -> {"absent", "live", "deleting"}]
  <2>1. ASSUME NEW n \in Resources, NEW o \in {"absent", "live", "deleting"}, objects' = [objects EXCEPT ![n] = o]
        PROVE  objects' \in [Resources -> {"absent", "live", "deleting"}]
        BY Zenon, <2>1 DEF CountType
  <2>2. CASE objects' = objects
        BY Zenon, <2>2 DEF CountType
  <2>3. ASSUME NEW n \in Nodes, ResourceStep(n)
        PROVE  objects' = objects \/ \E o \in {"absent", "live", "deleting"} : objects' = [objects EXCEPT ![n] = o]
    <3>1. n \in Resources /\ objects[n] \in {"absent", "live", "deleting"}
          BY Zenon, <2>3 DEF ResourceStep, Resources, CountType
    <3>2. \/ objects' = objects
          \/ objects' = [objects EXCEPT ![n] = IF objects[n] = "absent" THEN "live" ELSE objects[n]]
          \/ objects' = [objects EXCEPT ![n] = IF objects[n] = "absent" THEN objects[n] ELSE "deleting"]
          BY Zenon, <2>3, <3>1 DEF ResourceStep, CountType
    <3>3. QED
          BY Zenon, <3>1, <3>2
  <2>4. ASSUME NEW n \in Nodes, ResourceStep(n) PROVE n \in Resources
        BY Zenon, <2>4 DEF ResourceStep, Resources
  <2>5. ASSUME NEW n \in Resources, Collect(n) PROVE objects' = [objects EXCEPT ![n] = "absent"]
        BY Zenon, <2>5 DEF Collect
  <2>6. ASSUME NEW n \in Nodes, Serial(n) \/ Concurrent(n) \/ Conditional(n) \/ RemoteStep(n) \/ ApplicationStep(n)
        PROVE  objects' = objects
        BY Zenon, <2>6 DEF Serial, Concurrent, Conditional, RemoteStep, ApplicationStep, ProvisionRemote, ProvisionOnRemote,
                    DeprovisionOnRemote, DeprovisionRemote, Lookup, Create, Update, Finalize, Discard
  <2>7. Edit \/ Delete \/ Crash \/ PassStart \/ PassEnd \/ (\E a \in Apps : Argo(a)) \/ UNCHANGED vars => objects' = objects
        BY Zenon DEF Edit, Delete, Crash, PassStart, PassEnd, Argo, vars, treeVars
  <2>8. QED
        BY Zenon, <2>1, <2>2, <2>3, <2>4, <2>5, <2>6, <2>7 DEF Next, Pass, External, Step
<1>3. faults' \in 0..MaxFaults
  <2>1. faults \in 0..MaxFaults /\ MaxFaults \in Nat
        BY Zenon, BoundAssumption DEF CountType
  <2>2. faults' = faults \/ (faults < MaxFaults /\ faults' = faults + 1)
    <3>1. ASSUME NEW n \in Nodes, Serial(n) \/ Concurrent(n) \/ Conditional(n) \/ ResourceStep(n) \/ ApplicationStep(n)
          PROVE  faults' = faults \/ (faults < MaxFaults /\ faults' = faults + 1)
          BY Zenon, <3>1 DEF Serial, Concurrent, Conditional, ResourceStep, ApplicationStep,
                      Lookup, Create, Update, Finalize, Discard, Fail
    <3>2. ASSUME NEW n \in Nodes, RemoteStep(n)
          PROVE  faults' = faults \/ (faults < MaxFaults /\ faults' = faults + 1)
          BY Zenon, <3>2 DEF RemoteStep, ProvisionRemote, ProvisionOnRemote, DeprovisionOnRemote, DeprovisionRemote, Fail
    <3>3. Edit \/ Delete \/ Crash \/ PassStart \/ PassEnd \/ External \/ UNCHANGED vars =>
            faults' = faults \/ (faults < MaxFaults /\ faults' = faults + 1)
          BY Zenon DEF Edit, Delete, Crash, PassStart, PassEnd, External, Argo, Collect, vars, treeVars
    <3>4. QED
          BY Zenon, <3>1, <3>2, <3>3 DEF Next, Pass, Step
  <2>3. QED
        BY <2>1, <2>2
<1>4. QED
      BY Zenon, <1>1, <1>2, <1>3 DEF CountType

\* CountInv is kept.
LEMMA CountInvStep ==
  ASSUME ~Lag, BaseInv, CountInv, [Next]_vars
  PROVE  CountInv'
<1> USE DEF BaseInv
<1>1. CountType' /\ count \in Nat /\ count' \in Nat /\ count <= refCount /\ refCount \in Nat
      BY Zenon, CountTypeStep, RemotesFinite DEF CountInv, CountType
<1>2. refCount' = refCount
      BY Zenon DEF refCount, Remotes
<1>3. Counted \in SUBSET Remotes /\ Counted' \in SUBSET Remotes
      BY Zenon DEF Counted, Remotes
<1>4. Cardinality(Counted') \in Nat /\ Cardinality(Counted') <= refCount /\ Cardinality(Counted) \in Nat
      BY Zenon, <1>3, RemotesFinite
<1>5. ASSUME frame'[Root].at # "idle" => count' <= Cardinality(Counted'), count' <= refCount
      PROVE  CountInv'
      BY Zenon, <1>1, <1>2, <1>5 DEF CountInv
<1>6. CASE PassStart
  <2>1. count' = 0
        BY Zenon, <1>6 DEF PassStart
  <2>2. QED
        BY ONLY SMTT(30), <1>1, <1>4, <1>5, <2>1
<1>7. ASSUME NEW n \in Nodes, Step(n) PROVE CountInv'
  <2>1. Running(Root) /\ frame'[Root].at # "idle"
    <3>1. Running(Root) /\ Root \in Nodes
          BY Zenon, <1>7, RootCall, TreeAssumption
    <3>2. Root \notin Kids(n)
          BY Zenon, <1>7, OneParent
    <3>3. QED
          BY Zenon, <1>7, <3>1, <3>2, OwnCall, OtherCalls DEF Running
  <2>2. count <= Cardinality(Counted)
        BY Zenon, <2>1 DEF Running, CountInv
  <2>3. Counted \subseteq Counted'
        BY Zenon, <1>7, CountedStays
  <2>4. Cardinality(Counted) <= Cardinality(Counted')
        BY Zenon, <1>3, <2>3, RemotesFinite, FS_Subset
  <2>5. CASE count' = count
        BY ONLY SMTT(30), <1>1, <1>4, <1>5, <2>1, <2>2, <2>4, <2>5
  <2>6. ASSUME NEW x \in Remotes, Step(x), Counts(x) PROVE CountInv'
    <3>1. Cardinality(Counted) + 1 <= Cardinality(Counted')
          BY Zenon, <1>3, <2>3, <2>6, CountsOnce, OneMore
    <3>2. count' = count + 1
          BY Zenon, <2>6 DEF Counts
    <3>3. QED
          BY ONLY SMTT(30), <1>1, <1>4, <1>5, <2>1, <2>2, <3>1, <3>2
  <2>7. CASE PassStart
        BY Zenon, <1>6, <2>7
  <2>8. QED
        BY Zenon, <2>5, <2>6, <2>7, CountMoves
<1>8. CASE Crash \/ PassEnd
  <2>1. count' = count /\ frame'[Root] = Idle
        BY Zenon, <1>8, TreeAssumption DEF Crash, PassEnd, FrameType
  <2>2. QED
        BY Zenon, <1>1, <1>5, <2>1, IdleFields
<1>9. CASE UNCHANGED <<frame, count>>
  <2>1. Counted' = Counted
        BY Zenon, <1>9 DEF Counted, Over, Remotes
  <2>2. QED
        BY Zenon, <1>1, <1>5, <1>9, <2>1 DEF CountInv
<1>10. Edit \/ Delete \/ External \/ UNCHANGED vars => UNCHANGED <<frame, count>>
       BY Zenon DEF Edit, Delete, External, Argo, Collect, treeVars, vars
<1>11. QED
       BY Zenon, <1>6, <1>7, <1>8, <1>9, <1>10 DEF Next, Pass

\* No pass counts more remotes than there are.
LEMMA CountHolds ==
  ASSUME ~Lag
  PROVE  Spec => []CountInv
<1>1. Init => CountInv
  <2> SUFFICES ASSUME Init PROVE CountInv
      BY Zenon
  <2>1. count = 0 /\ refCount \in Nat /\ MaxFaults \in Nat
        BY Zenon, RemotesFinite, BoundAssumption DEF Init
  <2>2. CountType
        BY <2>1 DEF Init, CountType
  <2>3. frame[Root].at = "idle"
        BY Zenon, TreeAssumption, IdleFields DEF Init
  <2>4. QED
        BY <2>1, <2>2, <2>3 DEF CountInv
<1>2. BaseInv /\ CountInv /\ [Next]_vars => CountInv'
      BY Zenon, CountInvStep
<1>3. QED
      BY <1>1, <1>2, BaseHolds, PTL DEF Spec

\* The types are right, and with lists that are not behind an application has
\* one object at most, also after a create whose reply was lost; the count of
\* the remotes stays within their number, in any tree.
THEOREM TypeCorrect ==
  ASSUME ~Lag
  PROVE  Spec => []TypeOK
<1>1. BaseInv /\ CountInv => TypeOK
  <2> SUFFICES ASSUME BaseInv, CountInv PROVE TypeOK
      BY Zenon
  <2>1. ASSUME NEW a \in Apps PROVE Len(apps[a]) <= 1
    <3>1. apps[a] \in One
          BY Zenon DEF BaseInv, ArgoType
    <3>2. CASE apps[a] = <<>>
          BY <3>2
    <3>3. CASE apps[a] # <<>>
          BY SMTT(30), <3>1, <3>3, OnlyObject
    <3>4. QED
          BY Zenon, <3>2, <3>3
  <2>2. gen \in 1..owner.gen
        BY BoundAssumption DEF BaseInv, OwnerType
  <2>3. \A n \in Nodes : frame[n].op \in {"none", "provision", "deprovision"} /\ frame[n].result \in {"nil", "yield", "error"}
        BY Zenon, FrameFields DEF BaseInv, Operations, Results
  <2>4. count \in 0..refCount
        BY RemotesFinite DEF CountInv, CountType
  <2>5. QED
        BY Zenon, <2>1, <2>2, <2>3, <2>4 DEF TypeOK, BaseInv, ArgoType, OwnerType, CountInv, CountType
<1>2. QED
      BY <1>1, BaseHolds, CountHolds, PTL
=============================================================================

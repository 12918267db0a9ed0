----------------------------- MODULE TreeProofs -----------------------------
(***************************************************************************)
(* Trees of provisioners, for every tree, every choice of versions and     *)
(* conditions, and every bound: which calls there can be at the same time, *)
(* and what a step does to the calls, the objects and the owner. An        *)
(* induction over the tree is an application of UnderLeast: a set that has *)
(* a node and, with each of its members, the members' children, has all    *)
(* that is under the node.                                                 *)
(***************************************************************************)
EXTENDS Provisioners, TLAPS

Kids(n) == Range(Children[n])

-----------------------------------------------------------------------------
(***************************************************************************)
(* The tree.                                                               *)
(***************************************************************************)
\* A child is a node.
LEMMA KidsAreNodes ==
  ASSUME NEW n \in Nodes
  PROVE  Kids(n) \subseteq Nodes
  BY TreeAssumption DEF Kids, Range

\* What is under a node is a node, the node itself is, and so are children.
LEMMA UnderClosed ==
  ASSUME NEW n \in Nodes
  PROVE  /\ Under[n] \subseteq Nodes
         /\ n \in Under[n]
         /\ \A m \in Under[n] : Kids(m) \subseteq Under[n]
<1>1. Under[n] \subseteq Nodes /\ n \in Under[n]
      BY Zenon DEF Under
<1>2. ASSUME NEW m \in Under[n], NEW k \in Kids(m)
      PROVE  k \in Under[n]
  <2>1. m \in Nodes /\ k \in Nodes
        BY Zenon, <1>1, <1>2, KidsAreNodes
  <2>2. ASSUME NEW S \in SUBSET Nodes, n \in S, \A p \in S : Range(Children[p]) \subseteq S
        PROVE  k \in S
    <3>1. m \in S
          BY Zenon, <1>2, <2>2 DEF Under
    <3>2. QED
          BY Zenon, <1>2, <2>2, <3>1 DEF Kids
  <2>3. QED
        BY Zenon, <2>1, <2>2 DEF Under
<1>3. QED
      BY Zenon, <1>1, <1>2

\* Nothing closed under children leaves out what is under its members.
LEMMA UnderLeast ==
  ASSUME NEW n \in Nodes, NEW S \in SUBSET Nodes, n \in S,
         \A p \in S : Kids(p) \subseteq S
  PROVE  Under[n] \subseteq S
  BY Zenon DEF Under, Kids

\* What is under something under a node is under the node.
LEMMA UnderTransitive ==
  ASSUME NEW n \in Nodes, NEW m \in Under[n]
  PROVE  Under[m] \subseteq Under[n]
<1>1. m \in Nodes
      BY Zenon, UnderClosed
<1>2. QED
      BY Zenon, <1>1, UnderClosed, UnderLeast

\* What is under a node is the node or under one of its children.
LEMMA UnderKids ==
  ASSUME NEW n \in Nodes, NEW m \in Under[n], m # n
  PROVE  \E k \in Kids(n) : m \in Under[k]
<1> DEFINE S == {n} \cup {x \in Nodes : \E k \in Kids(n) : x \in Under[k]}
<1>1. \A p \in S : Kids(p) \subseteq S
  <2> SUFFICES ASSUME NEW p \in S, NEW x \in Kids(p) PROVE x \in S
      BY Zenon
  <2>1. p \in Nodes /\ x \in Nodes
        BY Zenon, KidsAreNodes
  <2>2. CASE p = n
        BY Zenon, <2>1, <2>2, UnderClosed
  <2>3. ASSUME NEW k \in Kids(n), p \in Under[k] PROVE x \in S
        BY Zenon, <2>1, <2>3, KidsAreNodes, UnderClosed
  <2>4. QED
        BY Zenon, <2>2, <2>3
<1>2. S \in SUBSET Nodes /\ n \in S
      BY Zenon, KidsAreNodes
<1>3. Under[n] \subseteq S
  <2> HIDE DEF S
  <2> QED
      BY Zenon, <1>1, <1>2, UnderLeast
<1>4. QED
      BY Zenon, <1>3

\* What is under a node and not the node has its parent there too.
LEMMA ParentUnder ==
  ASSUME NEW n \in Nodes, NEW m \in Under[n], m # n
  PROVE  \E p \in Under[n] : m \in Kids(p)
<1> DEFINE S == {x \in Under[n] : x = n \/ \E p \in Under[n] : x \in Kids(p)}
<1>1. S \subseteq Nodes /\ n \in S /\ \A p \in S : Kids(p) \subseteq S
      BY Zenon, UnderClosed
<1>2. Under[n] \subseteq S
      BY Zenon, <1>1, UnderLeast
<1>3. QED
      BY Zenon, <1>2

\* A node has one parent, and the root none.
LEMMA OneParent ==
  ASSUME NEW p \in Nodes, NEW m \in Kids(p)
  PROVE  m # Root /\ Parents(m) = {p}
<1>1. p \in Parents(m) /\ m \in Nodes
      BY Zenon, KidsAreNodes DEF Parents, Kids
<1>2. QED
      BY <1>1, TreeAssumption

\* No node is under one of its children.
LEMMA NoCycle ==
  ASSUME NEW n \in Nodes, NEW m \in Kids(n)
  PROVE  n \notin Under[m]
<1> SUFFICES ASSUME n \in Under[m] PROVE FALSE
    BY Zenon
<1>1. m \in Nodes /\ m # Root
      BY Zenon, KidsAreNodes, OneParent
<1> DEFINE S == Nodes \ Under[m]
<1>2. Root \in S
  <2> SUFFICES ASSUME Root \in Under[m] PROVE FALSE
      BY Zenon, TreeAssumption
  <2>1. PICK p \in Under[m] : Root \in Kids(p)
        BY Zenon, <1>1, ParentUnder
  <2>2. QED
        BY Zenon, <1>1, <2>1, UnderClosed, OneParent
<1>3. \A p \in S : Kids(p) \subseteq S
  <2> SUFFICES ASSUME NEW p \in S, NEW x \in Kids(p), x \in Under[m] PROVE FALSE
      BY Zenon, KidsAreNodes
  <2>1. x # m
        BY Zenon, OneParent
  <2>2. PICK q \in Under[m] : x \in Kids(q)
        BY Zenon, <1>1, <2>1, ParentUnder
  <2>3. p = q
        BY Zenon, <1>1, <2>2, UnderClosed, OneParent
  <2>4. QED
        BY Zenon, <2>3
<1>4. Under[Root] \subseteq S
  <2>1. S \in SUBSET Nodes /\ Root \in Nodes
        BY Zenon, TreeAssumption
  <2> HIDE DEF S
  <2>2. QED
        BY Zenon, <1>2, <1>3, <2>1, UnderLeast
<1>5. QED
      BY Zenon, <1>1, <1>4, UnderClosed, TreeAssumption

\* A node is not its own child, nor a child of one.
LEMMA KidsApart ==
  ASSUME NEW n \in Nodes, NEW m \in Kids(n)
  PROVE  m # n /\ n \notin Kids(m)
<1>1. m \in Nodes
      BY Zenon, KidsAreNodes
<1>2. QED
      BY Zenon, <1>1, NoCycle, UnderClosed
-----------------------------------------------------------------------------
(***************************************************************************)
(* Types.                                                                  *)
(***************************************************************************)
Specs == UNION {Required(a, g) : a \in Apps, g \in 1..MaxGen}

Copies == [spec : Specs, automated : BOOLEAN, finalizer : BOOLEAN]

Bases == {None} \cup Copies

Operations == {"none", "provision", "deprovision"}

Results == {"nil", "yield", "error"}

Places ==
  {"idle", "done", "start", "wait", "client", "release", "create", "patch", "delete"}

Frames == [op : Operations, at : Places, result : Results, background : BOOLEAN, base : Bases]

Statuses == [sync : {None, "Synced", "OutOfSync"}, health : {None, "Degraded", "Healthy"}]

Objects ==
  [spec : Specs, automated : BOOLEAN, finalizer : BOOLEAN, deleting : BOOLEAN, status : Statuses]

\* With a list that is not behind, an application has one object at most.
One == {<<>>} \cup {<<o>> : o \in Objects}

ArgoType ==
  /\ apps \in [Apps -> One]
  /\ secret \in BOOLEAN
  /\ workload \in [Apps -> Specs \cup {None}]

OwnerType ==
  /\ owner \in [gen : 1..MaxGen, deleting : BOOLEAN, gone : BOOLEAN]
  /\ gen \in 1..MaxGen /\ gen <= owner.gen
  /\ pending \in BOOLEAN

FrameType == frame \in [Nodes -> Frames]

CountType ==
  /\ count \in Nat
  /\ objects \in [Resources -> {"absent", "live", "deleting"}]
  /\ faults \in 0..MaxFaults

\* The frame of a node that is called, is moved on, and has returned.
LEMMA FrameTypes ==
  /\ Idle \in Frames
  /\ \A op \in Operations : \A b \in BOOLEAN : Call(op, b) \in Frames
  /\ \A f \in Frames : \A at \in Places : [f EXCEPT !.at = at] \in Frames
  /\ \A f \in Frames : \A at \in Places : \A b \in Bases : [f EXCEPT !.at = at, !.base = b] \in Frames
  /\ \A f \in Frames : \A r \in Results : [f EXCEPT !.at = "done", !.result = r, !.base = None] \in Frames
  /\ \A f \in Frames : \A r \in Results : [f EXCEPT !.result = r] \in Frames
<1>1. Idle \in Frames
      BY Zenon DEF Idle, Frames, Operations, Places, Results, Bases
<1>2. \A op \in Operations : \A b \in BOOLEAN : Call(op, b) \in Frames
      BY Zenon DEF Call, Idle, Frames, Operations, Places, Results, Bases
<1>3. \A f \in Frames : \A at \in Places : [f EXCEPT !.at = at] \in Frames
      BY Zenon DEF Frames
<1>4. \A f \in Frames : \A at \in Places : \A b \in Bases : [f EXCEPT !.at = at, !.base = b] \in Frames
      BY Zenon DEF Frames
<1>5. \A f \in Frames : \A r \in Results : [f EXCEPT !.at = "done", !.result = r, !.base = None] \in Frames
      BY Zenon DEF Frames, Places, Bases
<1>6. \A f \in Frames : \A r \in Results : [f EXCEPT !.result = r] \in Frames
      BY Zenon DEF Frames
<1>7. QED
      BY Zenon, <1>1, <1>2, <1>3, <1>4, <1>5, <1>6

\* The frame of a node that is not called.
LEMMA IdleFields ==
  Idle.op = "none" /\ Idle.at = "idle" /\ Idle.result = "nil" /\ Idle.background = FALSE
  BY Zenon DEF Idle

\* The frame of a node that is called.
LEMMA CallFields ==
  ASSUME NEW op \in Operations, NEW b \in BOOLEAN
  PROVE  /\ Call(op, b).op = op /\ Call(op, b).at = "start" /\ Call(op, b).result = "nil"
         /\ Call(op, b).background = b
  BY Zenon DEF Call, Idle

\* A return keeps the type of the frames.
LEMMA ReturnType ==
  ASSUME FrameType, NEW n \in Nodes, NEW r \in Results, Return(n, r)
  PROVE  FrameType'
  BY Zenon, FrameTypes DEF FrameType, Return, Returned
-----------------------------------------------------------------------------
(***************************************************************************)
(* The frames follow the tree. Between two nodes and over serial groups:   *)
(* only a node that is called has children that are, they work in the      *)
(* direction it gives them, and in a serial group all before one that is   *)
(* called have returned nil.                                               *)
(***************************************************************************)
PlacesOf ==
  [serial |-> {"start"}, concurrent |-> {"start", "wait"}, conditional |-> {"start", "wait"},
   remote |-> {"start", "client", "wait", "release"},
   application |-> {"start", "create", "patch", "delete"}, resource |-> {"start"}]

FrameOK(n) ==
  /\ frame[n].at \in {"idle", "done"} \cup PlacesOf[Kind[n]]
  /\ frame[n].at = "idle" => frame[n] = Idle
  /\ frame[n].at # "idle" => frame[n].op # "none"
  /\ frame[n].result # "nil" => frame[n].at = "done" \/ (frame[n].at = "wait" /\ Kind[n] = "concurrent")
  /\ frame[n].at \in {"create", "client"} => frame[n].op = "provision"
  /\ frame[n].at \in {"delete", "release"} => frame[n].op = "deprovision"

KidOK(n, m) ==
  frame[m].at # "idle" =>
    /\ (frame[n].at = "start" /\ Kind[n] = "serial") \/ frame[n].at \in {"wait", "release"}
    /\ frame[m].op = IF Kind[n] = "conditional" THEN Wanted(n) ELSE frame[n].op
    /\ frame[n].at = "release" => frame[m].at = "done" /\ frame[m].result = "nil"
    /\ Kind[n] = "concurrent" /\ frame[n].result = "nil" /\ frame[m].at = "done" => frame[m].result = "nil"

SerialOK(n) ==
  Kind[n] = "serial" =>
    \A i, j \in DOMAIN Order(n) :
      i < j /\ frame[Order(n)[j]].at # "idle" =>
        frame[Order(n)[i]].at = "done" /\ frame[Order(n)[i]].result = "nil"

TreeInv == \A n \in Nodes : FrameOK(n) /\ SerialOK(n) /\ \A m \in Kids(n) : KidOK(n, m)

Running(n) == frame[n].at \notin {"idle", "done"}

Goes(s, n) ==
  /\ DOMAIN s = 1..Len(Children[n]) /\ Len(Children[n]) \in Nat
  /\ \A i \in DOMAIN s : s[i] \in Kids(n)
  /\ \A m \in Kids(n) : \E i \in DOMAIN s : m = s[i]
  /\ \A i, j \in DOMAIN s : s[i] = s[j] => i = j

\* A serial group goes through its children, each once.
LEMMA OrderKids ==
  ASSUME NEW n \in Nodes, NEW s \in {Children[n], Reverse(Children[n])}
  PROVE  Goes(s, n)
<1> USE DEF Goes
<1>1. Children[n] \in Seq(Nodes) /\ Len(Children[n]) \in Nat /\ DOMAIN Children[n] = 1..Len(Children[n])
      BY TreeAssumption
<1>2. \A i, j \in DOMAIN Children[n] : Children[n][i] = Children[n][j] => i = j
      BY Zenon, TreeAssumption
<1>3. CASE s = Children[n]
      BY Zenon, <1>1, <1>2, <1>3 DEF Kids, Range
<1>4. CASE s = Reverse(Children[n])
  <2> DEFINE len == Len(Children[n])
  <2>1. s = [i \in 1..len |-> Children[n][(len - i) + 1]]
        BY Zenon, <1>4 DEF Reverse
  <2>2. \A i \in 1..len : (len - i) + 1 \in 1..len /\ (len - ((len - i) + 1)) + 1 = i
        BY <1>1
  <2>3. \A i \in 1..len : s[i] \in Kids(n)
        BY Zenon, <1>1, <2>1, <2>2 DEF Kids, Range
  <2>4. ASSUME NEW m \in Kids(n) PROVE \E i \in 1..len : m = s[i]
    <3>1. PICK i \in 1..len : m = Children[n][i]
          BY Zenon, <1>1 DEF Kids, Range
    <3>2. m = s[(len - i) + 1]
          BY Zenon, <2>1, <2>2, <3>1
    <3>3. QED
          BY Zenon, <2>2, <3>2
  <2>5. \A i, j \in 1..len : s[i] = s[j] => i = j
    <3> SUFFICES ASSUME NEW i \in 1..len, NEW j \in 1..len, s[i] = s[j] PROVE i = j
        BY Zenon
    <3>1. (len - i) + 1 = (len - j) + 1
          BY Zenon, <1>1, <1>2, <2>1, <2>2
    <3>2. QED
          BY <1>1, <3>1
  <2>6. QED
        BY Zenon, <1>1, <2>1, <2>3, <2>4, <2>5
<1>5. QED
      BY Zenon, <1>3, <1>4

\* What a return does to the frames of the node and its children.
LEMMA ReturnFrames ==
  ASSUME FrameType, NEW n \in Nodes, NEW r \in Results, Return(n, r)
  PROVE  /\ frame'[n] = [frame[n] EXCEPT !.at = "done", !.result = r, !.base = None]
         /\ \A m \in Kids(n) : frame'[m] = Idle
<1>1. Kids(n) \subseteq Nodes \ {n}
      BY Zenon, KidsAreNodes, KidsApart
<1>2. QED
      BY Zenon, <1>1 DEF Return, Returned, Parents, Kids

\* What it does to the others and to the node, field by field.
LEMMA ReturnFields ==
  ASSUME FrameType, NEW n \in Nodes, NEW r \in Results, Return(n, r)
  PROVE  /\ frame'[n].at = "done" /\ frame'[n].result = r /\ frame'[n].op = frame[n].op
         /\ frame'[n].background = frame[n].background
         /\ \A m \in Nodes \ ({n} \cup Kids(n)) :
              /\ frame'[m].at = frame[m].at /\ frame'[m].op = frame[m].op
              /\ frame'[m].background = frame[m].background /\ frame'[m].base = frame[m].base
              /\ frame'[m].result =
                   IF n \in Kids(m) /\ Kind[m] = "concurrent" /\ frame[m].result = "nil" THEN r ELSE frame[m].result
<1>1. \A m \in Nodes : frame[m] \in Frames
      BY Zenon DEF FrameType
<1>2. frame'[n] = [frame[n] EXCEPT !.at = "done", !.result = r, !.base = None]
      BY Zenon, ReturnFrames
<1>3. /\ frame'[n].at = "done" /\ frame'[n].result = r /\ frame'[n].op = frame[n].op
      /\ frame'[n].background = frame[n].background
      BY Zenon, <1>1, <1>2 DEF Frames
<1>4. ASSUME NEW m \in Nodes \ ({n} \cup Kids(n)),
             n \in Kids(m) /\ Kind[m] = "concurrent" /\ frame[m].result = "nil"
      PROVE  /\ frame'[m].at = frame[m].at /\ frame'[m].op = frame[m].op
             /\ frame'[m].background = frame[m].background /\ frame'[m].base = frame[m].base
             /\ frame'[m].result = r
  <2>1. frame'[m] = [frame[m] EXCEPT !.result = r]
        BY Zenon, <1>4 DEF Return, Returned, Parents, Kids
  <2>2. QED
        BY Zenon, <1>1, <2>1 DEF Frames
<1>5. ASSUME NEW m \in Nodes \ ({n} \cup Kids(n)),
             ~(n \in Kids(m) /\ Kind[m] = "concurrent" /\ frame[m].result = "nil")
      PROVE  frame'[m] = frame[m]
      BY Zenon, <1>5 DEF Return, Returned, Parents, Kids
<1>6. QED
      BY Zenon, <1>3, <1>4, <1>5

\* The children of a node that is not running are idle.
LEMMA IdleBelow ==
  ASSUME TreeInv, NEW n \in Nodes, ~Running(n), NEW m \in Kids(n)
  PROVE  frame[m].at = "idle"
  BY Zenon DEF TreeInv, KidOK, Running

\* A node that is called and whose children are not running may return.
LEMMA ReturnTree ==
  ASSUME FrameType, TreeInv, NEW n \in Nodes, NEW r \in Results, Return(n, r), gen' = gen,
         Running(n), \A m \in Kids(n) : ~Running(m)
  PROVE  TreeInv'
<1>1. \A m \in Kids(n) : m \in Nodes \ {n} /\ frame'[m] = Idle
      BY Zenon, KidsAreNodes, KidsApart, ReturnFrames
<1>2. frame'[n].at = "done" /\ frame'[n].result = r /\ frame'[n].op = frame[n].op
      BY Zenon, ReturnFields
<1>3. \A m \in Nodes \ ({n} \cup Kids(n)) :
        /\ frame'[m].at = frame[m].at /\ frame'[m].op = frame[m].op
        /\ frame'[m].result =
             IF n \in Kids(m) /\ Kind[m] = "concurrent" /\ frame[m].result = "nil" THEN r ELSE frame[m].result
        /\ frame[m] = Idle => frame'[m] = Idle
  <2>1. ASSUME NEW m \in Nodes \ ({n} \cup Kids(n)), frame[m] = Idle
        PROVE  frame'[m] = Idle
    <3>1. n \notin Kids(m)
          BY <2>1, IdleBelow DEF Running, Idle
    <3>2. QED
          BY Zenon, <2>1, <3>1 DEF Return, Returned, Parents, Kids
  <2>2. QED
        BY <2>1, ReturnFields
<1>4. \A m \in Nodes : n \in Kids(m) =>
        /\ (frame[m].at = "start" /\ Kind[m] = "serial") \/ frame[m].at = "wait"
        /\ m \notin Kids(n) /\ m # n
      BY Zenon, KidsApart DEF TreeInv, KidOK, Running
<1>5. \A x \in Kids(n) : \A k \in Kids(x) : frame[k].at = "idle" /\ k \in Nodes \ ({n} \cup Kids(n))
  <2> SUFFICES ASSUME NEW x \in Kids(n), NEW k \in Kids(x)
               PROVE  frame[k].at = "idle" /\ k \in Nodes \ ({n} \cup Kids(n))
      BY Zenon
  <2>1. x \in Nodes /\ k \in Nodes /\ k # n
        BY Zenon, KidsAreNodes, KidsApart
  <2>2. k \notin Kids(n)
    <3> SUFFICES ASSUME k \in Kids(n) PROVE FALSE
        BY Zenon
    <3>1. Parents(k) = {x} /\ Parents(k) = {n}
          BY Zenon, <2>1, OneParent
    <3>2. QED
          BY Zenon, <1>1, <3>1
  <2>3. QED
        BY Zenon, <2>1, <2>2, IdleBelow
<1>6. \A x \in Nodes \ {n} : \A k \in Kids(x) : k \in Nodes \ Kids(n)
  <2> SUFFICES ASSUME NEW x \in Nodes \ {n}, NEW k \in Kids(x), k \in Kids(n) PROVE FALSE
      BY Zenon, KidsAreNodes
  <2>1. Parents(k) = {x} /\ Parents(k) = {n}
        BY Zenon, OneParent
  <2>2. QED
        BY Zenon, <2>1
<1>7. ASSUME NEW x \in Nodes PROVE FrameOK(x)'
  <2>1. CASE x = n
        BY Zenon, <1>2, <2>1 DEF TreeInv, FrameOK, Running
  <2>2. CASE x \in Kids(n)
        BY Zenon, <1>1, <2>2, IdleFields DEF FrameOK
  <2>3. CASE x \in Nodes \ ({n} \cup Kids(n))
        BY <1>3, <1>4, <2>3 DEF TreeInv, FrameOK
  <2>4. QED
        BY Zenon, <2>1, <2>2, <2>3
<1>8. ASSUME NEW x \in Nodes, NEW k \in Kids(x) PROVE KidOK(x, k)'
  <2>1. CASE x = n
        BY <1>1, <2>1 DEF KidOK, Idle
  <2>2. CASE x \in Kids(n)
        BY Zenon, <1>3, <1>5, <2>2 DEF KidOK
  <2>3. CASE x \in Nodes \ ({n} \cup Kids(n))
    <3>1. frame'[x].at = frame[x].at /\ Wanted(x)' = Wanted(x) /\ frame'[x].op = frame[x].op
          BY Zenon, <1>3, <2>3 DEF Wanted
    <3>2. CASE k = n
      <4>1. KidOK(x, n) /\ frame[n].at \notin {"idle", "done"}
            BY Zenon, <3>2 DEF TreeInv, Running
      <4>2. QED
            BY Zenon, <1>2, <1>3, <2>3, <3>1, <3>2, <4>1 DEF KidOK
    <3>3. CASE k # n
      <4>1. k \in Nodes \ ({n} \cup Kids(n)) /\ KidOK(x, k)
            BY Zenon, <1>6, <2>3, <3>3 DEF TreeInv
      <4>2. frame[k].at = "done" => frame'[k].result = frame[k].result
            BY Zenon, <1>3, <1>4, <4>1
      <4>3. QED
            BY Zenon, <1>3, <2>3, <3>1, <4>1, <4>2 DEF KidOK
    <3>4. QED
          BY Zenon, <3>2, <3>3
  <2>4. QED
        BY Zenon, <2>1, <2>2, <2>3
<1>9. ASSUME NEW x \in Nodes PROVE SerialOK(x)'
  <2> SUFFICES ASSUME Kind[x] = "serial", NEW i \in DOMAIN Order(x)', NEW j \in DOMAIN Order(x)', i < j,
                      frame'[(Order(x)')[j]].at # "idle"
               PROVE  frame'[(Order(x)')[i]].at = "done" /\ frame'[(Order(x)')[i]].result = "nil"
      BY Zenon DEF SerialOK
  <2> DEFINE y == (Order(x)')[i]
             z == (Order(x)')[j]
  <2>1. y \in Kids(x) /\ z \in Kids(x)
    <3>1. Order(x)' \in {Children[x], Reverse(Children[x])}
          BY Zenon DEF Order
    <3>2. QED
          BY Zenon, <3>1, OrderKids DEF Goes
  <2>2. x \in Nodes \ ({n} \cup Kids(n))
        BY <1>1, <1>3, <1>5, <2>1 DEF Idle
  <2>3. Order(x)' = Order(x) /\ SerialOK(x)
        BY Zenon, <1>3, <2>2 DEF Order, TreeInv
  <2>4. y \in Nodes \ Kids(n) /\ z \in Nodes \ Kids(n)
        BY Zenon, <1>6, <2>1, <2>2
  <2>5. frame[z].at # "idle"
        BY Zenon, <1>3, <2>4 DEF Running
  <2>6. frame[y].at = "done" /\ frame[y].result = "nil"
        BY Zenon, <2>3, <2>5 DEF SerialOK
  <2>7. y # n
        BY Zenon, <2>6 DEF Running
  <2>8. QED
        BY Zenon, <1>3, <1>4, <2>4, <2>6, <2>7
<1>10. QED
       BY Zenon, <1>7, <1>8, <1>9 DEF TreeInv

\* A node that is called may move on and call children that are idle, if it
\* keeps to what concerns the node itself.
LEMMA MoveTree ==
  ASSUME FrameType, TreeInv, NEW n \in Nodes, gen' = gen, Running(n), Running(n)', frame'[n].op = frame[n].op,
         NEW C \in SUBSET Kids(n), NEW op \in {"provision", "deprovision"}, NEW b \in BOOLEAN,
         \A m \in C : frame[m].at = "idle" /\ frame'[m] = Call(op, b),
         \A m \in Nodes \ (C \cup {n}) : frame'[m] = frame[m],
         FrameOK(n)', SerialOK(n)', \A m \in Kids(n) : KidOK(n, m)'
  PROVE  TreeInv'
<1>1. \A m \in C : m \in Nodes \ {n} /\ frame'[m].op = op /\ frame'[m].at = "start" /\ frame'[m].result = "nil"
      BY KidsAreNodes, KidsApart, CallFields DEF Operations
<1>2. \A x \in Nodes \ {n} : \A k \in Kids(x) : k \in Nodes \ C
  <2> SUFFICES ASSUME NEW x \in Nodes \ {n}, NEW k \in Kids(x), k \in C PROVE FALSE
      BY Zenon, KidsAreNodes
  <2>1. Parents(k) = {x} /\ Parents(k) = {n}
        BY Zenon, OneParent
  <2>2. QED
        BY Zenon, <2>1
<1>3. \A x \in C : \A k \in Kids(x) : frame[k].at = "idle" /\ k \in Nodes \ (C \cup {n})
  <2> SUFFICES ASSUME NEW x \in C, NEW k \in Kids(x)
               PROVE  frame[k].at = "idle" /\ k \in Nodes \ (C \cup {n})
      BY Zenon
  <2>1. frame[k].at = "idle"
        BY Zenon, <1>1, IdleBelow DEF Running
  <2>2. k \in Nodes \ C /\ k # n
        BY Zenon, <1>1, <1>2, KidsApart
  <2>3. QED
        BY Zenon, <2>1, <2>2
<1>4. ASSUME NEW x \in Nodes \ {n} PROVE FrameOK(x)'
  <2>1. CASE x \in C
    <3>1. Kind[x] \in DOMAIN PlacesOf /\ "start" \in PlacesOf[Kind[x]]
          BY TreeAssumption DEF PlacesOf
    <3>2. QED
          BY Zenon, <1>1, <2>1, <3>1 DEF FrameOK
  <2>2. CASE x \notin C
        BY <2>2 DEF TreeInv, FrameOK
  <2>3. QED
        BY Zenon, <2>1, <2>2
<1>5. ASSUME NEW x \in Nodes \ {n}, NEW k \in Kids(x) PROVE KidOK(x, k)'
  <2>1. CASE x \in C
        BY <1>3, <2>1 DEF KidOK
  <2>2. CASE x \notin C
    <3>1. frame'[x] = frame[x] /\ Wanted(x)' = Wanted(x)
          BY Zenon, <2>2 DEF Wanted
    <3>2. KidOK(x, k)
          BY Zenon DEF TreeInv
    <3>3. CASE k = n
          BY Zenon, <3>1, <3>2, <3>3 DEF KidOK, Running
    <3>4. CASE k # n
          BY <1>2, <3>1, <3>2, <3>4 DEF KidOK
    <3>5. QED
          BY Zenon, <3>3, <3>4
  <2>3. QED
        BY Zenon, <2>1, <2>2
<1>6. ASSUME NEW x \in Nodes \ {n} PROVE SerialOK(x)'
  <2> SUFFICES ASSUME Kind[x] = "serial", NEW i \in DOMAIN Order(x)', NEW j \in DOMAIN Order(x)', i < j,
                      frame'[(Order(x)')[j]].at # "idle"
               PROVE  frame'[(Order(x)')[i]].at = "done" /\ frame'[(Order(x)')[i]].result = "nil"
      BY Zenon DEF SerialOK
  <2> DEFINE y == (Order(x)')[i]
             z == (Order(x)')[j]
  <2>1. y \in Kids(x) /\ z \in Kids(x)
    <3>1. Order(x)' \in {Children[x], Reverse(Children[x])}
          BY Zenon DEF Order
    <3>2. QED
          BY Zenon, <3>1, OrderKids DEF Goes
  <2>2. x \notin C
        BY Zenon, <1>3, <2>1
  <2>3. Order(x)' = Order(x) /\ SerialOK(x)
        BY Zenon, <2>2 DEF Order, TreeInv
  <2>4. y \in Nodes \ C /\ z \in Nodes \ C
        BY Zenon, <1>2, <2>1
  <2>5. frame[z].at # "idle"
        BY Zenon, <2>4 DEF Running
  <2>6. frame[y].at = "done" /\ frame[y].result = "nil"
        BY <2>3, <2>5 DEF SerialOK
  <2>7. QED
        BY Zenon, <2>4, <2>6 DEF Running
<1>7. QED
      BY Zenon, <1>4, <1>5, <1>6 DEF TreeInv

\* A frame has an operation, and the ones that run have a direction.
LEMMA FrameFields ==
  ASSUME FrameType, NEW n \in Nodes
  PROVE  /\ frame[n] \in Frames /\ frame[n].op \in Operations /\ frame[n].result \in Results
         /\ frame[n].background \in BOOLEAN /\ frame[n].at \in Places
         /\ TreeInv /\ frame[n].at # "idle" => frame[n].op \in {"provision", "deprovision"}
<1>1. frame[n] \in Frames
      BY Zenon DEF FrameType
<1>2. /\ frame[n].op \in Operations /\ frame[n].result \in Results /\ frame[n].background \in BOOLEAN
      /\ frame[n].at \in Places
      BY Zenon, <1>1 DEF Frames
<1>3. TreeInv /\ frame[n].at # "idle" => frame[n].op \in {"provision", "deprovision"}
      BY Zenon, <1>2 DEF TreeInv, FrameOK, Operations
<1>4. QED
      BY Zenon, <1>1, <1>2, <1>3

\* A call of one node.
LEMMA CallType ==
  ASSUME FrameType, NEW n \in Nodes, NEW op \in Operations, NEW b \in BOOLEAN,
         frame' = [frame EXCEPT ![n] = Call(op, b)]
  PROVE  FrameType'
  BY Zenon, FrameTypes DEF FrameType

\* serial keeps the frames in order.
LEMMA SerialTree ==
  ASSUME FrameType, TreeInv, NEW n \in Nodes, Serial(n)
  PROVE  FrameType' /\ TreeInv'
<1> DEFINE s == Order(n)
<1>1. /\ Running(n) /\ gen' = gen /\ Kind[n] = "serial" /\ frame[n].at = "start"
      /\ frame[n].op \in {"provision", "deprovision"} /\ frame[n].background \in BOOLEAN
      BY Zenon, FrameFields DEF Serial, Quiet, Running
<1>2. /\ DOMAIN s = 1..Len(Children[n]) /\ Len(Children[n]) \in Nat
      /\ \A i \in DOMAIN s : s[i] \in Kids(n) /\ s[i] \in Nodes
      /\ \A m \in Kids(n) : \E i \in DOMAIN s : m = s[i]
      /\ \A i, j \in DOMAIN s : s[i] = s[j] => i = j
  <2>1. s \in {Children[n], Reverse(Children[n])}
        BY Zenon DEF Order
  <2> HIDE DEF s
  <2>2. Goes(s, n)
        BY Zenon, <2>1, OrderKids
  <2>3. QED
        BY Zenon, <2>2, KidsAreNodes DEF Goes
<1>3. \A i, j \in DOMAIN s : i < j /\ frame[s[j]].at # "idle" =>
        frame[s[i]].at = "done" /\ frame[s[i]].result = "nil"
      BY Zenon, <1>1 DEF TreeInv, SerialOK
<1> HIDE DEF s
<1>4. ASSUME NEW i \in DOMAIN s, frame[s[i]].result # "nil", frame[s[i]].at = "done", Return(n, frame[s[i]].result)
      PROVE  FrameType' /\ TreeInv'
  <2>1. ASSUME NEW m \in Kids(n) PROVE ~Running(m)
    <3>1. PICK k \in DOMAIN s : m = s[k]
          BY Zenon, <1>2
    <3>2. k < i \/ k = i \/ i < k
          BY <1>2
    <3>3. QED
          BY Zenon, <1>3, <1>4, <3>1, <3>2 DEF Running
  <2>2. frame[s[i]].result \in Results
        BY Zenon, <1>2, FrameFields
  <2>3. QED
        BY Zenon, <1>1, <1>4, <2>1, <2>2, ReturnType, ReturnTree
<1>5. ASSUME \A i \in DOMAIN s : frame[s[i]].at = "done", Return(n, "nil")
      PROVE  FrameType' /\ TreeInv'
  <2>1. \A m \in Kids(n) : ~Running(m)
        BY <1>2, <1>5 DEF Running
  <2>2. QED
        BY Zenon, <1>1, <1>5, <2>1, ReturnType, ReturnTree DEF Results
<1>6. ASSUME NEW i \in DOMAIN s, frame[s[i]].at = "idle",
             \A j \in DOMAIN s : frame[s[j]].result = "nil",
             \A j \in DOMAIN s : frame[s[j]].at # "done" => i <= j,
             frame' = [frame EXCEPT ![s[i]] = Call(frame[n].op, frame[n].background)]
      PROVE  FrameType' /\ TreeInv'
  <2>1. FrameType'
        BY Zenon, <1>1, <1>2, <1>6, CallType DEF Operations
  <2>2. s[i] # n /\ s[i] \in Nodes /\ s[i] \in Kids(n)
        BY Zenon, <1>2, KidsApart
  <2>3. frame'[s[i]] = Call(frame[n].op, frame[n].background) /\ \A m \in Nodes \ {s[i]} : frame'[m] = frame[m]
        BY Zenon, <1>6, <2>2 DEF FrameType
  <2>4. /\ frame'[s[i]].op = frame[n].op /\ frame'[s[i]].at = "start" /\ frame'[s[i]].result = "nil"
        /\ frame'[n] = frame[n]
        BY <1>1, <2>2, <2>3, CallFields DEF Operations
  <2>5. FrameOK(n)' /\ Running(n)' /\ Order(n)' = s
        BY Zenon, <1>1, <2>4 DEF TreeInv, FrameOK, Running, Order, s
  <2>6. SerialOK(n)'
    <3> SUFFICES ASSUME NEW j \in DOMAIN s, NEW k \in DOMAIN s, j < k, frame'[s[k]].at # "idle"
                 PROVE  frame'[s[j]].at = "done" /\ frame'[s[j]].result = "nil"
        BY Zenon, <2>5 DEF SerialOK
    <3>1. frame[s[j]].at = "done" /\ frame[s[j]].result = "nil"
      <4>1. CASE k = i
        <5>1. ~(i <= j)
              BY <1>2, <4>1
        <5>2. QED
              BY Zenon, <1>6, <5>1
      <4>2. CASE k # i
            BY Zenon, <1>2, <1>3, <2>3, <4>2
      <4>3. QED
            BY Zenon, <4>1, <4>2
    <3>2. s[j] # s[i]
          BY Zenon, <1>6, <3>1
    <3>3. QED
          BY Zenon, <1>2, <2>3, <3>1, <3>2
  <2>7. ASSUME NEW m \in Kids(n) PROVE KidOK(n, m)'
    <3>1. CASE m = s[i]
          BY Zenon, <1>1, <2>4, <3>1 DEF KidOK
    <3>2. CASE m # s[i]
      <4>1. frame'[m] = frame[m] /\ KidOK(n, m)
            BY Zenon, <2>3, <3>2, KidsAreNodes DEF TreeInv
      <4>2. QED
            BY Zenon, <1>1, <2>4, <4>1 DEF KidOK
    <3>3. QED
          BY Zenon, <3>1, <3>2
  <2>8. QED
    <3> DEFINE C == {s[i]}
    <3>1. /\ C \in SUBSET Kids(n)
          /\ \A m \in C : frame[m].at = "idle" /\ frame'[m] = Call(frame[n].op, frame[n].background)
          /\ \A m \in Nodes \ (C \cup {n}) : frame'[m] = frame[m]
          /\ frame'[n].op = frame[n].op
          BY Zenon, <1>6, <2>2, <2>3, <2>4
    <3> HIDE DEF C
    <3>2. TreeInv'
          BY <1>1, <2>5, <2>6, <2>7, <3>1, MoveTree
    <3>3. QED
          BY Zenon, <2>1, <3>2
<1>7. QED
  <2>1. \/ \E i \in DOMAIN s : frame[s[i]].result # "nil" /\ frame[s[i]].at = "done" /\ Return(n, frame[s[i]].result)
        \/ (\A i \in DOMAIN s : frame[s[i]].at = "done") /\ Return(n, "nil")
        \/ \E i \in DOMAIN s :
             /\ frame[s[i]].at = "idle"
             /\ \A j \in DOMAIN s : frame[s[j]].result = "nil"
             /\ \A j \in DOMAIN s : frame[s[j]].at # "done" => i <= j
             /\ frame' = [frame EXCEPT ![s[i]] = Call(frame[n].op, frame[n].background)]
        BY Zenon DEF Serial, s
  <2>2. QED
        BY Zenon, <1>4, <1>5, <1>6, <2>1
-----------------------------------------------------------------------------
(***************************************************************************)
(* The applications. Each call of the driver, and each step of Argo CD, is *)
(* a change of one application's only object.                              *)
(***************************************************************************)
\* What the operators on sequences make of the list of the only object.
LEMMA OnlyObject ==
  ASSUME NEW s \in One, s # <<>>
  PROVE  /\ s[1] \in Objects /\ s = <<s[1]>> /\ DOMAIN s = {1} /\ Len(s) = 1
         /\ Tail(s) = <<>> /\ RemoveAt(s, 1) = <<>>
         /\ \A x : [s EXCEPT ![1] = x] = <<x>>
         /\ \A x : <<x>> \o Tail(s) = <<x>>
<1>1. PICK o \in Objects : s = <<o>>
      BY Zenon DEF One
<1>2. s[1] = o /\ DOMAIN s = {1} /\ Len(s) = 1
      BY <1>1
<1>3. Tail(s) = <<>>
      BY <1>1
<1>4. RemoveAt(s, 1) = <<>>
      BY <1>1 DEF RemoveAt
<1>5. \A x : [s EXCEPT ![1] = x] = <<x>>
      BY <1>1
<1>6. ASSUME NEW x PROVE <<x>> \o Tail(s) = <<x>>
  <2> DEFINE t == <<x>> \o <<>>
  <2>1. <<x>> \in Seq({x}) /\ <<>> \in Seq({x})
        OBVIOUS
  <2>2. t \in Seq({x}) /\ Len(t) = 1 /\ t[1] = x
        BY <2>1
  <2>3. t = <<t[1]>>
        BY <2>2
  <2>4. QED
        BY Zenon, <1>3, <2>2, <2>3
<1>7. QED
      BY Zenon, <1>1, <1>2, <1>3, <1>4, <1>5, <1>6

Put(a, s) == apps' = [apps EXCEPT ![a] = s]

NewObject(spec) ==
  [spec |-> spec, automated |-> TRUE, finalizer |-> FALSE, deleting |-> FALSE, status |-> NoStatus]

\* CreateApplication makes the first object.
LEMMA CreatePuts ==
  ASSUME ArgoType, NEW a \in Apps, NEW spec, apps[a] = <<>>, CreateApplication(a, spec)
  PROVE  Put(a, <<NewObject(spec)>>)
<1>1. Append(apps[a], NewObject(spec)) = <<NewObject(spec)>>
      OBVIOUS
<1>2. QED
      BY Zenon, <1>1 DEF Put, NewObject, CreateApplication, ArgoType

\* A patch changes the object in place.
LEMMA PatchPuts ==
  ASSUME ArgoType, NEW a \in Apps, apps[a] # <<>>, NEW base, NEW new, PatchApplication(a, base, new)
  PROVE  Put(a, <<Merge(apps[a][1], base, new)>>)
<1>1. apps[a] \in One
      BY Zenon DEF ArgoType
<1>2. [apps[a] EXCEPT ![1] = Merge(apps[a][1], base, new)] = <<Merge(apps[a][1], base, new)>>
      BY Zenon, <1>1, OnlyObject
<1>3. QED
      BY Zenon, <1>2 DEF Put, PatchApplication, ArgoType

\* A delete marks the object, or removes it if nothing holds it.
LEMMA DeletePuts ==
  ASSUME ArgoType, NEW a \in Apps, apps[a] # <<>>, DeleteApplication(a)
  PROVE  Put(a, IF apps[a][1].finalizer THEN <<[apps[a][1] EXCEPT !.deleting = TRUE]>> ELSE <<>>)
<1>1. apps[a] \in One
      BY Zenon DEF ArgoType
<1>2. Tail(apps[a]) = <<>> /\ \A x : <<x>> \o Tail(apps[a]) = <<x>>
      BY Zenon, <1>1, OnlyObject
<1>3. QED
      BY Zenon, <1>2 DEF Put, DeleteApplication, ArgoType

\* Argo CD reports of the object.
LEMMA ReportPuts ==
  ASSUME ArgoType, NEW a \in Apps, NEW i \in DOMAIN apps[a], NEW status, Report(a, i, status)
  PROVE  i = 1 /\ apps[a] # <<>> /\ Put(a, <<[apps[a][1] EXCEPT !.status = status]>>)
<1>1. apps[a] \in One /\ apps[a] # <<>>
      BY DEF ArgoType
<1>2. i = 1 /\ [apps[a] EXCEPT ![1] = [apps[a][1] EXCEPT !.status = status]] = <<[apps[a][1] EXCEPT !.status = status]>>
      BY Zenon, <1>1, OnlyObject
<1>3. QED
      BY Zenon, <1>1, <1>2 DEF Put, Report, ArgoType

\* It removes the object that is being deleted.
LEMMA ReapPuts ==
  ASSUME ArgoType, NEW a \in Apps, NEW i \in DOMAIN apps[a], ArgoReap(a, i)
  PROVE  i = 1 /\ apps[a] # <<>> /\ Put(a, <<>>)
<1>1. apps[a] \in One /\ apps[a] # <<>>
      BY DEF ArgoType
<1>2. i = 1 /\ RemoveAt(apps[a], 1) = <<>>
      BY Zenon, <1>1, OnlyObject
<1>3. QED
      BY Zenon, <1>1, <1>2 DEF Put, ArgoReap, ArgoType

\* The labels of an application: those of the resource, and its name.
LEMMA LabelsOf ==
  ASSUME NEW a
  PROVE  /\ ApplicationLabels(ID(a)) = Range(ID(a).labels) \cup {[name |-> ApplicationLabel, value |-> a]}
         /\ \A k \in Range(ID(a).labels) : k.name # ApplicationLabel
         /\ \A b : ID(b).labels = ID(a).labels
<1>1. /\ ID(a).name = a
      /\ ID(a).labels =
           [i \in DOMAIN LabelOrder |-> [name |-> LabelOrder[i], value |-> LabelValue(ResourceLabels, LabelOrder[i])]]
      BY Zenon DEF ID, ResourceID
<1>2. \A b : ID(b).labels = ID(a).labels
      BY Zenon DEF ID, ResourceID
<1>3. \A i \in DOMAIN LabelOrder : LabelOrder[i] # ApplicationLabel
  <2> SUFFICES ASSUME NEW i \in DOMAIN LabelOrder PROVE LabelOrder[i] # ApplicationLabel
      BY Zenon
  <2>1. LabelOrder[i] \in {l.name : l \in ResourceLabels}
        BY Zenon, LabelAssumption DEF Range
  <2>2. QED
        BY Zenon, <2>1, LabelAssumption
<1>4. \A k \in Range(ID(a).labels) : k.name # ApplicationLabel
      BY <1>1, <1>3 DEF Range
<1>5. \A l \in {[name |-> ApplicationLabel, value |-> ID(a).name]} : l.name = ApplicationLabel
      OBVIOUS
<1>6. QED
      BY Zenon, <1>1, <1>2, <1>4, <1>5 DEF ApplicationLabels

\* An application's selector finds its own objects only.
LEMMA OwnSelector ==
  ASSUME NEW a \in Apps
  PROVE  SelectedBy[a] = {a}
<1>1. ASSUME NEW b \in Apps, ApplicationLabels(ID(a)) \subseteq ApplicationLabels(ID(b)) PROVE b = a
  <2> DEFINE l == [name |-> ApplicationLabel, value |-> a]
  <2>1. l \in ApplicationLabels(ID(b)) /\ l.name = ApplicationLabel /\ l.value = a
        BY Zenon, <1>1, LabelsOf
  <2>2. l \in {[name |-> ApplicationLabel, value |-> b]}
    <3> HIDE DEF l
    <3> QED
        BY Zenon, <2>1, LabelsOf
  <2>3. QED
        BY Zenon, <2>1, <2>2
<1>2. QED
      BY Zenon, <1>1 DEF SelectedBy, Selects

\* GetHelmApplication finds the object if there is one.
LEMMA Finds ==
  ASSUME ~Lag, ArgoType, NEW a \in Apps
  PROVE  /\ apps[a] = <<>> => GetHelmApplication(a).error = "NotFound"
         /\ apps[a] # <<>> => GetHelmApplication(a).error = "nil" /\ GetHelmApplication(a).object = apps[a][1]
<1>1. Selected(a) = {a} \X DOMAIN apps[a]
      BY Zenon, OwnSelector DEF Selected, Cached
<1>2. ASSUME apps[a] = <<>> PROVE GetHelmApplication(a).error = "NotFound"
  <2>1. Selected(a) = {}
        BY <1>1, <1>2
  <2>2. QED
        BY Zenon, <2>1 DEF GetHelmApplication, Outcome
<1>3. ASSUME apps[a] # <<>>
      PROVE  GetHelmApplication(a).error = "nil" /\ GetHelmApplication(a).object = apps[a][1]
  <2>1. DOMAIN apps[a] = {1}
        BY Zenon, <1>3, OnlyObject DEF ArgoType
  <2>2. Selected(a) = {<<a, 1>>}
        BY <1>1, <2>1
  <2>3. (CHOOSE p \in Selected(a) : TRUE) = <<a, 1>>
        BY Zenon, <2>2
  <2>4. GetHelmApplication(a) = [error |-> "nil", object |-> apps[a][1]]
        BY <2>2, <2>3 DEF GetHelmApplication, Outcome, Cached
  <2>5. QED
        BY <2>4
<1>4. QED
      BY Zenon, <1>2, <1>3
-----------------------------------------------------------------------------
(***************************************************************************)
(* Every step of a node keeps the frames to the tree.                      *)
(***************************************************************************)
\* A remote or an application that moves on without calling anything.
LEMMA GotoTree ==
  ASSUME FrameType, TreeInv, NEW n \in Nodes, gen' = gen, Running(n), Kind[n] \in {"remote", "application"},
         NEW at \in PlacesOf[Kind[n]],
         at \in {"create", "client"} => frame[n].op = "provision",
         at \in {"delete", "release"} => frame[n].op = "deprovision",
         frame'[n].at = at, frame'[n].op = frame[n].op, frame'[n].result = frame[n].result,
         \A m \in Nodes \ {n} : frame'[m] = frame[m],
         \A m \in Kids(n) : frame[m].at = "idle" \/ (at = "release" /\ frame[m].at = "done" /\ frame[m].result = "nil")
  PROVE  TreeInv'
<1>1. PlacesOf[Kind[n]] \subseteq {"start", "client", "wait", "release", "create", "patch", "delete"}
      BY DEF PlacesOf
<1>2. frame[n].result = "nil"
      BY Zenon DEF Running, TreeInv, FrameOK
<1>3. FrameOK(n)' /\ Running(n)' /\ SerialOK(n)'
      BY <1>1, <1>2 DEF FrameOK, Running, SerialOK, TreeInv
<1>4. ASSUME NEW m \in Kids(n) PROVE KidOK(n, m)'
  <2>1. frame'[m] = frame[m]
        BY Zenon, KidsAreNodes, KidsApart
  <2>2. frame[m].at # "idle" => frame[m].op = frame[n].op
        BY Zenon DEF TreeInv, KidOK
  <2>3. QED
        BY Zenon, <2>1, <2>2 DEF KidOK
<1>5. QED
  <2> DEFINE C == {}
  <2>1. /\ C \in SUBSET Kids(n)
        /\ \A m \in C : frame[m].at = "idle" /\ frame'[m] = Call("provision", FALSE)
        /\ \A m \in Nodes \ (C \cup {n}) : frame'[m] = frame[m]
        BY Zenon
  <2> HIDE DEF C
  <2>2. QED
        BY Zenon, <1>3, <1>4, <2>1, MoveTree

\* A node that calls all its children and waits for them.
LEMMA EnterTree ==
  ASSUME FrameType, TreeInv, NEW n \in Nodes, gen' = gen, Kind[n] \in {"concurrent", "conditional", "remote"},
         frame[n].at \in {"start", "client"}, NEW b \in BOOLEAN,
         NEW op, op = IF Kind[n] = "conditional" THEN Wanted(n) ELSE frame[n].op,
         frame' = [m \in Nodes |-> IF m = n THEN [frame[n] EXCEPT !.at = "wait"]
                                   ELSE IF m \in Kids(n) THEN Call(op, b) ELSE frame[m]]
  PROVE  FrameType' /\ TreeInv'
<1>1. Running(n) /\ frame[n].result = "nil" /\ op \in {"provision", "deprovision"} /\ op \in Operations
      BY Zenon, FrameFields DEF Running, TreeInv, FrameOK, Wanted, Operations
<1>2. frame[n] \in Frames /\ frame'[n] = [frame[n] EXCEPT !.at = "wait"]
      BY Zenon DEF FrameType
<1>3. /\ frame'[n].at = "wait" /\ frame'[n].op = frame[n].op /\ frame'[n].result = "nil"
      BY Zenon, <1>1, <1>2 DEF Frames
<1>4. \A m \in Kids(n) : frame[m].at = "idle" /\ frame'[m] = Call(op, b) /\ m \in Nodes \ {n}
      BY Zenon, KidsAreNodes, KidsApart DEF TreeInv, KidOK
<1>5. \A m \in Nodes \ (Kids(n) \cup {n}) : frame'[m] = frame[m]
      BY Zenon
<1>6. FrameType'
  <2>1. [frame[n] EXCEPT !.at = "wait"] \in Frames /\ Call(op, b) \in Frames
        BY Zenon, <1>1, <1>2, FrameTypes DEF Places
  <2>2. QED
        BY Zenon, <2>1 DEF FrameType
<1>7. FrameOK(n)' /\ Running(n)' /\ SerialOK(n)'
  <2>1. "wait" \in PlacesOf[Kind[n]] /\ frame[n].op # "none"
        BY DEF PlacesOf, TreeInv, FrameOK
  <2>2. QED
        BY Zenon, <1>1, <1>3, <2>1 DEF FrameOK, Running, SerialOK
<1>8. ASSUME NEW m \in Kids(n) PROVE KidOK(n, m)'
  <2>1. frame'[m].op = op /\ frame'[m].at = "start"
        BY <1>1, <1>4, CallFields
  <2>2. Wanted(n)' = Wanted(n)
        BY Zenon, <1>3 DEF Wanted
  <2>3. QED
        BY Zenon, <1>3, <2>1, <2>2 DEF KidOK
<1>9. QED
      BY Zenon, <1>1, <1>3, <1>4, <1>5, <1>6, <1>7, <1>8, MoveTree

\* A node with one child.
LEMMA OnlyChild ==
  ASSUME NEW n \in Nodes, Kind[n] \in {"conditional", "remote"}
  PROVE  Kids(n) = {Children[n][1]} /\ Children[n][1] \in Nodes /\ Children[n][1] # n
<1>1. Children[n] \in Seq(Nodes) /\ Len(Children[n]) = 1
      BY Zenon, TreeAssumption
<1>2. Kids(n) = {Children[n][1]}
      BY <1>1 DEF Kids, Range
<1>3. QED
      BY Zenon, <1>2, KidsAreNodes, KidsApart

\* concurrent keeps the frames in order.
LEMMA ConcurrentTree ==
  ASSUME FrameType, TreeInv, NEW n \in Nodes, Concurrent(n)
  PROVE  FrameType' /\ TreeInv'
<1>1. gen' = gen /\ Kind[n] = "concurrent" /\ frame[n].background \in BOOLEAN /\ frame[n].result \in Results
      BY Zenon, FrameFields DEF Concurrent, Quiet
<1>2. CASE frame[n].at = "start"
  <2>1. frame' = [m \in Nodes |-> IF m = n THEN [frame[n] EXCEPT !.at = "wait"]
                                  ELSE IF m \in Kids(n) THEN Call(frame[n].op, frame[n].background) ELSE frame[m]]
        BY Zenon, <1>2 DEF Concurrent, Kids
  <2>2. QED
        BY Zenon, <1>1, <1>2, <2>1, EnterTree
<1>3. CASE frame[n].at = "wait"
  <2>1. Return(n, frame[n].result) /\ Running(n) /\ \A m \in Kids(n) : ~Running(m)
        BY Zenon, <1>3 DEF Concurrent, Kids, Running
  <2>2. QED
        BY Zenon, <1>1, <2>1, ReturnType, ReturnTree
<1>4. QED
      BY Zenon, <1>2, <1>3 DEF Concurrent

\* conditional does.
LEMMA ConditionalTree ==
  ASSUME FrameType, TreeInv, NEW n \in Nodes, Conditional(n)
  PROVE  FrameType' /\ TreeInv'
<1> DEFINE c == Children[n][1]
<1>1. /\ gen' = gen /\ Kind[n] = "conditional" /\ frame[n].background \in BOOLEAN
      /\ Kids(n) = {c} /\ c \in Nodes /\ c # n
      BY Zenon, FrameFields, OnlyChild DEF Conditional, Quiet
<1>2. CASE frame[n].at = "start"
  <2>1. frame' = [frame EXCEPT ![n].at = "wait", ![c] = Call(Wanted(n), frame[n].background)]
        BY Zenon, <1>2 DEF Conditional
  <2>2. frame' = [m \in Nodes |-> IF m = n THEN [frame[n] EXCEPT !.at = "wait"]
                                  ELSE IF m \in Kids(n) THEN Call(Wanted(n), frame[n].background) ELSE frame[m]]
        BY Zenon, <1>1, <2>1 DEF FrameType
  <2>3. QED
        BY Zenon, <1>1, <1>2, <2>2, EnterTree
<1>3. CASE frame[n].at = "wait"
  <2>1. Return(n, frame[c].result) /\ Running(n) /\ frame[c].result \in Results /\ \A m \in Kids(n) : ~Running(m)
        BY Zenon, <1>1, <1>3, FrameFields DEF Conditional, Running
  <2>2. QED
        BY Zenon, <1>1, <2>1, ReturnType, ReturnTree
<1>4. QED
      BY Zenon, <1>2, <1>3 DEF Conditional

\* What Goto does to the frame of the node.
LEMMA GotoFields ==
  ASSUME FrameType, NEW n \in Nodes, NEW at \in Places, NEW base \in Bases,
         frame' = Goto(n, at) \/ frame' = [frame EXCEPT ![n].at = at, ![n].base = base]
  PROVE  /\ FrameType'
         /\ frame'[n].at = at /\ frame'[n].op = frame[n].op /\ frame'[n].result = frame[n].result
         /\ frame'[n].background = frame[n].background
         /\ frame' # Goto(n, at) => frame'[n].base = base
         /\ \A m \in Nodes \ {n} : frame'[m] = frame[m]
<1>1. frame[n] \in Frames
      BY Zenon DEF FrameType
<1>2. CASE frame' = Goto(n, at)
  <2>1. frame' = [frame EXCEPT ![n] = [frame[n] EXCEPT !.at = at]]
        BY Zenon, <1>2 DEF Goto, FrameType
  <2>2. frame'[n] = [frame[n] EXCEPT !.at = at] /\ \A m \in Nodes \ {n} : frame'[m] = frame[m]
        BY Zenon, <2>1 DEF FrameType
  <2>3. FrameType'
        BY Zenon, <1>1, <2>1, FrameTypes DEF FrameType
  <2>4. /\ frame'[n].at = at /\ frame'[n].op = frame[n].op /\ frame'[n].result = frame[n].result
        /\ frame'[n].background = frame[n].background
        BY Zenon, <1>1, <2>2 DEF Frames
  <2>5. QED
        BY Zenon, <1>2, <2>2, <2>3, <2>4
<1>3. CASE frame' = [frame EXCEPT ![n].at = at, ![n].base = base]
  <2>1. frame' = [frame EXCEPT ![n] = [frame[n] EXCEPT !.at = at, !.base = base]]
        BY Zenon, <1>3 DEF FrameType
  <2>2. frame'[n] = [frame[n] EXCEPT !.at = at, !.base = base] /\ \A m \in Nodes \ {n} : frame'[m] = frame[m]
        BY Zenon, <2>1 DEF FrameType
  <2>3. FrameType'
        BY Zenon, <1>1, <2>1, FrameTypes DEF FrameType
  <2>4. /\ frame'[n].at = at /\ frame'[n].op = frame[n].op /\ frame'[n].result = frame[n].result
        /\ frame'[n].background = frame[n].background /\ frame'[n].base = base
        BY Zenon, <1>1, <2>2 DEF Frames
  <2>5. QED
        BY Zenon, <2>2, <2>3, <2>4
<1>4. QED
      BY Zenon, <1>2, <1>3

\* The ways a remote's step changes the frames.
LEMMA RemoteMoves ==
  ASSUME FrameType, TreeInv, NEW n \in Nodes, RemoteStep(n)
  PROVE  /\ gen' = gen /\ Kind[n] = "remote" /\ Running(n)
         /\ \/ \E r \in Results : Return(n, r) /\ (frame[n].at = "wait" => frame[Children[n][1]].at = "done")
            \/ frame' = Goto(n, "client") /\ Active(n, "provision", "start")
            \/ /\ frame' = Goto(n, "release") /\ frame[n].op = "deprovision"
               /\ \/ frame[n].at = "start"
                  \/ frame[n].at = "wait" /\ frame[Children[n][1]].at = "done" /\ frame[Children[n][1]].result = "nil"
            \/ frame[n].at \in {"start", "client"} /\ \E b \in BOOLEAN : Enter(n, b)
<1>1. gen' = gen /\ Kind[n] = "remote"
      BY Zenon DEF RemoteStep, ProvisionRemote, ProvisionOnRemote, DeprovisionOnRemote, DeprovisionRemote, Quiet
<1>2. /\ frame[n].background \in BOOLEAN /\ (frame[n].background \/ n \in Background) \in BOOLEAN
      /\ frame[Children[n][1]].result \in Results
      BY Zenon, <1>1, OnlyChild, FrameFields
<1>3. CASE ProvisionRemote(n)
      BY Zenon, <1>1, <1>3 DEF ProvisionRemote, Active, Running, Fail, Results
<1>4. CASE ProvisionOnRemote(n)
      BY Zenon, <1>1, <1>2, <1>4 DEF ProvisionOnRemote, Active, Running, Fail, Results
<1>5. CASE DeprovisionOnRemote(n)
      BY Zenon, <1>1, <1>2, <1>5 DEF DeprovisionOnRemote, Active, Running, Fail, Results
<1>6. CASE DeprovisionRemote(n)
      BY SMTT(30), <1>1, <1>6 DEF DeprovisionRemote, Active, Running, Fail, Results
<1>7. QED
      BY Zenon, <1>3, <1>4, <1>5, <1>6 DEF RemoteStep

\* remotecluster keeps the frames in order.
LEMMA RemoteTree ==
  ASSUME FrameType, TreeInv, NEW n \in Nodes, RemoteStep(n)
  PROVE  FrameType' /\ TreeInv'
<1> DEFINE c == Children[n][1]
<1>1. gen' = gen /\ Kind[n] = "remote" /\ Running(n) /\ Kids(n) = {c} /\ c \in Nodes /\ c # n
  <2>1. gen' = gen /\ Kind[n] = "remote" /\ Running(n)
        BY Zenon, RemoteMoves
  <2>2. Kids(n) = {c} /\ c \in Nodes /\ c # n
        BY Zenon, <2>1, OnlyChild
  <2>3. QED
        BY Zenon, <2>1, <2>2
<1>2. /\ frame[n].at \in {"start", "client"} => frame[c].at = "idle"
      /\ frame[n].at = "release" => frame[c].at \in {"idle", "done"}
      /\ frame[n].at \in {"start", "client", "wait", "release"}
  <2>1. KidOK(n, c) /\ FrameOK(n)
        BY Zenon, <1>1 DEF TreeInv
  <2>2. QED
        BY SMTT(30), <1>1, <2>1 DEF KidOK, FrameOK, PlacesOf, Running
<1>3. ASSUME NEW r \in Results, Return(n, r), frame[n].at = "wait" => frame[c].at = "done"
      PROVE  FrameType' /\ TreeInv'
  <2>1. \A m \in Kids(n) : ~Running(m)
        BY Zenon, <1>1, <1>2, <1>3 DEF Running
  <2>2. QED
        BY Zenon, <1>1, <1>3, <2>1, ReturnType, ReturnTree
<1>4. ASSUME NEW at \in {"client", "release"}, frame' = Goto(n, at),
             at = "client" => frame[n].op = "provision", at = "release" => frame[n].op = "deprovision",
             frame[c].at = "idle" \/ (at = "release" /\ frame[c].at = "done" /\ frame[c].result = "nil")
      PROVE  FrameType' /\ TreeInv'
  <2>1. at \in Places /\ at \in PlacesOf[Kind[n]] /\ None \in Bases
    <3>1. PlacesOf["remote"] = {"start", "client", "wait", "release"} /\ None \in Bases
          BY Zenon DEF PlacesOf, Bases
    <3>2. at \in Places
          BY Zenon DEF Places
    <3>3. QED
          BY Zenon, <1>1, <3>1, <3>2
  <2>2. /\ FrameType'
        /\ frame'[n].at = at /\ frame'[n].op = frame[n].op /\ frame'[n].result = frame[n].result
        /\ \A m \in Nodes \ {n} : frame'[m] = frame[m]
        BY Zenon, <1>4, <2>1, GotoFields
  <2>3. QED
        BY Zenon, <1>1, <1>4, <2>1, <2>2, GotoTree
<1>5. ASSUME NEW b \in BOOLEAN, frame[n].at \in {"start", "client"}, Enter(n, b)
      PROVE  FrameType' /\ TreeInv'
  <2>1. frame' = [m \in Nodes |-> IF m = n THEN [frame[n] EXCEPT !.at = "wait"]
                                  ELSE IF m \in Kids(n) THEN Call(frame[n].op, b) ELSE frame[m]]
        BY Zenon, <1>1, <1>5 DEF Enter, FrameType
  <2>2. QED
        BY Zenon, <1>1, <1>5, <2>1, EnterTree
<1>6. CASE frame' = Goto(n, "client") /\ Active(n, "provision", "start")
      BY Zenon, <1>2, <1>4, <1>6 DEF Active
<1>7. CASE /\ frame' = Goto(n, "release") /\ frame[n].op = "deprovision"
           /\ \/ frame[n].at = "start"
              \/ frame[n].at = "wait" /\ frame[c].at = "done" /\ frame[c].result = "nil"
      BY Zenon, <1>2, <1>4, <1>7
<1>8. QED
      BY SMTT(30), <1>3, <1>5, <1>6, <1>7, RemoteMoves

\* The copy of an object, that a patch is made of.
LEMMA BaseType ==
  ASSUME NEW o \in Objects
  PROVE  Base(o) \in Copies /\ Base(o) \in Bases /\ Base(o).spec = o.spec /\ Base(o).finalizer = o.finalizer
<1>1. Base(o) \in Copies
      BY Zenon DEF Base, Objects, Copies
<1>2. QED
      BY Zenon, <1>1 DEF Base, Bases

\* The ways an application's step changes the frames.
LEMMA ApplicationMoves ==
  ASSUME ~Lag, ArgoType, FrameType, TreeInv, NEW n \in Nodes, ApplicationStep(n)
  PROVE  /\ gen' = gen /\ Kind[n] = "application" /\ n \in Apps /\ Running(n)
         /\ \/ \E r \in Results : Return(n, r)
            \/ frame' = Goto(n, "create") /\ Active(n, "provision", "start") /\ apps[n] = <<>> /\ apps' = apps
            \/ /\ frame[n].at = "start" /\ apps[n] # <<>> /\ apps' = apps
               /\ frame' = [frame EXCEPT ![n].at = "patch", ![n].base = Base(apps[n][1])]
            \/ frame' = Goto(n, "delete") /\ Active(n, "deprovision", "patch")
<1>1. gen' = gen /\ Kind[n] = "application" /\ n \in Apps
      BY Zenon, TreeAssumption DEF ApplicationStep, Lookup, Create, Update, Finalize, Discard, Quiet
<1>2. frame[n].background \in BOOLEAN /\ Await(n) \in Results /\ \A status : Judge(n, status) \in Results
      BY Zenon, FrameFields DEF Await, Judge, Results
<1>3. CASE Lookup(n)
  <2>1. frame[n].op \in {"provision", "deprovision"} /\ frame[n].at = "start" /\ apps' = apps /\ Running(n)
        BY Zenon, <1>3, FrameFields DEF Lookup, argoVars, Running
  <2>2. CASE Fail(n, "error")
        BY Zenon, <1>1, <2>1, <2>2 DEF Fail, Results
  <2>3. CASE apps[n] = <<>> /\ ~Fail(n, "error")
    <3>1. GetHelmApplication(n).error = "NotFound"
          BY Zenon, <1>1, <2>3, Finds
    <3>2. Return(n, "error") \/ (frame[n].op = "provision" /\ frame' = Goto(n, "create")) \/ Return(n, "nil")
          BY Zenon, <1>3, <2>3, <3>1 DEF Lookup
    <3>3. QED
          BY Zenon, <1>1, <2>1, <2>3, <3>2 DEF Results, Active
  <2>4. CASE apps[n] # <<>> /\ ~Fail(n, "error")
    <3>1. GetHelmApplication(n).error = "nil" /\ GetHelmApplication(n).object = apps[n][1]
          BY Zenon, <1>1, <2>4, Finds
    <3>2. \/ Return(n, "error") \/ Return(n, Await(n))
          \/ frame' = [frame EXCEPT ![n].at = "patch", ![n].base = Base(apps[n][1])]
          BY Zenon, <1>3, <2>4, <3>1 DEF Lookup
    <3>3. QED
          BY Zenon, <1>1, <1>2, <2>1, <2>4, <3>2 DEF Results
  <2>5. QED
        BY Zenon, <2>2, <2>3, <2>4
<1>4. CASE Create(n)
      BY Zenon, <1>1, <1>2, <1>4 DEF Create, Fail, Running, Results
<1>5. CASE Update(n)
      BY Zenon, <1>1, <1>2, <1>5 DEF Update, Fail, Running, Results, Active
<1>6. CASE Finalize(n)
      BY Zenon, <1>1, <1>2, <1>6 DEF Finalize, Fail, Running, Results, Active
<1>7. CASE Discard(n)
      BY Zenon, <1>1, <1>2, <1>7 DEF Discard, Fail, Running, Results
<1>8. QED
      BY Zenon, <1>3, <1>4, <1>5, <1>6, <1>7 DEF ApplicationStep

\* A leaf has no children.
LEMMA LeafKids ==
  ASSUME NEW n \in Nodes, Kind[n] \in {"application", "resource"}
  PROVE  Kids(n) = {}
<1>1. Children[n] = <<>>
      BY Zenon, TreeAssumption
<1>2. QED
      BY <1>1 DEF Kids, Range

\* application keeps the frames in order.
LEMMA ApplicationTree ==
  ASSUME ~Lag, ArgoType, FrameType, TreeInv, NEW n \in Nodes, ApplicationStep(n)
  PROVE  FrameType' /\ TreeInv'
<1>1. gen' = gen /\ Kind[n] = "application" /\ n \in Apps /\ Running(n) /\ Kids(n) = {}
      BY Zenon, ApplicationMoves, LeafKids
<1>2. ASSUME NEW r \in Results, Return(n, r) PROVE FrameType' /\ TreeInv'
      BY Zenon, <1>1, <1>2, ReturnType, ReturnTree
<1>3. ASSUME NEW at \in {"create", "patch", "delete"}, NEW base \in Bases,
             frame' = Goto(n, at) \/ frame' = [frame EXCEPT ![n].at = at, ![n].base = base],
             at = "create" => frame[n].op = "provision", at = "delete" => frame[n].op = "deprovision"
      PROVE  FrameType' /\ TreeInv'
  <2>1. at \in Places /\ at \in PlacesOf[Kind[n]]
        BY <1>1 DEF Places, PlacesOf
  <2>2. /\ FrameType'
        /\ frame'[n].at = at /\ frame'[n].op = frame[n].op /\ frame'[n].result = frame[n].result
        /\ \A m \in Nodes \ {n} : frame'[m] = frame[m]
        BY <1>3, <2>1, GotoFields
  <2>3. QED
        BY Zenon, <1>1, <1>3, <2>1, <2>2, GotoTree
<1>4. None \in Bases
      BY Zenon DEF Bases
<1>5. CASE frame' = Goto(n, "create") /\ Active(n, "provision", "start")
      BY Zenon, <1>3, <1>4, <1>5 DEF Active
<1>6. CASE apps[n] # <<>> /\ frame' = [frame EXCEPT ![n].at = "patch", ![n].base = Base(apps[n][1])]
  <2>1. Base(apps[n][1]) \in Bases
        BY Zenon, <1>1, <1>6, OnlyObject, BaseType DEF ArgoType
  <2>2. QED
        BY Zenon, <1>3, <1>6, <2>1
<1>7. CASE frame' = Goto(n, "delete") /\ Active(n, "deprovision", "patch")
      BY Zenon, <1>3, <1>4, <1>7 DEF Active
<1>8. QED
      BY Zenon, <1>2, <1>5, <1>6, <1>7, ApplicationMoves

\* A resource answers at once.
LEMMA ResourceMoves ==
  ASSUME FrameType, TreeInv, NEW n \in Nodes, ResourceStep(n)
  PROVE  /\ gen' = gen /\ Kind[n] = "resource" /\ Running(n) /\ \E r \in Results : Return(n, r)
<1>1. gen' = gen /\ Kind[n] = "resource" /\ Running(n)
      BY Zenon DEF ResourceStep, Quiet, Running
<1>2. Return(n, "nil") \/ Return(n, "yield") \/ Return(n, "error")
      BY Zenon DEF ResourceStep, Fail
<1>3. QED
      BY Zenon, <1>1, <1>2 DEF Results

\* resource keeps the frames in order.
LEMMA ResourceTree ==
  ASSUME FrameType, TreeInv, NEW n \in Nodes, ResourceStep(n)
  PROVE  FrameType' /\ TreeInv'
<1>1. gen' = gen /\ Kind[n] = "resource" /\ Running(n) /\ Kids(n) = {}
      BY Zenon, ResourceMoves, LeafKids
<1>2. PICK r \in Results : Return(n, r)
      BY Zenon, ResourceMoves
<1>3. QED
      BY Zenon, <1>1, <1>2, ReturnType, ReturnTree

\* Below a node that is not running nothing is called.
LEMMA IdleUnder ==
  ASSUME TreeInv, NEW n \in Nodes, ~Running(n), NEW m \in Under[n], m # n
  PROVE  frame[m].at = "idle"
<1> DEFINE S == {x \in Nodes : x = n \/ frame[x].at = "idle"}
<1>1. S \in SUBSET Nodes /\ n \in S
      BY Zenon
<1>2. ASSUME NEW p \in S PROVE Kids(p) \subseteq S
  <2>1. p \in Nodes /\ ~Running(p)
        BY Zenon DEF Running
  <2>2. QED
        BY Zenon, <2>1, IdleBelow, KidsAreNodes
<1>3. Under[n] \subseteq S
  <2> HIDE DEF S
  <2> QED
      BY Zenon, <1>1, <1>2, UnderLeast
<1>4. QED
      BY Zenon, <1>3

\* A pass begins with all frames idle, and leaves them so.
LEMMA RootTree ==
  ASSUME FrameType, TreeInv, ~Running(Root), NEW f \in {Idle, Call("provision", FALSE), Call("deprovision", FALSE)},
         frame' = [frame EXCEPT ![Root] = f]
  PROVE  FrameType' /\ TreeInv'
<1>1. \A m \in Nodes \ {Root} : frame'[m] = frame[m] /\ frame[m].at = "idle"
      BY Zenon, IdleUnder, TreeAssumption DEF FrameType
<1>2. frame'[Root] = f /\ Root \in Nodes
      BY Zenon, TreeAssumption DEF FrameType
<1>3. FrameType'
      BY Zenon, <1>2, FrameTypes DEF FrameType, Operations
<1>4. FrameOK(Root)'
  <2>1. CASE f = Idle
        BY Zenon, <1>2, <2>1, IdleFields DEF FrameOK
  <2>2. CASE f # Idle
    <3>1. "start" \in PlacesOf[Kind[Root]]
          BY TreeAssumption DEF PlacesOf
    <3>2. f.op # "none" /\ f.at = "start" /\ f.result = "nil"
          BY ZenonT(30), <2>2, CallFields DEF Operations
    <3>3. QED
          BY SMTT(30), <1>2, <3>1, <3>2 DEF FrameOK
  <2>3. QED
        BY Zenon, <2>1, <2>2
<1>5. \A n \in Nodes \ {Root} : FrameOK(n)'
      BY <1>1 DEF TreeInv, FrameOK
<1>6. \A n \in Nodes : \A m \in Kids(n) : m \in Nodes \ {Root} /\ frame'[m].at = "idle"
      BY Zenon, <1>1, KidsAreNodes, OneParent
<1>7. ASSUME NEW n \in Nodes PROVE SerialOK(n)'
  <2> SUFFICES ASSUME NEW j \in DOMAIN Order(n)' PROVE frame'[(Order(n)')[j]].at = "idle"
      BY Zenon DEF SerialOK
  <2>1. Order(n)' \in {Children[n], Reverse(Children[n])}
        BY Zenon DEF Order
  <2>2. (Order(n)')[j] \in Kids(n)
        BY Zenon, <2>1, OrderKids DEF Goes
  <2>3. QED
        BY Zenon, <1>6, <2>2
<1>8. QED
      BY SMTT(30), <1>3, <1>4, <1>5, <1>6, <1>7 DEF TreeInv, KidOK

\* A crash ends all calls.
LEMMA CrashTree ==
  ASSUME frame' = [n \in Nodes |-> Idle]
  PROVE  FrameType' /\ TreeInv'
<1>1. \A n \in Nodes : frame'[n] = Idle
      BY Zenon
<1>2. FrameType'
      BY Zenon, FrameTypes DEF FrameType
<1>3. \A n \in Nodes : FrameOK(n)'
      BY Zenon, <1>1, IdleFields DEF FrameOK
<1>4. \A n \in Nodes : \A m \in Kids(n) : frame'[m].at = "idle"
      BY Zenon, <1>1, KidsAreNodes, IdleFields
<1>5. ASSUME NEW n \in Nodes PROVE SerialOK(n)'
  <2> SUFFICES ASSUME NEW j \in DOMAIN Order(n)' PROVE frame'[(Order(n)')[j]].at = "idle"
      BY Zenon DEF SerialOK
  <2>1. Order(n)' \in {Children[n], Reverse(Children[n])}
        BY Zenon DEF Order
  <2>2. (Order(n)')[j] \in Kids(n)
        BY Zenon, <2>1, OrderKids DEF Goes
  <2>3. QED
        BY Zenon, <1>4, <2>2
<1>6. QED
      BY Zenon, <1>2, <1>3, <1>4, <1>5 DEF TreeInv, KidOK

\* Every step keeps the frames to the tree.
LEMMA NextTree ==
  ASSUME ~Lag, ArgoType, FrameType, TreeInv, [Next]_vars
  PROVE  FrameType' /\ TreeInv'
<1>1. CASE UNCHANGED <<frame, gen>>
  <2>1. ASSUME NEW n \in Nodes PROVE FrameOK(n)' /\ SerialOK(n)' /\ \A m \in Kids(n) : KidOK(n, m)'
    <3>1. FrameOK(n)'
          BY SMTT(30), <1>1 DEF TreeInv, FrameOK
    <3>2. SerialOK(n)'
      <4>1. Order(n)' = Order(n)
            BY Zenon, <1>1 DEF Order
      <4>2. QED
            BY Zenon, <1>1, <4>1 DEF TreeInv, SerialOK
    <3>3. ASSUME NEW m \in Kids(n) PROVE KidOK(n, m)'
      <4>1. Wanted(n)' = Wanted(n)
            BY Zenon, <1>1 DEF Wanted
      <4>2. QED
            BY Zenon, <1>1, <4>1 DEF TreeInv, KidOK
    <3>4. QED
          BY Zenon, <3>1, <3>2, <3>3
  <2>2. QED
        BY Zenon, <1>1, <2>1 DEF FrameType, TreeInv
<1>2. CASE PassStart
  <2>1. ~Running(Root) /\ \E f \in {Idle, Call("provision", FALSE), Call("deprovision", FALSE)} : frame' = [frame EXCEPT ![Root] = f]
        BY Zenon, <1>2 DEF PassStart, Running
  <2>2. QED
        BY Zenon, <2>1, RootTree
<1>3. CASE PassEnd
  <2>1. ~Running(Root) /\ \E f \in {Idle, Call("provision", FALSE), Call("deprovision", FALSE)} : frame' = [frame EXCEPT ![Root] = f]
        BY Zenon, <1>3 DEF PassEnd, Running
  <2>2. QED
        BY Zenon, <2>1, RootTree
<1>4. CASE Crash
      BY Zenon, <1>4, CrashTree DEF Crash
<1>5. ASSUME NEW n \in Nodes, Step(n) PROVE FrameType' /\ TreeInv'
      BY Zenon, <1>5, SerialTree, ConcurrentTree, ConditionalTree, RemoteTree, ApplicationTree, ResourceTree DEF Step
<1>6. QED
  <2>1. Edit \/ Delete \/ External \/ UNCHANGED vars => UNCHANGED <<frame, gen>>
        BY Zenon DEF Edit, Delete, External, Argo, Collect, treeVars, vars
  <2>2. QED
        BY Zenon, <1>1, <1>2, <1>3, <1>4, <1>5, <2>1 DEF Next, Pass
-----------------------------------------------------------------------------
(***************************************************************************)
(* What a step does to an application's object, in terms of its fields.    *)
(***************************************************************************)
\* An application is created only when there is none, and patched with a
\* copy at hand.
AppsInv ==
  \A a \in Apps : /\ frame[a].at = "create" => apps[a] = <<>>
                  /\ frame[a].at = "patch" => frame[a].base \in Copies

Creates(a) ==
  frame[a].at = "create" /\ apps[a] = <<>> /\ \E spec \in Required(a, gen) : Put(a, <<NewObject(spec)>>)

Patches(a) ==
  /\ frame[a].at = "patch" /\ apps[a] # <<>>
  /\ \E o \in Objects :
       /\ Put(a, <<o>>)
       /\ o.deleting = apps[a][1].deleting /\ o.status = apps[a][1].status
       /\ o.spec = apps[a][1].spec \/ (frame[a].op = "provision" /\ o.spec \in Required(a, gen))

Deletes(a) ==
  /\ frame[a].at = "delete" /\ apps[a] # <<>>
  /\ \/ Put(a, <<>>)
     \/ \E o \in Objects : Put(a, <<o>>) /\ o.deleting /\ o.spec = apps[a][1].spec /\ o.status = apps[a][1].status

Reports(a) ==
  /\ apps[a] # <<>>
  /\ \E o \in Objects :
       /\ Put(a, <<o>>)
       /\ o.spec = apps[a][1].spec /\ o.deleting = apps[a][1].deleting
       /\ apps[a][1].status.health # None => o.status.health # None
       /\ \/ workload' = workload /\ apps[a][1].status.sync # None
          \/ ~o.deleting /\ Reachable(a) /\ workload' = [workload EXCEPT ![a] = o.spec]

Reaps(a) ==
  /\ apps[a] # <<>> /\ apps[a][1].deleting /\ Put(a, <<>>)
  /\ workload' = IF Reachable(a)
                 THEN [b \in Apps |-> IF b = a \/ (a = ClusterApp /\ b \in Remote) THEN None ELSE workload[b]]
                 ELSE workload

\* The specifications an application may have.
LEMMA RequiredSpecs ==
  ASSUME NEW a \in Apps, NEW g \in 1..MaxGen
  PROVE  Required(a, g) \subseteq Specs
  BY DEF Specs

\* The object of a new application.
LEMMA NewFields ==
  ASSUME NEW spec \in Specs
  PROVE  /\ NewObject(spec) \in Objects /\ NewObject(spec).spec = spec /\ NewObject(spec).deleting = FALSE
         /\ NewObject(spec).status.sync = None /\ NewObject(spec).status.health = None
<1>1. NoStatus \in Statuses /\ NoStatus.sync = None /\ NoStatus.health = None
      BY Zenon DEF NoStatus, Statuses
<1>2. NewObject(spec) \in Objects
      BY Zenon, <1>1 DEF NewObject, Objects
<1>3. NewObject(spec).spec = spec /\ NewObject(spec).deleting = FALSE /\ NewObject(spec).status = NoStatus
      BY Zenon DEF NewObject
<1>4. QED
      BY Zenon, <1>1, <1>2, <1>3

\* A merge patch of an object.
LEMMA MergeFields ==
  ASSUME NEW o \in Objects, NEW base \in Copies, NEW new \in Copies
  PROVE  /\ Merge(o, base, new) \in Objects
         /\ Merge(o, base, new).spec = IF base.spec = new.spec THEN o.spec ELSE new.spec
         /\ Merge(o, base, new).deleting = o.deleting
         /\ Merge(o, base, new).status = o.status
<1> DEFINE spec == IF base.spec = new.spec THEN o.spec ELSE new.spec
           auto == IF base.automated = new.automated THEN o.automated ELSE new.automated
           fin  == IF base.finalizer = new.finalizer THEN o.finalizer ELSE new.finalizer
<1>1. spec \in Specs
      BY Zenon DEF Objects, Copies
<1>2. auto \in BOOLEAN
      BY Zenon DEF Objects, Copies
<1>3. fin \in BOOLEAN
      BY Zenon DEF Objects, Copies
<1>4. Merge(o, base, new) = [o EXCEPT !.spec = spec, !.automated = auto, !.finalizer = fin]
      BY Zenon DEF Merge
<1> HIDE DEF spec, auto, fin
<1>5. Merge(o, base, new) \in Objects
      BY Zenon, <1>1, <1>2, <1>3, <1>4 DEF Objects
<1>6. /\ Merge(o, base, new).spec = spec /\ Merge(o, base, new).deleting = o.deleting
      /\ Merge(o, base, new).status = o.status
      BY Zenon, <1>4 DEF Objects
<1>7. QED
      BY Zenon, <1>5, <1>6 DEF spec

\* The copy with the changes a provision and a deprovision make.
LEMMA CopyFields ==
  ASSUME NEW base \in Copies, NEW spec \in Specs
  PROVE  /\ [base EXCEPT !.spec = spec, !.automated = TRUE] \in Copies
         /\ [base EXCEPT !.spec = spec, !.automated = TRUE].spec = spec
         /\ [base EXCEPT !.automated = FALSE, !.finalizer = TRUE] \in Copies
         /\ [base EXCEPT !.automated = FALSE, !.finalizer = TRUE].spec = base.spec
<1>1. [base EXCEPT !.spec = spec, !.automated = TRUE] \in Copies
      BY Zenon DEF Copies
<1>2. [base EXCEPT !.automated = FALSE, !.finalizer = TRUE] \in Copies
      BY Zenon DEF Copies
<1>3. /\ [base EXCEPT !.spec = spec, !.automated = TRUE].spec = spec
      /\ [base EXCEPT !.automated = FALSE, !.finalizer = TRUE].spec = base.spec
      BY Zenon DEF Copies
<1>4. QED
      BY Zenon, <1>1, <1>2, <1>3

\* An object that is marked for deletion, and one that has a new status.
LEMMA MarkFields ==
  ASSUME NEW o \in Objects, NEW status \in Statuses
  PROVE  /\ [o EXCEPT !.deleting = TRUE] \in Objects /\ [o EXCEPT !.deleting = TRUE].deleting = TRUE
         /\ [o EXCEPT !.deleting = TRUE].spec = o.spec /\ [o EXCEPT !.deleting = TRUE].status = o.status
         /\ [o EXCEPT !.status = status] \in Objects /\ [o EXCEPT !.status = status].deleting = o.deleting
         /\ [o EXCEPT !.status = status].spec = o.spec /\ [o EXCEPT !.status = status].status = status
<1>1. [o EXCEPT !.deleting = TRUE] \in Objects
      BY Zenon DEF Objects
<1>2. [o EXCEPT !.status = status] \in Objects
      BY Zenon DEF Objects
<1>3. [o EXCEPT !.deleting = TRUE].deleting = TRUE
      BY Zenon DEF Objects
<1>4. [o EXCEPT !.deleting = TRUE].spec = o.spec /\ [o EXCEPT !.deleting = TRUE].status = o.status
      BY Zenon DEF Objects
<1>5. [o EXCEPT !.status = status].deleting = o.deleting
      BY Zenon DEF Objects
<1>6. [o EXCEPT !.status = status].spec = o.spec /\ [o EXCEPT !.status = status].status = status
      BY Zenon DEF Objects
<1>7. QED
      BY Zenon, <1>1, <1>2, <1>3, <1>4, <1>5, <1>6

\* An application's step makes, patches or deletes its own object.
LEMMA AppsMoves ==
  ASSUME ~Lag, ArgoType, OwnerType, AppsInv, FrameType, TreeInv, NEW n \in Nodes, ApplicationStep(n)
  PROVE  /\ secret' = secret /\ workload' = workload
         /\ apps' = apps \/ Creates(n) \/ Patches(n) \/ Deletes(n)
<1>1. n \in Apps /\ apps[n] \in One /\ gen \in 1..MaxGen
      BY Zenon, ApplicationMoves DEF ArgoType, OwnerType
<1>2. secret' = secret /\ workload' = workload
      BY Zenon DEF ApplicationStep, Lookup, Create, Update, Finalize, Discard, argoVars,
             CreateApplication, PatchApplication, DeleteApplication
<1>3. apps[n] # <<>> => apps[n][1] \in Objects
      BY Zenon, <1>1, OnlyObject
<1>4. CASE Lookup(n)
      BY Zenon, <1>2, <1>4 DEF Lookup, argoVars
<1>5. CASE Create(n)
  <2>1. frame[n].at = "create" /\ apps[n] = <<>>
        BY SMTT(30), <1>1, <1>5 DEF Create, AppsInv
  <2>2. apps' = apps \/ \E spec \in Required(n, gen) : CreateApplication(n, spec)
        BY Zenon, <1>5 DEF Create, argoVars
  <2>3. ASSUME NEW spec \in Required(n, gen), CreateApplication(n, spec) PROVE Creates(n)
        BY Zenon, <1>1, <2>1, <2>3, CreatePuts DEF Creates
  <2>4. QED
        BY SMTT(30), <1>2, <2>2, <2>3
<1>6. CASE Update(n)
  <2>1. frame[n].at = "patch" /\ frame[n].op = "provision" /\ frame[n].base \in Copies
        BY Zenon, <1>1, <1>6 DEF Update, Active, AppsInv
  <2>2. \/ apps' = apps
        \/ /\ apps[n] # <<>>
           /\ \E spec \in Required(n, gen) :
                PatchApplication(n, frame[n].base, [frame[n].base EXCEPT !.spec = spec, !.automated = TRUE])
        BY Zenon, <1>6 DEF Update, argoVars
  <2>3. ASSUME apps[n] # <<>>, NEW spec \in Required(n, gen),
               PatchApplication(n, frame[n].base, [frame[n].base EXCEPT !.spec = spec, !.automated = TRUE])
        PROVE  Patches(n)
    <3> DEFINE new == [frame[n].base EXCEPT !.spec = spec, !.automated = TRUE]
               o   == Merge(apps[n][1], frame[n].base, new)
    <3>1. Put(n, <<o>>)
          BY Zenon, <1>1, <2>3, PatchPuts
    <3>2. new \in Copies /\ new.spec = spec
          BY Zenon, <1>1, <2>1, CopyFields, RequiredSpecs
    <3> HIDE DEF new
    <3>3. /\ o \in Objects /\ o.spec = IF frame[n].base.spec = new.spec THEN apps[n][1].spec ELSE new.spec
          /\ o.deleting = apps[n][1].deleting /\ o.status = apps[n][1].status
      <4>1. apps[n][1] \in Objects
            BY Zenon, <1>3, <2>3
      <4>2. QED
            BY ONLY SMTT(30), <2>1, <3>2, <4>1, MergeFields
    <3> HIDE DEF o
    <3>4. QED
          BY Zenon, <2>1, <2>3, <3>1, <3>2, <3>3 DEF Patches
  <2>4. QED
        BY Zenon, <1>2, <2>2, <2>3
<1>7. CASE Finalize(n)
  <2>1. frame[n].at = "patch" /\ frame[n].base \in Copies
        BY Zenon, <1>1, <1>7 DEF Finalize, Active, AppsInv
  <2>2. \/ apps' = apps
        \/ /\ apps[n] # <<>>
           /\ PatchApplication(n, frame[n].base, [frame[n].base EXCEPT !.automated = FALSE, !.finalizer = TRUE])
        BY Zenon, <1>7 DEF Finalize, argoVars
  <2>3. ASSUME apps[n] # <<>>, PatchApplication(n, frame[n].base, [frame[n].base EXCEPT !.automated = FALSE, !.finalizer = TRUE])
        PROVE  Patches(n)
    <3> DEFINE new == [frame[n].base EXCEPT !.automated = FALSE, !.finalizer = TRUE]
               o   == Merge(apps[n][1], frame[n].base, new)
    <3>1. Put(n, <<o>>)
          BY Zenon, <1>1, <2>3, PatchPuts
    <3>2. new \in Copies /\ new.spec = frame[n].base.spec
      <4>1. frame[n].base.spec \in Specs
            BY Zenon, <2>1 DEF Copies
      <4>2. QED
            BY Zenon, <2>1, <4>1, CopyFields
    <3> HIDE DEF new
    <3>3. /\ o \in Objects /\ o.spec = IF frame[n].base.spec = new.spec THEN apps[n][1].spec ELSE new.spec
          /\ o.deleting = apps[n][1].deleting /\ o.status = apps[n][1].status
      <4>1. apps[n][1] \in Objects
            BY Zenon, <1>3, <2>3
      <4>2. QED
            BY ONLY SMTT(30), <2>1, <3>2, <4>1, MergeFields
    <3> HIDE DEF o
    <3>4. QED
          BY Zenon, <2>1, <2>3, <3>1, <3>2, <3>3 DEF Patches
  <2>4. QED
        BY Zenon, <1>2, <2>2, <2>3
<1>8. CASE Discard(n)
  <2>1. frame[n].at = "delete"
        BY Zenon, <1>8 DEF Discard
  <2>2. apps' = apps \/ (apps[n] # <<>> /\ DeleteApplication(n))
        BY Zenon, <1>8 DEF Discard, argoVars
  <2>3. ASSUME apps[n] # <<>>, DeleteApplication(n) PROVE Deletes(n)
    <3> DEFINE o == [apps[n][1] EXCEPT !.deleting = TRUE]
    <3>1. Put(n, <<o>>) \/ Put(n, <<>>)
          BY Zenon, <1>1, <2>3, DeletePuts
    <3>2. apps[n][1].status \in Statuses
          BY Zenon, <1>3, <2>3 DEF Objects
    <3>3. o \in Objects /\ o.deleting = TRUE /\ o.spec = apps[n][1].spec /\ o.status = apps[n][1].status
          BY ZenonT(30), <1>3, <2>3, <3>2, MarkFields
    <3> HIDE DEF o
    <3>4. QED
          BY Zenon, <2>1, <2>3, <3>1, <3>3 DEF Deletes
  <2>4. QED
        BY Zenon, <1>2, <2>2, <2>3
<1>9. QED
      BY Zenon, <1>4, <1>5, <1>6, <1>7, <1>8 DEF ApplicationStep

\* Argo CD reports on an object or removes it.
LEMMA ArgoMoves ==
  ASSUME ArgoType, NEW a \in Apps, ArgoStep(a)
  PROVE  secret' = secret /\ (Reports(a) \/ Reaps(a))
<1>1. PICK i \in DOMAIN apps[a] :
        \/ ArgoCompare(a, i) \/ ArgoHeal(a, i) \/ ArgoReap(a, i)
        \/ \E health \in {apps[a][i].status.health, IF a \in AllowDegraded THEN "Degraded" ELSE "Healthy"} :
             ArgoSync(a, i, health)
      BY Zenon DEF ArgoStep
<1>2. apps[a] \in One /\ apps[a] # <<>>
      BY DEF ArgoType
<1>3. apps[a][1] \in Objects /\ i = 1
      BY Zenon, <1>2, OnlyObject
<1> DEFINE st == apps[a][1].status
<1>4. st \in Statuses /\ st.sync \in {None, "Synced", "OutOfSync"} /\ st.health \in {None, "Degraded", "Healthy"}
      BY SMTT(30), <1>3 DEF Objects, Statuses
<1>5. ASSUME NEW status \in Statuses, Report(a, i, status), st.health # None => status.health # None,
             \/ workload' = workload /\ st.sync # None
             \/ ~apps[a][1].deleting /\ Reachable(a) /\ workload' = [workload EXCEPT ![a] = apps[a][1].spec]
      PROVE  Reports(a)
  <2> DEFINE o == [apps[a][1] EXCEPT !.status = status]
  <2>1. Put(a, <<o>>)
        BY Zenon, <1>5, ReportPuts
  <2>2. o \in Objects /\ o.deleting = apps[a][1].deleting /\ o.spec = apps[a][1].spec /\ o.status = status
        BY ZenonT(30), <1>3, MarkFields
  <2> HIDE DEF o
  <2>3. QED
        BY Zenon, <1>2, <1>5, <2>1, <2>2 DEF Reports
<1>6. CASE ArgoCompare(a, i)
  <2> DEFINE s == [st EXCEPT !.sync = "OutOfSync"]
  <2>1. s \in Statuses /\ s.health = st.health
        BY Zenon, <1>4 DEF Statuses
  <2>2. Report(a, i, s) /\ workload' = workload /\ secret' = secret /\ st.sync # None
        BY SMTT(30), <1>3, <1>6, NoneAssumption DEF ArgoCompare
  <2> HIDE DEF s, st
  <2>3. QED
        BY Zenon, <1>5, <2>1, <2>2
<1>7. CASE ArgoHeal(a, i)
  <2> DEFINE s == [st EXCEPT !.health = "Healthy"]
  <2>1. s \in Statuses /\ s.health # None
        BY Zenon, <1>4, NoneAssumption DEF Statuses
  <2>2. Report(a, i, s) /\ workload' = workload /\ secret' = secret /\ st.sync # None
        BY Zenon, <1>3, <1>7, NoneAssumption DEF ArgoHeal
  <2> HIDE DEF s, st
  <2>3. QED
        BY Zenon, <1>5, <2>1, <2>2
<1>8. CASE ArgoReap(a, i)
  <2>1. Put(a, <<>>)
        BY SMTT(30), <1>8, ReapPuts
  <2>2. QED
        BY Zenon, <1>2, <1>3, <1>8, <2>1 DEF ArgoReap, Reaps
<1>9. ASSUME NEW health \in {apps[a][i].status.health, IF a \in AllowDegraded THEN "Degraded" ELSE "Healthy"},
             ArgoSync(a, i, health)
      PROVE  secret' = secret /\ Reports(a)
  <2> DEFINE s == [sync |-> "Synced", health |-> health]
  <2>1. health \in {None, "Degraded", "Healthy"} /\ (st.health # None => health # None)
        BY Zenon, <1>3, <1>4, NoneAssumption
  <2>2. s \in Statuses /\ s.health = health
        BY SMTT(30), <2>1 DEF Statuses
  <2>3. /\ Report(a, i, s) /\ secret' = secret
        /\ ~apps[a][1].deleting /\ Reachable(a) /\ workload' = [workload EXCEPT ![a] = apps[a][1].spec]
        BY Zenon, <1>3, <1>9 DEF ArgoSync
  <2> HIDE DEF s, st
  <2>4. QED
        BY Zenon, <1>5, <2>1, <2>2, <2>3
<1>10. QED
       BY SMTT(30), <1>1, <1>6, <1>7, <1>8, <1>9
-----------------------------------------------------------------------------
(***************************************************************************)
(* What a step of a node does to the frames: it returns, or it moves on    *)
(* and calls children.                                                     *)
(***************************************************************************)
Direction(n) == IF Kind[n] = "conditional" THEN Wanted(n) ELSE frame[n].op

Calls(n) ==
  \E C \in SUBSET Kids(n) : \E b \in BOOLEAN :
    /\ \A m \in C : frame[m].at = "idle" /\ frame'[m] = Call(Direction(n), b)
    /\ \A m \in Nodes \ (C \cup {n}) : frame'[m] = frame[m]
    /\ frame'[n].op = frame[n].op /\ frame'[n].result = frame[n].result
    /\ frame'[n].background = frame[n].background /\ Running(n)'
    /\ b => frame[n].background \/ n \in Background

Returns(n) == \E r \in Results : Return(n, r)

\* A node that moves on calls nothing.
LEMMA GotoCalls ==
  ASSUME NEW n \in Nodes, frame'[n].at \in {"client", "release", "create", "patch", "delete"},
         frame'[n].op = frame[n].op, frame'[n].result = frame[n].result,
         frame'[n].background = frame[n].background, \A m \in Nodes \ {n} : frame'[m] = frame[m]
  PROVE  Calls(n)
<1> DEFINE C == {}
<1>1. /\ C \in SUBSET Kids(n)
      /\ \A m \in C : frame[m].at = "idle" /\ frame'[m] = Call(Direction(n), FALSE)
      /\ \A m \in Nodes \ (C \cup {n}) : frame'[m] = frame[m]
      BY Zenon
<1> HIDE DEF C
<1>2. Running(n)'
      BY Zenon DEF Running
<1>3. QED
      BY Zenon, <1>1, <1>2 DEF Calls

\* A node that calls all its children.
LEMMA EnterCalls ==
  ASSUME FrameType, TreeInv, NEW n \in Nodes, Kind[n] \in {"concurrent", "conditional", "remote"},
         frame[n].at \in {"start", "client"}, NEW b \in BOOLEAN, b => frame[n].background \/ n \in Background,
         frame' = [m \in Nodes |-> IF m = n THEN [frame[n] EXCEPT !.at = "wait"]
                                   ELSE IF m \in Kids(n) THEN Call(Direction(n), b) ELSE frame[m]]
  PROVE  Calls(n)
<1>1. frame[n] \in Frames /\ frame'[n] = [frame[n] EXCEPT !.at = "wait"]
      BY Zenon DEF FrameType
<1>2. /\ frame'[n].at = "wait" /\ frame'[n].op = frame[n].op /\ frame'[n].result = frame[n].result
      /\ frame'[n].background = frame[n].background
      BY Zenon, <1>1 DEF Frames
<1>3. \A m \in Kids(n) : frame[m].at = "idle" /\ frame'[m] = Call(Direction(n), b)
      BY Zenon, KidsAreNodes, KidsApart DEF TreeInv, KidOK
<1>4. \A m \in Nodes \ (Kids(n) \cup {n}) : frame'[m] = frame[m]
      BY Zenon
<1>5. QED
      BY Zenon, <1>2, <1>3, <1>4 DEF Calls, Running

\* Each step of a node returns, or moves on.
LEMMA StepMoves ==
  ASSUME ~Lag, ArgoType, FrameType, TreeInv, NEW n \in Nodes, Step(n)
  PROVE  Quiet /\ Running(n) /\ (Returns(n) \/ Calls(n))
<1>1. Quiet
      BY Zenon DEF Step, Serial, Concurrent, Conditional, RemoteStep, ApplicationStep, ResourceStep,
             ProvisionRemote, ProvisionOnRemote, DeprovisionOnRemote, DeprovisionRemote,
             Lookup, Create, Update, Finalize, Discard
<1>2. frame[n].background \in BOOLEAN /\ frame[n].result \in Results
      BY Zenon, FrameFields
<1>3. CASE Serial(n)
  <2> DEFINE s == Order(n)
  <2>1. Running(n) /\ Kind[n] = "serial" /\ frame[n].at = "start"
        BY Zenon, <1>3 DEF Serial, Running
  <2>2. \A i \in DOMAIN s : s[i] \in Kids(n) /\ s[i] \in Nodes /\ s[i] # n
    <3>1. s \in {Children[n], Reverse(Children[n])}
          BY Zenon DEF Order
    <3> HIDE DEF s
    <3>2. Goes(s, n)
          BY Zenon, <3>1, OrderKids
    <3>3. QED
          BY Zenon, <3>2, KidsAreNodes, KidsApart DEF Goes
  <2>3. \/ \E i \in DOMAIN s : Return(n, frame[s[i]].result)
        \/ Return(n, "nil")
        \/ \E i \in DOMAIN s : frame[s[i]].at = "idle" /\ frame' = [frame EXCEPT ![s[i]] = Call(frame[n].op, frame[n].background)]
        BY Zenon, <1>3 DEF Serial
  <2> HIDE DEF s
  <2>4. ASSUME NEW i \in DOMAIN s, Return(n, frame[s[i]].result) PROVE Returns(n)
        BY Zenon, <2>2, <2>4, FrameFields DEF Returns
  <2>5. ASSUME NEW i \in DOMAIN s, frame[s[i]].at = "idle",
               frame' = [frame EXCEPT ![s[i]] = Call(frame[n].op, frame[n].background)]
        PROVE  Calls(n)
    <3> DEFINE C == {s[i]}
    <3>1. frame'[s[i]] = Call(frame[n].op, frame[n].background) /\ \A m \in Nodes \ {s[i]} : frame'[m] = frame[m]
          BY Zenon, <2>2, <2>5 DEF FrameType
    <3>2. frame'[n] = frame[n] /\ Direction(n) = frame[n].op
          BY Zenon, <2>1, <2>2, <3>1 DEF Direction
    <3>3. /\ C \in SUBSET Kids(n)
          /\ \A m \in C : frame[m].at = "idle" /\ frame'[m] = Call(Direction(n), frame[n].background)
          /\ \A m \in Nodes \ (C \cup {n}) : frame'[m] = frame[m]
          BY Zenon, <2>2, <2>5, <3>1, <3>2
    <3>4. Running(n)'
          BY Zenon, <2>1, <3>2 DEF Running
    <3> HIDE DEF C
    <3>5. QED
          BY Zenon, <1>2, <3>2, <3>3, <3>4 DEF Calls
  <2>6. QED
        BY Zenon, <1>1, <2>1, <2>3, <2>4, <2>5 DEF Returns, Results
<1>4. CASE Concurrent(n)
  <2>1. Kind[n] = "concurrent" /\ Running(n) /\ Direction(n) = frame[n].op
        BY Zenon, <1>4 DEF Concurrent, Running, Direction
  <2>2. CASE frame[n].at = "start"
    <3>1. frame' = [m \in Nodes |-> IF m = n THEN [frame[n] EXCEPT !.at = "wait"]
                                    ELSE IF m \in Kids(n) THEN Call(Direction(n), frame[n].background) ELSE frame[m]]
          BY Zenon, <1>4, <2>1, <2>2 DEF Concurrent, Kids
    <3>2. QED
          BY Zenon, <1>1, <1>2, <2>1, <2>2, <3>1, EnterCalls
  <2>3. CASE frame[n].at # "start"
        BY Zenon, <1>1, <1>2, <1>4, <2>1, <2>3 DEF Concurrent, Returns
  <2>4. QED
        BY Zenon, <2>2, <2>3
<1>5. CASE Conditional(n)
  <2> DEFINE c == Children[n][1]
  <2>1. /\ Kind[n] = "conditional" /\ Running(n) /\ Direction(n) = Wanted(n)
        /\ Kids(n) = {c} /\ c \in Nodes /\ c # n
        BY Zenon, <1>5, OnlyChild DEF Conditional, Running, Direction
  <2>2. CASE frame[n].at = "start"
    <3>1. frame' = [frame EXCEPT ![n].at = "wait", ![c] = Call(Wanted(n), frame[n].background)]
          BY Zenon, <1>5, <2>2 DEF Conditional
    <3>2. frame' = [m \in Nodes |-> IF m = n THEN [frame[n] EXCEPT !.at = "wait"]
                                    ELSE IF m \in Kids(n) THEN Call(Direction(n), frame[n].background) ELSE frame[m]]
          BY Zenon, <2>1, <3>1 DEF FrameType
    <3>3. QED
          BY Zenon, <1>1, <1>2, <2>1, <2>2, <3>2, EnterCalls
  <2>3. CASE frame[n].at # "start"
    <3>1. Return(n, frame[c].result) /\ frame[c].result \in Results
          BY Zenon, <1>5, <2>1, <2>3, FrameFields DEF Conditional
    <3>2. QED
          BY Zenon, <1>1, <2>1, <3>1 DEF Returns
  <2>4. QED
        BY Zenon, <2>2, <2>3
<1>6. CASE RemoteStep(n)
  <2> DEFINE c == Children[n][1]
  <2>1. /\ Kind[n] = "remote" /\ Running(n) /\ Direction(n) = frame[n].op
        /\ Kids(n) = {c} /\ c \in Nodes /\ c # n
        BY Zenon, <1>6, OnlyChild, RemoteMoves DEF Direction
  <2>2. \/ Returns(n)
        \/ \E at \in {"client", "release"} : frame' = Goto(n, at)
        \/ /\ frame[n].at \in {"start", "client"}
           /\ \E b \in BOOLEAN : Enter(n, b) /\ (b => frame[n].background \/ n \in Background)
    <3>1. (frame[n].background \/ n \in Background) \in BOOLEAN /\ frame[c].result \in Results
          BY Zenon, <2>1, FrameFields
    <3>2. CASE ProvisionRemote(n)
          BY Zenon, <3>2 DEF ProvisionRemote, Fail, Results, Returns
    <3>3. CASE ProvisionOnRemote(n)
          BY Zenon, <1>2, <3>1, <3>3 DEF ProvisionOnRemote, Active, Fail, Results, Returns
    <3>4. CASE DeprovisionOnRemote(n)
          BY Zenon, <1>2, <3>1, <3>4 DEF DeprovisionOnRemote, Active, Fail, Results, Returns
    <3>5. CASE DeprovisionRemote(n)
          BY Zenon, <3>5 DEF DeprovisionRemote, Fail, Results, Returns
    <3>6. QED
          BY Zenon, <1>6, <3>2, <3>3, <3>4, <3>5 DEF RemoteStep
  <2>3. ASSUME NEW at \in {"client", "release"}, frame' = Goto(n, at) PROVE Calls(n)
    <3>1. at \in Places /\ None \in Bases
          BY Zenon DEF Places, Bases
    <3>2. QED
          BY Zenon, <2>3, <3>1, GotoFields, GotoCalls
  <2>4. ASSUME frame[n].at \in {"start", "client"}, NEW b \in BOOLEAN, Enter(n, b),
               b => frame[n].background \/ n \in Background
        PROVE  Calls(n)
    <3>1. frame' = [m \in Nodes |-> IF m = n THEN [frame[n] EXCEPT !.at = "wait"]
                                    ELSE IF m \in Kids(n) THEN Call(Direction(n), b) ELSE frame[m]]
          BY Zenon, <2>1, <2>4 DEF Enter, FrameType
    <3>2. QED
          BY Zenon, <2>1, <2>4, <3>1, EnterCalls
  <2>5. QED
        BY Zenon, <1>1, <2>1, <2>2, <2>3, <2>4
<1>7. CASE ApplicationStep(n)
  <2>1. n \in Apps /\ Running(n)
        BY Zenon, <1>7, ApplicationMoves
  <2>2. ASSUME NEW at \in {"create", "patch", "delete"}, NEW base \in Bases,
               frame' = Goto(n, at) \/ frame' = [frame EXCEPT ![n].at = at, ![n].base = base]
        PROVE  Calls(n)
    <3>1. at \in Places
          BY Zenon DEF Places
    <3>2. QED
          BY <2>2, <3>1, GotoFields, GotoCalls
  <2>3. None \in Bases /\ (apps[n] # <<>> => Base(apps[n][1]) \in Bases)
        BY Zenon, <2>1, OnlyObject, BaseType DEF ArgoType, Bases
  <2>4. \/ Returns(n) \/ frame' = Goto(n, "create") \/ frame' = Goto(n, "delete")
        \/ apps[n] # <<>> /\ frame' = [frame EXCEPT ![n].at = "patch", ![n].base = Base(apps[n][1])]
        BY Zenon, <1>7, ApplicationMoves DEF Returns
  <2>5. Returns(n) \/ Calls(n)
        BY Zenon, <2>2, <2>3, <2>4
  <2>6. QED
        BY Zenon, <1>1, <2>1, <2>5
<1>8. CASE ResourceStep(n)
      BY Zenon, <1>1, <1>8, ResourceMoves DEF Returns
<1>9. QED
      BY Zenon, <1>3, <1>4, <1>5, <1>6, <1>7, <1>8 DEF Step
=============================================================================

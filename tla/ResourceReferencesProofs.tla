---------------------- MODULE ResourceReferencesProofs ----------------------
(***************************************************************************)
(* Theorems about ResourceReferences, for every number of resources,       *)
(* consumers, changes and faults.                                          *)
(***************************************************************************)
EXTENDS ResourceReferences, TLAPS

\* The resources before anything happened are objects.
LEMMA LiveType == Live \in Object /\ Gone \in Object
BY Zenon DEF Live, Gone, Object

\* A cached or listed copy at the latest version is the resource itself.
Copies ==
  \A c \in Consumers, x \in Resources :
    /\ x \in synced[c] => cache[c][x] = res[x]
    /\ x \in consumers[c].current => consumers[c].copy[x] = res[x]

Basic == TypeOK /\ Copies

\* A write of a well-typed resource keeps types, and makes its copies old.
LEMMA WriteBasic ==
  ASSUME Basic, NEW x \in Resources, NEW r \in Object, r.exists \/ r = Gone, Write(x, r),
         consumers' \in [Consumers -> Consumer], faults' \in 0..MaxFaults,
         \A c \in Consumers : /\ consumers'[c].current = consumers[c].current \ {x}
                              /\ consumers'[c].copy = consumers[c].copy
  PROVE  Basic'
<1>1. res' \in [Resources -> Object] /\ \A y \in Resources : y # x => res'[y] = res[y]
  BY Zenon DEF Basic, TypeOK, Write
<1>2. \A y \in Resources : res'[y].exists \/ res'[y] = Gone
  BY Zenon DEF Basic, TypeOK, Write
<1>3. TypeOK'
  BY Zenon, <1>1, <1>2 DEF Basic, TypeOK, Write
<1>4. Copies'
  BY <1>1 DEF Basic, TypeOK, Copies, Write
<1>5. QED
  BY Zenon, <1>3, <1>4 DEF Basic

\* The consumers after somebody's write.
LEMMA OutdatedType ==
  ASSUME Basic, NEW x \in Resources
  PROVE  /\ Outdated(x) \in [Consumers -> Consumer]
         /\ \A c \in Consumers : /\ Outdated(x)[c].current = consumers[c].current \ {x}
                                 /\ Outdated(x)[c].copy = consumers[c].copy
                                 /\ Outdated(x)[c].at = consumers[c].at
                                 /\ Outdated(x)[c].ids = consumers[c].ids
                                 /\ Outdated(x)[c].todo = consumers[c].todo
                                 /\ Outdated(x)[c].uses = consumers[c].uses
<1>1. ASSUME NEW c \in Consumers
      PROVE  [consumers[c] EXCEPT !.current = @ \ {x}] \in Consumer
  <2>1. consumers[c] \in Consumer
    BY Zenon DEF Basic, TypeOK
  <2>2. QED
    BY Zenon, <2>1 DEF Consumer
<1>2. Outdated(x) \in [Consumers -> Consumer]
  BY Zenon, <1>1 DEF Outdated
<1>3. ASSUME NEW c \in Consumers
      PROVE  Outdated(x)[c] = [consumers[c] EXCEPT !.current = @ \ {x}] /\ consumers[c] \in Consumer
  BY Zenon DEF Outdated, Basic, TypeOK
<1>4. QED
  BY <1>2, <1>3 DEF Consumer

\* A step of one consumer that writes nothing and reads nothing.
LEMMA LocalBasic ==
  ASSUME Basic, NEW c \in Consumers, NEW w \in Consumer, consumers' = [consumers EXCEPT ![c] = w],
         w.copy = consumers[c].copy, w.current = consumers[c].current,
         changes' \in 0..MaxChanges, faults' \in 0..MaxFaults, UNCHANGED <<res, cache, synced>>
  PROVE  Basic'
<1>1. TypeOK'
  BY Zenon DEF Basic, TypeOK
<1>2. Copies'
  BY DEF Basic, TypeOK, Copies
<1>3. QED
  BY Zenon, <1>1, <1>2 DEF Basic

\* A read takes over the cache, which is right where it is in sync.
LEMMA ReadBasic ==
  ASSUME Basic, NEW c \in Consumers, NEW at \in {"add", "remove"}, NEW ids \in SUBSET Resources,
         NEW todo \in SUBSET Resources, Read(c, at, ids, todo)
  PROVE  Basic'
<1> DEFINE w == [consumers[c] EXCEPT !.at = at, !.ids = ids, !.todo = todo,
                                     !.copy = cache[c], !.current = synced[c]]
<1>1. consumers[c] \in Consumer /\ cache[c] \in [Resources -> Object] /\ synced[c] \in SUBSET Resources
  BY Zenon DEF Basic, TypeOK
<1>2. w \in Consumer /\ w.copy = cache[c] /\ w.current = synced[c]
  BY Zenon, <1>1 DEF Consumer
<1>3. consumers' = [consumers EXCEPT ![c] = w]
  BY Zenon DEF Read, Basic, TypeOK
<1> HIDE DEF w
<1>4. TypeOK'
  BY Zenon, <1>2, <1>3 DEF Basic, TypeOK, Read
<1>5. Copies'
  BY <1>2, <1>3 DEF Basic, TypeOK, Copies, Read
<1>6. QED
  BY Zenon, <1>4, <1>5 DEF Basic

\* What an accepted Update of c leaves: x with other references, and c moved on.
OwnWrite(c, x, refs, w) ==
  /\ res[x].exists
  /\ Write(x, [res[x] EXCEPT !.refs = refs])
  /\ consumers' = [Outdated(x) EXCEPT ![c] = w]
  /\ w \in Consumer
  /\ w.current = consumers[c].current \ {x}
  /\ w.copy = consumers[c].copy
  /\ w.ids = consumers[c].ids
  /\ w.uses = consumers[c].uses
  /\ \/ w.at = "idle"
     \/ w.at = consumers[c].at /\ w.todo = consumers[c].todo \ {x}

\* It keeps types and copies.
LEMMA OwnWriteBasic ==
  ASSUME Basic, NEW c \in Consumers, NEW x \in Resources, NEW refs \in SUBSET Consumers, NEW w,
         OwnWrite(c, x, refs, w), faults' \in 0..MaxFaults
  PROVE  Basic'
<1> DEFINE r == [res[x] EXCEPT !.refs = refs]
<1>1. res[x] \in Object
  BY Zenon DEF Basic, TypeOK
<1>2. r \in Object /\ r.exists = res[x].exists
  BY Zenon, <1>1 DEF Object
<1>3. consumers' \in [Consumers -> Consumer]
  BY Zenon, OutdatedType DEF OwnWrite
<1>4. \A d \in Consumers : /\ consumers'[d].current = consumers[d].current \ {x}
                           /\ consumers'[d].copy = consumers[d].copy
  BY OutdatedType DEF OwnWrite
<1>5. Write(x, r) /\ r.exists
  BY Zenon, <1>2 DEF OwnWrite
<1> HIDE DEF r
<1>6. QED
  BY Zenon, <1>2, <1>3, <1>4, <1>5, WriteBasic

\* An accepted Update, its reply lost or not, is such a write.
LEMMA UpdateIsOwnWrite ==
  ASSUME Basic, NEW c \in Consumers, NEW x \in Resources, NEW refs, res[x].exists,
         Write(x, [res[x] EXCEPT !.refs = refs]),
         \/ consumers' = [Outdated(x) EXCEPT ![c].todo = @ \ {x}]
         \/ consumers' = [Outdated(x) EXCEPT ![c].at = "idle"]
  PROVE  \E w : OwnWrite(c, x, refs, w)
<1>1. Outdated(x)[c] \in Consumer
  BY Zenon, OutdatedType
<1> DEFINE v == Outdated(x)[c]
<1>2. CASE consumers' = [Outdated(x) EXCEPT ![c].todo = @ \ {x}]
  <2> DEFINE w == [v EXCEPT !.todo = @ \ {x}]
  <2>1. w \in Consumer /\ w.todo = v.todo \ {x} /\ w.at = v.at /\ w.ids = v.ids /\ w.uses = v.uses
        /\ w.copy = v.copy /\ w.current = v.current
    BY Zenon, <1>1 DEF Consumer
  <2>2. consumers' = [Outdated(x) EXCEPT ![c] = w]
    BY Zenon, <1>2
  <2>3. OwnWrite(c, x, refs, w)
    <3> HIDE DEF w
    <3> QED BY <2>1, <2>2, OutdatedType DEF OwnWrite
  <2>4. QED
    BY Zenon, <2>3
<1>3. CASE consumers' = [Outdated(x) EXCEPT ![c].at = "idle"]
  <2> DEFINE w == [v EXCEPT !.at = "idle"]
  <2>1. w \in Consumer /\ w.at = "idle" /\ w.ids = v.ids /\ w.uses = v.uses
        /\ w.copy = v.copy /\ w.current = v.current
    BY Zenon, <1>1 DEF Consumer
  <2>2. consumers' = [Outdated(x) EXCEPT ![c] = w]
    BY Zenon, <1>3
  <2>3. OwnWrite(c, x, refs, w)
    <3> HIDE DEF w
    <3> QED BY Zenon, <2>1, <2>2, OutdatedType DEF OwnWrite
  <2>4. QED
    BY Zenon, <2>3
<1>4. QED
  BY Zenon, <1>2, <1>3

\* Who may write references, and which: the step of a helper at x.
Adds(c, x) ==
  /\ consumers[c].at = "add"
  /\ x \in consumers[c].todo
  /\ \E w : OwnWrite(c, x, res[x].refs \cup {c}, w)
  /\ faults' \in 0..MaxFaults

Removes(c, x) ==
  /\ consumers[c].at = "remove"
  /\ x \in consumers[c].todo
  /\ \E w : OwnWrite(c, x, res[x].refs \ {c}, w)
  /\ faults' \in 0..MaxFaults

\* A helper finds nothing to do for x.
AddSkips(c, x) ==
  /\ consumers[c].at = "add"
  /\ c \in consumers[c].copy[x].refs
  /\ Skip(c, x)

RemoveSkips(c, x) ==
  /\ consumers[c].at = "remove"
  /\ c \notin consumers[c].copy[x].refs \/ ~res[x].exists
  /\ Skip(c, x)

\* A step of c alone.
Local(c, w) ==
  /\ w \in Consumer
  /\ consumers' = [consumers EXCEPT ![c] = w]
  /\ w.copy = consumers[c].copy
  /\ w.current = consumers[c].current
  /\ changes' \in 0..MaxChanges
  /\ faults' \in 0..MaxFaults
  /\ UNCHANGED <<res, cache, synced>>

\* The Update of a copy that is current writes what the resource itself has, with
\* the caller's reference added or removed.
LEMMA AddReferenceCases ==
  ASSUME Basic, NEW c \in Consumers, NEW x \in Resources, AddReference(c, x)
  PROVE  \/ Adds(c, x)
         \/ Retry(c)
         \/ AddSkips(c, x)
<1>1. CASE Retry(c)
  BY Zenon, <1>1
<1>2. CASE Skip(c, x) /\ c \in consumers[c].copy[x].refs
  BY Zenon, <1>2 DEF AddReference, AddSkips
<1>3. CASE consumers[c].copy[x].exists /\ Update(c, x, consumers[c].copy[x].refs \cup {c})
  <2>1. consumers[c].copy[x] = res[x]
    BY Zenon, <1>3 DEF Update, Basic, Copies
  <2>2. \E w : OwnWrite(c, x, res[x].refs \cup {c}, w)
    BY Zenon, <1>3, <2>1, UpdateIsOwnWrite DEF Update
  <2>3. faults' \in 0..MaxFaults
    BY Zenon, <1>3 DEF Update, Basic, TypeOK
  <2>4. QED
    BY Zenon, <2>2, <2>3 DEF Adds, AddReference
<1>4. QED
  BY Zenon, <1>1, <1>2, <1>3 DEF AddReference

\* The same for removal.
LEMMA RemoveReferenceCases ==
  ASSUME Basic, NEW c \in Consumers, NEW x \in Resources, RemoveReference(c, x)
  PROVE  \/ Removes(c, x)
         \/ Retry(c)
         \/ RemoveSkips(c, x)
<1>1. CASE Retry(c)
  BY Zenon, <1>1
<1>2. CASE Skip(c, x) /\ (c \notin consumers[c].copy[x].refs \/ ~res[x].exists)
  BY Zenon, <1>2 DEF RemoveReference, RemoveSkips
<1>3. CASE c \in consumers[c].copy[x].refs /\ Update(c, x, consumers[c].copy[x].refs \ {c})
  <2>1. consumers[c].copy[x] = res[x]
    BY Zenon, <1>3 DEF Update, Basic, Copies
  <2>2. res[x].exists
    BY <1>3, <2>1 DEF Basic, TypeOK, Gone
  <2>3. \E w : OwnWrite(c, x, res[x].refs \ {c}, w)
    BY Zenon, <1>3, <2>1, <2>2, UpdateIsOwnWrite DEF Update
  <2>4. faults' \in 0..MaxFaults
    BY Zenon, <1>3 DEF Update, Basic, TypeOK
  <2>5. QED
    BY Zenon, <2>3, <2>4 DEF Removes, RemoveReference
<1>4. QED
  BY Zenon, <1>1, <1>2, <1>3 DEF RemoveReference

\* Faults are counted up to their bound.
LEMMA FaultType ==
  ASSUME Basic, Fault
  PROVE  faults' \in 0..MaxFaults
BY ConstantsAssumption DEF Basic, TypeOK, Fault

\* A lost reply hides an addition or a removal.
LEMMA UpdateLostCases ==
  ASSUME Basic, NEW c \in Consumers, NEW x \in Resources, UpdateLost(c, x)
  PROVE  Adds(c, x) \/ Removes(c, x)
<1>1. faults' \in 0..MaxFaults
  BY Zenon, FaultType DEF UpdateLost
<1>2. CASE consumers[c].at = "add"
  <2>1. \E w : OwnWrite(c, x, res[x].refs \cup {c}, w)
    BY Zenon, <1>2, UpdateIsOwnWrite DEF UpdateLost
  <2>2. QED
    BY Zenon, <1>1, <1>2, <2>1 DEF Adds, UpdateLost
<1>3. CASE consumers[c].at = "remove"
  <2>1. res[x].exists
    BY <1>3 DEF UpdateLost, Basic, TypeOK, Gone
  <2>2. \E w : OwnWrite(c, x, res[x].refs \ {c}, w)
    BY Zenon, <1>3, <2>1, UpdateIsOwnWrite DEF UpdateLost
  <2>3. QED
    BY Zenon, <1>1, <1>3, <2>2 DEF Removes, UpdateLost
<1>4. QED
  BY Zenon, <1>2, <1>3 DEF UpdateLost

-----------------------------------------------------------------------------
(***************************************************************************)
(* The inductive invariant: what a consumer in state w knows of the        *)
(* resources rs. While it adds, what it found on its copies is still       *)
(* there, since nobody else takes its references off; while it removes,    *)
(* what it missed on its copies is still absent, since nobody else adds    *)
(* them.                                                                   *)
(***************************************************************************)
Knows(c, w, rs) ==
  /\ \A x \in w.uses : c \in rs[x].refs
  /\ w.at = "add" =>
       /\ w.todo \subseteq w.ids
       /\ \A x \in w.ids \ w.todo : c \in rs[x].refs
       /\ \A x \in Resources : c \in w.copy[x].refs => c \in rs[x].refs
  /\ w.at \in {"used", "remove", "gone"} => w.uses \subseteq w.ids
  /\ w.at = "remove" =>
       /\ w.todo \cap w.ids = {}
       /\ \A x \in Resources \ (w.ids \cup w.todo) : c \notin rs[x].refs
       /\ \A x \in Resources : c \notin w.copy[x].refs => c \notin rs[x].refs
  /\ w.at = "gone" => \A x \in Resources \ w.ids : c \notin rs[x].refs

\* What RemoveResourceReferences goes through is not what it was given to keep.
Apart(w) == w.at = "remove" => w.todo \cap w.ids = {}

Disjoint == \A c \in Consumers : Apart(consumers[c])

Knowledge == \A c \in Consumers : Knows(c, consumers[c], res)

\* A step of c alone keeps types and copies, and what everybody knows if c does.
LEMMA LocalStep ==
  ASSUME Basic, NEW c \in Consumers, NEW w, Local(c, w)
  PROVE  Basic' /\ (Knowledge /\ Knows(c, w, res) => Knowledge')
<1>1. Basic'
  BY Zenon, LocalBasic DEF Local
<1>2. ASSUME Knowledge, Knows(c, w, res)
      PROVE  Knowledge'
  <2>1. res' = res
    BY Zenon DEF Local
  <2>2. \A d \in Consumers : consumers'[d] = IF d = c THEN w ELSE consumers[d]
    BY Zenon DEF Local, Basic, TypeOK
  <2>3. QED
    BY Zenon, <1>2, <2>1, <2>2 DEF Knowledge
<1>3. QED
  BY Zenon, <1>1, <1>2

\* The steps of one consumer, or of its user, that write no resource.
Stays(c) ==
  \/ \E ids \in SUBSET Resources : Want(c, ids)
  \/ DeleteConsumer(c)
  \/ Retry(c)
  \/ \E x \in Resources : AddSkips(c, x) \/ RemoveSkips(c, x)
  \/ Use(c)
  \/ UseFails(c)
  \/ RequestFails(c)
  \/ Done(c)

\* A resource that is gone has no references.
LEMMA GoneRefs ==
  ASSUME Basic
  PROVE  \A x \in Resources : ~res[x].exists => res[x].refs = {}
BY DEF Basic, TypeOK, Gone

\* Each of them is a step of c alone, and c knows no less after it.
LEMMA StaysLocal ==
  ASSUME Basic, NEW c \in Consumers, Stays(c)
  PROVE  \E w : /\ Local(c, w)
                /\ Knows(c, consumers[c], res) => Knows(c, w, res)
                /\ Apart(consumers[c]) => Apart(w)
<1>1. consumers \in [Consumers -> Consumer] /\ consumers[c] \in Consumer
  BY Zenon DEF Basic, TypeOK
<1>2. CASE \E ids \in SUBSET Resources : Want(c, ids)
  <2> PICK ids \in SUBSET Resources : Want(c, ids)
    BY Zenon, <1>2
  <2> DEFINE w == [consumers[c] EXCEPT !.wanted = ids]
  <2>1. /\ w \in Consumer
        /\ w.copy = consumers[c].copy
        /\ w.current = consumers[c].current
        /\ w.at = consumers[c].at
        /\ w.ids = consumers[c].ids
        /\ w.todo = consumers[c].todo
        /\ w.uses = consumers[c].uses
    BY Zenon, <1>1 DEF Consumer
  <2>2. consumers' = [consumers EXCEPT ![c] = w]
    BY Zenon, <1>1 DEF Want
  <2> HIDE DEF w
  <2>3. Local(c, w)
    <3>1. changes' \in 0..MaxChanges
      BY ConstantsAssumption DEF Want, Basic, TypeOK
    <3>2. QED
      BY Zenon, <2>1, <2>2, <3>1 DEF Local, Want, Basic, TypeOK
  <2>4. Knows(c, consumers[c], res) => Knows(c, w, res)
    BY Zenon, <1>1, <2>1 DEF Knows, Want, Consumer
  <2>5. Apart(consumers[c]) => Apart(w)
    BY Zenon, <2>1 DEF Apart
  <2>6. QED
    BY Zenon, <2>3, <2>4, <2>5
<1>3. CASE DeleteConsumer(c)
  <2> DEFINE w == [consumers[c] EXCEPT !.deleting = TRUE, !.wanted = {}]
  <2>1. /\ w \in Consumer
        /\ w.copy = consumers[c].copy
        /\ w.current = consumers[c].current
        /\ w.at = consumers[c].at
        /\ w.ids = consumers[c].ids
        /\ w.todo = consumers[c].todo
        /\ w.uses = consumers[c].uses
    BY Zenon, <1>1 DEF Consumer
  <2>2. consumers' = [consumers EXCEPT ![c] = w]
    BY Zenon, <1>1, <1>3 DEF DeleteConsumer
  <2> HIDE DEF w
  <2>3. Local(c, w)
    BY Zenon, <1>3, <2>1, <2>2 DEF Local, DeleteConsumer, Basic, TypeOK
  <2>4. Knows(c, consumers[c], res) => Knows(c, w, res)
    BY Zenon, <1>1, <1>3, <2>1 DEF Knows, DeleteConsumer, Consumer
  <2>5. Apart(consumers[c]) => Apart(w)
    BY Zenon, <2>1 DEF Apart
  <2>6. QED
    BY Zenon, <2>3, <2>4, <2>5
<1>4. CASE Retry(c)
  <2> DEFINE w == [consumers[c] EXCEPT !.at = "idle"]
  <2>1. /\ w \in Consumer
        /\ w.copy = consumers[c].copy
        /\ w.current = consumers[c].current
        /\ w.at = "idle"
        /\ w.ids = consumers[c].ids
        /\ w.todo = consumers[c].todo
        /\ w.uses = consumers[c].uses
    BY Zenon, <1>1 DEF Consumer
  <2>2. consumers' = [consumers EXCEPT ![c] = w]
    BY Zenon, <1>1, <1>4 DEF Retry
  <2> HIDE DEF w
  <2>3. Local(c, w)
    BY Zenon, <1>4, <2>1, <2>2 DEF Local, Retry, Basic, TypeOK
  <2>4. Knows(c, consumers[c], res) => Knows(c, w, res)
    BY Zenon, <1>1, <1>4, <2>1 DEF Knows, Retry, Consumer
  <2>5. Apart(consumers[c]) => Apart(w)
    BY Zenon, <2>1 DEF Apart
  <2>6. QED
    BY Zenon, <2>3, <2>4, <2>5
<1>5. CASE \E x \in Resources : AddSkips(c, x)
  <2> PICK x \in Resources : AddSkips(c, x)
    BY Zenon, <1>5
  <2> DEFINE w == [consumers[c] EXCEPT !.todo = @ \ {x}]
  <2>1. /\ w \in Consumer
        /\ w.copy = consumers[c].copy
        /\ w.current = consumers[c].current
        /\ w.at = consumers[c].at
        /\ w.ids = consumers[c].ids
        /\ w.todo = consumers[c].todo \ {x}
        /\ w.uses = consumers[c].uses
    BY Zenon, <1>1 DEF Consumer
  <2>2. consumers' = [consumers EXCEPT ![c] = w]
    BY Zenon, <1>1 DEF AddSkips, Skip
  <2> HIDE DEF w
  <2>3. Local(c, w)
    BY Zenon, <2>1, <2>2 DEF Local, AddSkips, Skip, Basic, TypeOK
  <2>4. Knows(c, consumers[c], res) => Knows(c, w, res)
    BY Zenon, <1>1, <2>1 DEF Knows, AddSkips, Skip, Consumer
  <2>5. Apart(consumers[c]) => Apart(w)
    BY Zenon, <2>1 DEF Apart
  <2>6. QED
    BY Zenon, <2>3, <2>4, <2>5
<1>6. CASE \E x \in Resources : RemoveSkips(c, x)
  <2> PICK x \in Resources : RemoveSkips(c, x)
    BY Zenon, <1>6
  <2> DEFINE w == [consumers[c] EXCEPT !.todo = @ \ {x}]
  <2>1. /\ w \in Consumer
        /\ w.copy = consumers[c].copy
        /\ w.current = consumers[c].current
        /\ w.at = consumers[c].at
        /\ w.ids = consumers[c].ids
        /\ w.todo = consumers[c].todo \ {x}
        /\ w.uses = consumers[c].uses
    BY Zenon, <1>1 DEF Consumer
  <2>2. consumers' = [consumers EXCEPT ![c] = w]
    BY Zenon, <1>1 DEF RemoveSkips, Skip
  <2> HIDE DEF w
  <2>3. Local(c, w)
    BY Zenon, <2>1, <2>2 DEF Local, RemoveSkips, Skip, Basic, TypeOK
  <2>4. Knows(c, consumers[c], res) => Knows(c, w, res)
    BY Zenon, <1>1, <2>1, GoneRefs DEF Knows, RemoveSkips, Skip, Consumer
  <2>5. Apart(consumers[c]) => Apart(w)
    BY Zenon, <2>1 DEF Apart
  <2>6. QED
    BY Zenon, <2>3, <2>4, <2>5
<1>7. CASE Use(c)
  <2> DEFINE w == [consumers[c] EXCEPT !.at = "used", !.uses = consumers[c].ids]
  <2>1. /\ w \in Consumer
        /\ w.copy = consumers[c].copy
        /\ w.current = consumers[c].current
        /\ w.at = "used"
        /\ w.ids = consumers[c].ids
        /\ w.todo = consumers[c].todo
        /\ w.uses = consumers[c].ids
    BY Zenon, <1>1 DEF Consumer
  <2>2. consumers' = [consumers EXCEPT ![c] = w]
    BY Zenon, <1>1, <1>7 DEF Use
  <2> HIDE DEF w
  <2>3. Local(c, w)
    BY Zenon, <1>7, <2>1, <2>2 DEF Local, Use, Basic, TypeOK
  <2>4. Knows(c, consumers[c], res) => Knows(c, w, res)
    BY Zenon, <1>1, <1>7, <2>1 DEF Knows, Use, Consumer
  <2>5. Apart(consumers[c]) => Apart(w)
    BY Zenon, <2>1 DEF Apart
  <2>6. QED
    BY Zenon, <2>3, <2>4, <2>5
<1>8. CASE UseFails(c)
  <2> DEFINE w == [consumers[c] EXCEPT !.at = "idle", !.uses = consumers[c].uses \cup consumers[c].ids]
  <2>1. /\ w \in Consumer
        /\ w.copy = consumers[c].copy
        /\ w.current = consumers[c].current
        /\ w.at = "idle"
        /\ w.ids = consumers[c].ids
        /\ w.todo = consumers[c].todo
        /\ w.uses = consumers[c].uses \cup consumers[c].ids
    BY Zenon, <1>1 DEF Consumer
  <2>2. consumers' = [consumers EXCEPT ![c] = w]
    BY Zenon, <1>1, <1>8 DEF UseFails
  <2> HIDE DEF w
  <2>3. Local(c, w)
    <3>1. faults' \in 0..MaxFaults
      BY Zenon, <1>8, FaultType DEF UseFails
    <3>2. QED
      BY Zenon, <1>8, <2>1, <2>2, <3>1 DEF Local, UseFails, Basic, TypeOK
  <2>4. Knows(c, consumers[c], res) => Knows(c, w, res)
    BY Zenon, <1>1, <1>8, <2>1 DEF Knows, UseFails, Consumer
  <2>5. Apart(consumers[c]) => Apart(w)
    BY Zenon, <2>1 DEF Apart
  <2>6. QED
    BY Zenon, <2>3, <2>4, <2>5
<1>9. CASE RequestFails(c)
  <2> DEFINE w == [consumers[c] EXCEPT !.at = "idle"]
  <2>1. /\ w \in Consumer
        /\ w.copy = consumers[c].copy
        /\ w.current = consumers[c].current
        /\ w.at = "idle"
        /\ w.ids = consumers[c].ids
        /\ w.todo = consumers[c].todo
        /\ w.uses = consumers[c].uses
    BY Zenon, <1>1 DEF Consumer
  <2>2. consumers' = [consumers EXCEPT ![c] = w]
    BY Zenon, <1>1, <1>9 DEF RequestFails
  <2> HIDE DEF w
  <2>3. Local(c, w)
    <3>1. faults' \in 0..MaxFaults
      BY Zenon, <1>9, FaultType DEF RequestFails
    <3>2. QED
      BY Zenon, <1>9, <2>1, <2>2, <3>1 DEF Local, RequestFails, Basic, TypeOK
  <2>4. Knows(c, consumers[c], res) => Knows(c, w, res)
    BY Zenon, <1>1, <1>9, <2>1 DEF Knows, RequestFails, Consumer
  <2>5. Apart(consumers[c]) => Apart(w)
    BY Zenon, <2>1 DEF Apart
  <2>6. QED
    BY Zenon, <2>3, <2>4, <2>5
<1>10. CASE Done(c)
  <2> DEFINE at == IF consumers[c].deleting /\ consumers[c].ids = {} THEN "gone" ELSE "idle"
  <2> DEFINE w == [consumers[c] EXCEPT !.at = at]
  <2>1. /\ w \in Consumer
        /\ w.copy = consumers[c].copy
        /\ w.current = consumers[c].current
        /\ w.at = at
        /\ w.ids = consumers[c].ids
        /\ w.todo = consumers[c].todo
        /\ w.uses = consumers[c].uses
    BY Zenon, <1>1 DEF Consumer
  <2>2. consumers' = [consumers EXCEPT ![c] = w]
    BY Zenon, <1>1, <1>10 DEF Done
  <2> HIDE DEF w
  <2>3. Local(c, w)
    BY Zenon, <1>10, <2>1, <2>2 DEF Local, Done, Basic, TypeOK
  <2>4. Knows(c, consumers[c], res) => Knows(c, w, res)
    BY Zenon, <1>1, <1>10, <2>1 DEF Knows, Done, Consumer
  <2>5. Apart(consumers[c]) => Apart(w)
    BY Zenon, <2>1 DEF Apart
  <2>6. QED
    BY Zenon, <2>3, <2>4, <2>5
<1>11. QED
  BY Zenon, <1>2, <1>3, <1>4, <1>5, <1>6, <1>7, <1>8, <1>9, <1>10 DEF Stays

\* A write that changes no references of d leaves d knowing what it knew.
LEMMA SameKnowledge ==
  ASSUME NEW d \in Consumers, NEW v \in Consumer, NEW w \in Consumer, NEW rs, NEW ss,
         Knows(d, v, rs),
         w.at = v.at, w.ids = v.ids, w.todo = v.todo, w.uses = v.uses, w.copy = v.copy,
         \A x \in Resources : d \in ss[x].refs <=> d \in rs[x].refs
  PROVE  Knows(d, w, ss)
BY Zenon DEF Knows, Consumer

\* The user's deletion and the owner's teardown.
LEMMA ForeignStep ==
  ASSUME Basic, NEW x \in Resources, Delete(x) \/ Reap(x)
  PROVE  /\ Basic'
         /\ \A y \in Resources : res'[y].refs = res[y].refs
         /\ Knowledge => Knowledge'
<1>1. PICK r \in Object : /\ r.exists \/ r = Gone
                          /\ r.refs = res[x].refs
                          /\ Write(x, r)
  <2>1. res[x] \in Object
    BY Zenon DEF Basic, TypeOK
  <2>2. CASE Delete(x)
    <3> DEFINE r == [res[x] EXCEPT !.deleting = TRUE]
    <3>1. r \in Object /\ r.exists = res[x].exists /\ r.refs = res[x].refs
      BY Zenon, <2>1 DEF Object
    <3>2. QED
      BY Zenon, <2>2, <3>1 DEF Delete
  <2>3. CASE Reap(x)
    BY Zenon, <2>3, LiveType DEF Reap, Gone
  <2>4. QED
    BY Zenon, <2>2, <2>3
<1>2. consumers' = Outdated(x) /\ faults' = faults
  BY Zenon DEF Delete, Reap
<1>3. Basic'
  <2>1. faults' \in 0..MaxFaults
    BY Zenon, <1>2 DEF Basic, TypeOK
  <2>2. QED
    BY Zenon, <1>1, <1>2, <2>1, OutdatedType, WriteBasic
<1>4. \A y \in Resources : res'[y].refs = res[y].refs
  BY Zenon, <1>1 DEF Write, Basic, TypeOK
<1>5. ASSUME Knowledge, NEW d \in Consumers
      PROVE  Knows(d, consumers'[d], res')
  <2>1. consumers[d] \in Consumer /\ consumers'[d] \in Consumer
    BY Zenon, <1>2, OutdatedType DEF Basic, TypeOK
  <2>2. /\ consumers'[d].at = consumers[d].at
        /\ consumers'[d].ids = consumers[d].ids
        /\ consumers'[d].todo = consumers[d].todo
        /\ consumers'[d].uses = consumers[d].uses
        /\ consumers'[d].copy = consumers[d].copy
    BY Zenon, <1>2, OutdatedType
  <2>3. Knows(d, consumers[d], res) /\ \A y \in Resources : d \in res'[y].refs <=> d \in res[y].refs
    BY Zenon, <1>4, <1>5 DEF Knowledge
  <2>4. QED
    BY Zenon, <2>1, <2>2, <2>3, SameKnowledge
<1>6. QED
  BY Zenon, <1>3, <1>4, <1>5 DEF Knowledge

\* A helper's write: only the writer's reference comes or goes.
LEMMA HelperStep ==
  ASSUME Basic, NEW c \in Consumers, NEW x \in Resources, Adds(c, x) \/ Removes(c, x)
  PROVE  /\ Basic'
         /\ \A d \in Consumers \ {c}, y \in Resources : d \in res'[y].refs <=> d \in res[y].refs
         /\ Knowledge => Knowledge'
<1>1. PICK refs \in SUBSET Consumers, w \in Consumer :
        /\ OwnWrite(c, x, refs, w)
        /\ \/ consumers[c].at = "add" /\ refs = res[x].refs \cup {c}
           \/ consumers[c].at = "remove" /\ refs = res[x].refs \ {c}
  <2>1. res[x].refs \in SUBSET Consumers
    BY Zenon DEF Basic, TypeOK, Object
  <2>2. CASE Adds(c, x)
    <3>1. PICK w : OwnWrite(c, x, res[x].refs \cup {c}, w)
      BY Zenon, <2>2 DEF Adds
    <3>2. w \in Consumer
      BY Zenon, <3>1 DEF OwnWrite
    <3>3. QED
      BY Zenon, <2>1, <2>2, <3>1, <3>2 DEF Adds
  <2>3. CASE Removes(c, x)
    <3>1. PICK w : OwnWrite(c, x, res[x].refs \ {c}, w)
      BY Zenon, <2>3 DEF Removes
    <3>2. w \in Consumer
      BY Zenon, <3>1 DEF OwnWrite
    <3>3. QED
      BY Zenon, <2>1, <2>3, <3>1, <3>2 DEF Removes
  <2>4. QED
    BY Zenon, <2>2, <2>3
<1>2. faults' \in 0..MaxFaults /\ x \in consumers[c].todo
  BY Zenon DEF Adds, Removes
<1>3. Basic'
  BY Zenon, <1>1, <1>2, OwnWriteBasic
<1>4. \A y \in Resources : res'[y].refs = IF y = x THEN refs ELSE res[y].refs
  BY Zenon, <1>1 DEF OwnWrite, Write, Basic, TypeOK, Object
<1>5. \A d \in Consumers \ {c}, y \in Resources : d \in res'[y].refs <=> d \in res[y].refs
  BY Zenon, <1>1, <1>4
<1>6. ASSUME Knowledge, NEW d \in Consumers, d # c
      PROVE  Knows(d, consumers'[d], res')
  <2>1. consumers'[d] = Outdated(x)[d]
    BY Zenon, <1>1, <1>6, OutdatedType DEF OwnWrite
  <2>2. consumers[d] \in Consumer /\ consumers'[d] \in Consumer
    BY Zenon, <2>1, OutdatedType DEF Basic, TypeOK
  <2>3. /\ consumers'[d].at = consumers[d].at
        /\ consumers'[d].ids = consumers[d].ids
        /\ consumers'[d].todo = consumers[d].todo
        /\ consumers'[d].uses = consumers[d].uses
        /\ consumers'[d].copy = consumers[d].copy
    BY <2>1, OutdatedType
  <2>4. Knows(d, consumers[d], res) /\ \A y \in Resources : d \in res'[y].refs <=> d \in res[y].refs
    BY Zenon, <1>5, <1>6 DEF Knowledge
  <2>5. QED
    BY Zenon, <2>2, <2>3, <2>4, SameKnowledge
<1>7. ASSUME Knowledge
      PROVE  Knows(c, consumers'[c], res')
  <2>1. consumers'[c] = w
    BY Zenon, <1>1, OutdatedType DEF OwnWrite
  <2>2. Knows(c, consumers[c], res) /\ consumers[c] \in Consumer
    BY Zenon, <1>7 DEF Knowledge, Basic, TypeOK
  <2>3. Knows(c, w, res')
    BY <1>1, <1>2, <1>4, <2>2 DEF Knows, OwnWrite, Consumer
  <2>4. QED
    BY Zenon, <2>1, <2>3
<1>8. QED
  BY Zenon, <1>3, <1>5, <1>6, <1>7 DEF Knowledge

\* A read; what it finds is so if the cache does not lag.
LEMMA ReadStep ==
  ASSUME Basic, NEW c \in Consumers, AddResourceReferences(c) \/ RemoveResourceReferences(c)
  PROVE  Basic' /\ (Knowledge /\ ~StaleReads => Knowledge')
<1>1. consumers[c] \in Consumer /\ cache[c] \in [Resources -> Object] /\ synced[c] \in SUBSET Resources
  BY Zenon DEF Basic, TypeOK
<1>2. consumers[c].wanted \in SUBSET Resources /\ consumers[c].ids \in SUBSET Resources
  BY Zenon, <1>1 DEF Consumer
<1>3. PICK at \in {"add", "remove"}, ids \in SUBSET Resources, todo \in SUBSET Resources :
        /\ Read(c, at, ids, todo)
        /\ \/ at = "add" /\ todo = ids
           \/ /\ at = "remove" /\ consumers[c].at = "used" /\ ids = consumers[c].ids
              /\ todo = {x \in Resources : cache[c][x].exists} \ ids
  <2>1. CASE AddResourceReferences(c)
    BY Zenon, <1>2, <2>1 DEF AddResourceReferences
  <2>2. CASE RemoveResourceReferences(c)
    <3>1. {x \in Resources : cache[c][x].exists} \ consumers[c].ids \in SUBSET Resources
      BY Zenon
    <3>2. QED
      BY Zenon, <1>2, <2>2, <3>1 DEF RemoveResourceReferences
  <2>3. QED
    BY Zenon, <2>1, <2>2
<1>4. Basic'
  BY Zenon, <1>3, ReadBasic
<1>5. ASSUME Knowledge, ~StaleReads
      PROVE  Knowledge'
  <2> DEFINE w == [consumers[c] EXCEPT !.at = at, !.ids = ids, !.todo = todo,
                                       !.copy = cache[c], !.current = synced[c]]
  <2>1. w.at = at /\ w.ids = ids /\ w.todo = todo /\ w.copy = cache[c] /\ w.uses = consumers[c].uses
    BY Zenon, <1>1 DEF Consumer
  <2>2. \A d \in Consumers : consumers'[d] = IF d = c THEN w ELSE consumers[d]
    BY Zenon, <1>3 DEF Read, Basic, TypeOK
  <2> HIDE DEF w
  <2>3. \A x \in Resources : cache[c][x] = res[x]
    BY Zenon, <1>3, <1>5 DEF Read, Basic, Copies
  <2>4. Knows(c, w, res)
    <3>1. Knows(c, consumers[c], res)
      BY Zenon, <1>5 DEF Knowledge
    <3>2. QED
      BY <1>3, <2>1, <2>3, <3>1, GoneRefs DEF Knows
  <2>5. res' = res
    BY Zenon, <1>3 DEF Read
  <2>6. QED
    BY Zenon, <1>5, <2>2, <2>4, <2>5 DEF Knowledge
<1>6. QED
  BY Zenon, <1>4, <1>5

\* An informer catches up.
LEMMA SyncStep ==
  ASSUME Basic, NEW c \in Consumers, NEW x \in Resources, Sync(c, x)
  PROVE  Basic' /\ (Knowledge => Knowledge')
<1>1. TypeOK'
  BY Zenon DEF Basic, TypeOK, Sync
<1>2. Copies'
  BY Zenon DEF Basic, TypeOK, Copies, Sync
<1>3. QED
  BY Zenon, <1>1, <1>2 DEF Basic, Knowledge, Sync
-----------------------------------------------------------------------------
\* Every step is one of five kinds.
LEMMA StepKinds ==
  ASSUME Basic, Next
  PROVE  \/ \E x \in Resources : Delete(x) \/ Reap(x)
         \/ \E c \in Consumers, x \in Resources : Sync(c, x)
         \/ \E c \in Consumers, x \in Resources : Adds(c, x) \/ Removes(c, x)
         \/ \E c \in Consumers : AddResourceReferences(c) \/ RemoveResourceReferences(c)
         \/ \E c \in Consumers : Stays(c)
<1>1. CASE \E c \in Consumers, ids \in SUBSET Resources : Want(c, ids)
  BY Zenon, <1>1 DEF Stays
<1>2. CASE \E c \in Consumers : DeleteConsumer(c) \/ Use(c) \/ UseFails(c) \/ RequestFails(c) \/ Done(c)
  BY Zenon, <1>2 DEF Stays
<1>3. CASE \E c \in Consumers, x \in Resources : AddReference(c, x)
  BY Zenon, <1>3, AddReferenceCases DEF Stays
<1>4. CASE \E c \in Consumers, x \in Resources : RemoveReference(c, x)
  BY Zenon, <1>4, RemoveReferenceCases DEF Stays
<1>5. CASE \E c \in Consumers, x \in Resources : UpdateLost(c, x)
  BY Zenon, <1>5, UpdateLostCases
<1>6. QED
  BY Zenon, <1>1, <1>2, <1>3, <1>4, <1>5 DEF Next, Reconcile

\* Types and copies are inductive; so is what consumers know, unless reads lag.
LEMMA Step ==
  ASSUME Basic, [Next]_vars
  PROVE  Basic' /\ (Knowledge /\ ~StaleReads => Knowledge')
<1>1. CASE UNCHANGED vars
  <2>1. Basic'
    BY Zenon, <1>1 DEF Basic, TypeOK, Copies, vars
  <2>2. Knowledge => Knowledge'
    BY Zenon, <1>1 DEF Knowledge, vars
  <2>3. QED
    BY Zenon, <2>1, <2>2
<1>2. CASE \E x \in Resources : Delete(x) \/ Reap(x)
  BY Zenon, <1>2, ForeignStep
<1>3. CASE \E c \in Consumers, x \in Resources : Sync(c, x)
  BY Zenon, <1>3, SyncStep
<1>4. CASE \E c \in Consumers, x \in Resources : Adds(c, x) \/ Removes(c, x)
  BY Zenon, <1>4, HelperStep
<1>5. CASE \E c \in Consumers : AddResourceReferences(c) \/ RemoveResourceReferences(c)
  BY Zenon, <1>5, ReadStep
<1>6. CASE \E c \in Consumers : Stays(c)
  <2>1. PICK c \in Consumers : Stays(c)
    BY Zenon, <1>6
  <2>2. PICK w : Local(c, w) /\ (Knows(c, consumers[c], res) => Knows(c, w, res))
    BY Zenon, <2>1, StaysLocal
  <2>3. Knowledge => Knows(c, consumers[c], res)
    BY Zenon DEF Knowledge
  <2>4. QED
    BY Zenon, <2>2, <2>3, LocalStep
<1>7. QED
  BY Zenon, <1>1, <1>2, <1>3, <1>4, <1>5, <1>6, StepKinds

\* The initial states.
LEMMA Start ==
  ASSUME Init
  PROVE  Basic /\ Knowledge
<1>1. TypeOK
  <2>1. [x \in Resources |-> Live] \in [Resources -> Object]
    BY Zenon, LiveType
  <2>2. consumers \in [Consumers -> Consumer]
    BY Zenon, <2>1 DEF Init, Consumer
  <2>3. Live.exists
    BY Zenon DEF Live, Gone
  <2>4. QED
    <3>1. changes \in 0..MaxChanges /\ faults \in 0..MaxFaults
      BY ConstantsAssumption DEF Init
    <3>2. cache \in [Consumers -> [Resources -> Object]] /\ synced \in [Consumers -> SUBSET Resources]
      BY Zenon, <2>1 DEF Init
    <3>3. res \in [Resources -> Object] /\ \A x \in Resources : res[x].exists
      BY Zenon, <2>1, <2>3 DEF Init
    <3>4. QED
      BY Zenon, <2>2, <3>1, <3>2, <3>3 DEF TypeOK
<1>2. Copies
  BY Zenon DEF Init, Copies
<1>3. Knowledge
  BY Zenon DEF Init, Knowledge, Knows
<1>4. QED
  BY Zenon, <1>1, <1>2, <1>3 DEF Basic

\* Types are right, and an Update never brings back a resource that is gone.
THEOREM TypeCorrect == Spec => []TypeOK
<1>1. Init => Basic
  BY Zenon, Start
<1>2. Basic /\ [Next]_vars => Basic'
  BY Zenon, Step
<1>3. Basic => TypeOK
  BY Zenon DEF Basic
<1>4. QED
  BY <1>1, <1>2, <1>3, PTL DEF Spec

\* The keys to remove stay apart from those to keep.
LEMMA DisjointStep ==
  ASSUME Basic, Disjoint, [Next]_vars
  PROVE  Disjoint'
<1>1. CASE UNCHANGED vars
  BY Zenon, <1>1 DEF Disjoint, vars
<1>2. CASE \E x \in Resources : Delete(x) \/ Reap(x)
  BY <1>2, OutdatedType DEF Disjoint, Apart, Delete, Reap
<1>3. CASE \E c \in Consumers, x \in Resources : Sync(c, x)
  BY Zenon, <1>3 DEF Disjoint, Sync
<1>4. CASE \E c \in Consumers, x \in Resources : Adds(c, x) \/ Removes(c, x)
  <2>1. PICK c \in Consumers, x \in Resources : Adds(c, x) \/ Removes(c, x)
    BY Zenon, <1>4
  <2>2. \E refs : \E w : OwnWrite(c, x, refs, w)
    BY Zenon, <2>1 DEF Adds, Removes
  <2>3. PICK refs : \E w : OwnWrite(c, x, refs, w)
    BY Zenon, <2>2
  <2>4. PICK w : OwnWrite(c, x, refs, w)
    BY Zenon, <2>3
  <2>5. Apart(w)
    BY Zenon, <2>4 DEF OwnWrite, Disjoint, Apart
  <2>6. \A d \in Consumers : consumers'[d] = IF d = c THEN w ELSE Outdated(x)[d]
    BY Zenon, <2>4, OutdatedType DEF OwnWrite
  <2>7. QED
    BY <2>5, <2>6, OutdatedType DEF Disjoint, Apart
<1>5. CASE \E c \in Consumers : AddResourceReferences(c) \/ RemoveResourceReferences(c)
  <2>1. PICK c \in Consumers : AddResourceReferences(c) \/ RemoveResourceReferences(c)
    BY Zenon, <1>5
  <2>2. consumers[c] \in Consumer /\ consumers \in [Consumers -> Consumer]
    BY Zenon DEF Basic, TypeOK
  <2>3. Apart(consumers'[c])
    <3>1. ASSUME NEW at, NEW ids, NEW todo, Read(c, at, ids, todo)
          PROVE  consumers'[c].at = at /\ consumers'[c].ids = ids /\ consumers'[c].todo = todo
      BY Zenon, <2>2, <3>1 DEF Read, Consumer
    <3>2. CASE AddResourceReferences(c)
      BY Zenon, <3>1, <3>2 DEF AddResourceReferences, Apart
    <3>3. CASE RemoveResourceReferences(c)
      BY <3>1, <3>3 DEF RemoveResourceReferences, Apart
    <3>4. QED
      BY Zenon, <2>1, <3>2, <3>3
  <2>4. \A d \in Consumers \ {c} : consumers'[d] = consumers[d]
    BY Zenon, <2>1, <2>2 DEF AddResourceReferences, RemoveResourceReferences, Read
  <2>5. QED
    BY Zenon, <2>3, <2>4 DEF Disjoint
<1>6. CASE \E c \in Consumers : Stays(c)
  <2>1. PICK c \in Consumers : Stays(c)
    BY Zenon, <1>6
  <2>2. PICK w : Local(c, w) /\ (Apart(consumers[c]) => Apart(w))
    BY Zenon, <2>1, StaysLocal
  <2>3. \A d \in Consumers : consumers'[d] = IF d = c THEN w ELSE consumers[d]
    BY Zenon, <2>2 DEF Local, Basic, TypeOK
  <2>4. QED
    BY Zenon, <2>2, <2>3 DEF Disjoint
<1>7. QED
  BY Zenon, <1>1, <1>2, <1>3, <1>4, <1>5, <1>6, StepKinds

\* The step of OwnReferencesOnly.
OwnRemoval ==
  \A x \in Resources, c \in Consumers :
    (c \in res[x].refs /\ c \notin res'[x].refs)
      => (consumers[c].at = "remove" /\ x \notin consumers[c].ids)

\* It holds of every step.
LEMMA OwnRemovalStep ==
  ASSUME Basic, Disjoint, [Next]_vars
  PROVE  [OwnRemoval]_vars
<1>1. CASE res' = res
  BY Zenon, <1>1 DEF OwnRemoval
<1>2. CASE \E x \in Resources : Delete(x) \/ Reap(x)
  BY Zenon, <1>2, ForeignStep DEF OwnRemoval
<1>3. CASE \E c \in Consumers, x \in Resources : Adds(c, x)
  <2>1. PICK c \in Consumers, x \in Resources : Adds(c, x)
    BY Zenon, <1>3
  <2>2. \A y \in Resources : res[y].refs \subseteq res'[y].refs
    <3>1. \A y \in Resources : res'[y].refs = IF y = x THEN res[x].refs \cup {c} ELSE res[y].refs
      BY <2>1 DEF Adds, OwnWrite, Write, Basic, TypeOK, Object
    <3>2. QED
      BY Zenon, <3>1
  <2>3. QED
    BY Zenon, <2>2 DEF OwnRemoval
<1>4. CASE \E c \in Consumers, x \in Resources : Removes(c, x)
  <2>1. PICK c \in Consumers, x \in Resources : Removes(c, x)
    BY Zenon, <1>4
  <2>2. \A y \in Resources : res'[y].refs = IF y = x THEN res[x].refs \ {c} ELSE res[y].refs
    BY <2>1 DEF Removes, OwnWrite, Write, Basic, TypeOK, Object
  <2>3. consumers[c].at = "remove" /\ x \notin consumers[c].ids
    BY Zenon, <2>1 DEF Removes, Disjoint, Apart
  <2>4. QED
    BY Zenon, <2>2, <2>3 DEF OwnRemoval
<1>5. CASE \E c \in Consumers : Stays(c)
  BY Zenon, <1>1, <1>5, StaysLocal DEF Local
<1>6. QED
  BY Zenon, <1>1, <1>2, <1>3, <1>4, <1>5, StepKinds
     DEF Sync, AddResourceReferences, RemoveResourceReferences, Read, vars

\* A consumer's reference is taken off only by its own RemoveResourceReferences,
\* and not from what it was given to keep, however old the copies are.
THEOREM OwnReferencesOnlyHolds == Spec => OwnReferencesOnly
<1>1. Init => Basic /\ Disjoint
  BY Start DEF Init, Disjoint, Apart
<1>2. Basic /\ Disjoint /\ [Next]_vars => (Basic /\ Disjoint)'
  BY Zenon, Step, DisjointStep
<1>3. Basic /\ Disjoint /\ [Next]_vars => [OwnRemoval]_vars
  BY Zenon, OwnRemovalStep
<1>4. (Spec => [][OwnRemoval]_vars) => (Spec => OwnReferencesOnly)
  BY Zenon DEF OwnReferencesOnly, OwnRemoval
<1>5. QED
  BY <1>1, <1>2, <1>3, <1>4, PTL DEF Spec

\* When every read finds the cache in sync, a resource in use exists and carries
\* the user's reference.
THEOREM UsedIsHeldHolds ==
  ASSUME ~StaleReads
  PROVE  Spec => []UsedIsHeld
<1>1. Init => Basic /\ Knowledge
  BY Zenon, Start
<1>2. Basic /\ Knowledge /\ [Next]_vars => (Basic /\ Knowledge)'
  BY Zenon, Step
<1>3. Basic /\ Knowledge => UsedIsHeld
  <2> SUFFICES ASSUME Basic, Knowledge, NEW c \in Consumers, NEW x \in consumers[c].uses
               PROVE  res[x].exists /\ c \in res[x].refs
    BY Zenon DEF UsedIsHeld
  <2>1. x \in Resources
    BY Zenon DEF Basic, TypeOK, Consumer
  <2>2. c \in res[x].refs
    BY Zenon DEF Knowledge, Knows
  <2>3. QED
    BY Zenon, <2>1, <2>2, GoneRefs
<1>4. QED
  BY <1>1, <1>2, <1>3, PTL DEF Spec

\* When every read finds the cache in sync, the references RemoveResourceReferences
\* is asked to remove are gone when it returns.
THEOREM RemovedIsGoneHolds ==
  ASSUME ~StaleReads
  PROVE  Spec => []RemovedIsGone
<1>1. Init => Basic /\ Knowledge
  BY Zenon, Start
<1>2. Basic /\ Knowledge /\ [Next]_vars => (Basic /\ Knowledge)'
  BY Zenon, Step
<1>3. Basic /\ Knowledge => RemovedIsGone
  BY Zenon DEF Knowledge, Knows, RemovedIsGone
<1>4. QED
  BY <1>1, <1>2, <1>3, PTL DEF Spec
=============================================================================

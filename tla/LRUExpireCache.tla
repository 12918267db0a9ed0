--------------------------- MODULE LRUExpireCache ---------------------------
(***************************************************************************)
(* The typed, copying cache of pkg/util/cache/lruexpirecache.go. Objects   *)
(* live in a heap: the cache holds some, its users hold others, and users  *)
(* change the ones they hold. External: the LRU cache underneath, which    *)
(* drops an entry when it is full or expired, and the deep copy.           *)
(***************************************************************************)
EXTENDS Naturals, FiniteSets

CONSTANTS LRUKeys, Heap, Contents, MaxSize

ASSUME LRUAssumption == "free" \notin Contents

VARIABLES
  heap,       \* The content of each object; "free" when nobody holds it.
  entries,    \* The object of each key that is cached, a function.
  held,       \* The objects users hold.
  added,      \* The content last added under each key that is cached. History.
  zeroCopy

lruVars == <<heap, entries, held, added, zeroCopy>>

LRUInit ==
  /\ heap = [o \in Heap |-> "free"]
  /\ entries = <<>> /\ held = {} /\ added = <<>>
  /\ zeroCopy \in BOOLEAN

Free(o) == heap[o] = "free"

With(f, k, v) == [x \in DOMAIN f \cup {k} |-> IF x = k THEN v ELSE f[x]]
Without(f, k) == [x \in DOMAIN f \ {k} |-> f[x]]

NewObject(o, content) ==
  /\ Free(o)
  /\ heap' = [heap EXCEPT ![o] = content] /\ held' = held \cup {o}
  /\ UNCHANGED <<entries, added, zeroCopy>>

\* A user changes an object, or forgets it.
MutateObject(o, content) ==
  /\ o \in held /\ heap[o] # content
  /\ heap' = [heap EXCEPT ![o] = content]
  /\ UNCHANGED <<entries, held, added, zeroCopy>>

Forget(o) ==
  /\ o \in held
  /\ held' = held \ {o}
  /\ heap' = IF \E k \in DOMAIN entries : entries[k] = o THEN heap ELSE [heap EXCEPT ![o] = "free"]
  /\ UNCHANGED <<entries, added, zeroCopy>>

\* An entry that goes frees its object, unless a user has it too.
Released(h, k) ==
  IF k \in DOMAIN entries /\ entries[k] \notin held THEN [h EXCEPT ![entries[k]] = "free"] ELSE h

\* Mutant of Add: the user's own object is cached.
AddShared(k, o) ==
  /\ o \in held /\ (k \in DOMAIN entries \/ Cardinality(DOMAIN entries) < MaxSize)
  /\ entries' = With(entries, k, o) /\ added' = With(added, k, heap[o])
  /\ heap' = Released(heap, k)
  /\ UNCHANGED <<held, zeroCopy>>

\* A copy is cached; when there can be none, the entry stays as it was.
Add(k, o) ==
  /\ o \in held /\ (k \in DOMAIN entries \/ Cardinality(DOMAIN entries) < MaxSize)
  /\ \E copy \in Heap :
       /\ Free(copy)
       /\ heap' = Released([heap EXCEPT ![copy] = heap[o]], k)
       /\ entries' = With(entries, k, copy) /\ added' = With(added, k, heap[o])
  /\ UNCHANGED <<held, zeroCopy>>

\* Full, or expired.
Evict(k) ==
  /\ k \in DOMAIN entries
  /\ heap' = Released(heap, k)
  /\ entries' = Without(entries, k) /\ added' = Without(added, k)
  /\ UNCHANGED <<held, zeroCopy>>

\* A copy is handed out, or with ZeroCopy the cached object itself.
Get(k) ==
  /\ k \in DOMAIN entries
  /\ IF zeroCopy THEN held' = held \cup {entries[k]} /\ heap' = heap
     ELSE \E copy \in Heap :
            /\ Free(copy)
            /\ heap' = [heap EXCEPT ![copy] = heap[entries[k]]] /\ held' = held \cup {copy}
  /\ UNCHANGED <<entries, added, zeroCopy>>

LRUNext ==
  \/ \E o \in Heap : \/ \E c \in Contents : NewObject(o, c) \/ MutateObject(o, c)
                     \/ Forget(o)
                     \/ \E k \in LRUKeys : Add(k, o)
  \/ \E k \in LRUKeys : Evict(k) \/ Get(k)

LRUSpec == LRUInit /\ [][LRUNext]_lruVars
-----------------------------------------------------------------------------
(***************************************************************************)
(* What is cached is what was added, whatever users do to the objects they *)
(* added or got ("data immutable via deep copies", lruexpirecache.go:29),  *)
(* unless the cache was told not to copy.                                  *)
(***************************************************************************)
CachedIsAdded ==
  ~zeroCopy => \A k \in DOMAIN entries : heap[entries[k]] = added[k]
=============================================================================

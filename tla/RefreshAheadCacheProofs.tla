----------------------- MODULE RefreshAheadCacheProofs -----------------------
(***************************************************************************)
(* What RefreshAheadCache guarantees for every set of keys, values,        *)
(* writers, callers and readers, and every bound.                          *)
(***************************************************************************)
EXTENDS RefreshAheadCache, TLAPS

\* At builds a well-typed goroutine without local variables.
LEMMA AtType ==
  ASSUME NEW point \in {"off", "select", "received", "begin"}, NEW cause \in 0..MaxCalls
  PROVE  At(point, cause) \in RefresherState
BY Zenon DEF At, RefresherState, Item, NoItem

\* Where At puts the goroutine, and for which request.
LEMMA AtFields ==
  ASSUME NEW point, NEW cause
  PROVE  /\ At(point, cause).at = point
         /\ At(point, cause).cause = cause
BY Zenon DEF At

\* A write that disturbs the callers leaves them well typed.
LEMMA DisturbedType ==
  ASSUME TypeOK
  PROVE  Disturbed \in [Callers -> CallerState]
BY Zenon DEF TypeOK, Disturbed, CallerState

\* Finish sets run, channel, requests and the goroutine to well-typed values.
LEMMA FinishType ==
  ASSUME TypeOK, NEW result \in {"ok", "err", "panic"}, Finish(result)
  PROVE  /\ run' \in {"new", "loading", "running", "failed", "stopped"}
         /\ channel' \in {"nil", "open", "closed"}
         /\ requests' \in [1..MaxCalls -> {"open", "ok", "err", "panic"}]
         /\ refresher' \in RefresherState
<1>1. At("off", 0) \in RefresherState /\ At("select", 0) \in RefresherState
  BY AtType, ConstantsAssumption
<1>2. QED
  BY Zenon, <1>1 DEF TypeOK, Finish

\* Every step of RefreshAheadCache preserves the types.
LEMMA TypeStep ==
  ASSUME TypeOK, [Next]_vars
  PROVE  TypeOK'
<1> USE ConstantsAssumption
<1> USE DEF TypeOK, dataVars, requestVars, clientVars
<1>1. CASE UNCHANGED vars
  BY Zenon, <1>1 DEF vars
<1>2. CASE RefreshBegin
  <2>1. Keys \in SUBSET Keys
    BY Zenon
  <2>2. refresher \in RefresherState /\ nextEpoch + 1 \in Nat
    OBVIOUS
  <2>3. refresher' \in RefresherState
    BY ONLY Zenon, <1>2, <2>1, <2>2 DEF RefreshBegin, RefresherState
  <2>4. QED
    BY <1>2, <2>3 DEF RefreshBegin
<1>3. ASSUME NEW k \in Keys, RefreshFetch(k) PROVE TypeOK'
  <2>1. refresher' \in RefresherState
    BY Zenon, <1>3 DEF RefreshFetch, RefresherState
  <2>2. QED
    BY Zenon, <1>3, <2>1 DEF RefreshFetch
<1>4. CASE RefreshError
  BY Zenon, <1>4, FinishType DEF RefreshError
<1>5. CASE RefreshPanic
  <2>1. overlay' \in [Keys -> [item : Item, epoch : Nat]]
    BY <1>5 DEF RefreshPanic, PrunedOverlay, NoEntry, NoItem, Item
  <2>2. QED
    BY Zenon, <1>5, <2>1, FinishType DEF RefreshPanic
<1>6. CASE RefreshInstall
  <2>1. overlay' \in [Keys -> [item : Item, epoch : Nat]]
    BY Zenon, <1>6 DEF RefreshInstall, PrunedOverlay, NoEntry, NoItem, Item
  <2>2. cache' \in [Keys -> Item]
    BY Zenon, <1>6 DEF RefreshInstall, Effective, RefresherState
  <2>3. epoch' \in Nat /\ nextEpoch' \in Nat
    BY <1>6 DEF RefreshInstall, RefresherState
  <2>4. QED
    BY Zenon, <1>6, <2>1, <2>2, <2>3, FinishType DEF RefreshInstall
<1>7. CASE Run \/ Cancel \/ Stop \/ Tick \/ ClearPending
  <2>1. At("off", 0) \in RefresherState /\ At("begin", 0) \in RefresherState
    BY AtType
  <2>2. At("begin", refresher.cause) \in RefresherState
    BY Zenon, AtType DEF RefresherState
  <2>3. CASE Run
    BY Zenon, <2>1, <2>3 DEF Run
  <2>4. CASE Cancel
    BY Zenon, <2>4 DEF Cancel
  <2>5. CASE Stop
    BY Zenon, <2>1, <2>5 DEF Stop
  <2>6. CASE Tick
    BY <2>1, <2>6 DEF Tick
  <2>7. CASE ClearPending
    BY <2>2, <2>7 DEF ClearPending
  <2>8. QED
    BY Zenon, <1>7, <2>3, <2>4, <2>5, <2>6, <2>7
<1>8. ASSUME NEW c \in Callers, Receive(c) PROVE TypeOK'
  <2>1. At("received", callers[c].req) \in RefresherState
    BY Zenon, AtType DEF CallerState
  <2>2. callers' \in [Callers -> CallerState]
    BY Zenon, <1>8 DEF Receive, CallerState
  <2>3. QED
    BY Zenon, <1>8, <2>1, <2>2 DEF Receive
<1>9. ASSUME NEW c \in Callers, Invalidate(c) PROVE TypeOK'
  <2>1. Versions(backend) \in [Keys -> Nat] /\ Quiescent \in BOOLEAN
    BY Zenon DEF Versions, Quiescent, Item
  <2>2. ASSUME NEW at \in {"waiting", "send"}, NEW req \in 0..MaxCalls
        PROVE  [at |-> at, req |-> req, since |-> Versions(backend), quiet |-> Quiescent] \in CallerState
    BY ONLY Zenon, <2>1, <2>2 DEF CallerState
  <2>3. calls + 1 \in 0..MaxCalls
    BY <1>9 DEF Invalidate
  <2>4. callers' \in [Callers -> CallerState]
    BY Zenon, <1>9, <2>2, <2>3 DEF Invalidate
  <2>5. QED
    BY Zenon, <1>9, <2>3, <2>4 DEF Invalidate
<1>10. ASSUME NEW c \in Callers, Caller(c) PROVE TypeOK'
  <2>1. callers' \in [Callers -> CallerState]
    <3>1. callers[c] \in CallerState
      BY Zenon
    <3>2. ASSUME NEW at \in {"stuck", "sending", "returned"}
          PROVE  [callers[c] EXCEPT !.at = at] \in CallerState
      BY ONLY Zenon, <3>1, <3>2 DEF CallerState
    <3>3. QED
      BY Zenon, <1>10, <3>2 DEF Caller, Send, SendPanics, Return
  <2>2. requests' \in [1..MaxCalls -> {"open", "ok", "err", "panic"}]
    BY Zenon, <1>10 DEF Caller, Send, SendPanics, Return
  <2>3. QED
    BY <1>10, <2>1, <2>2 DEF Caller, Send, SendPanics, Return
<1>11. ASSUME NEW k \in Keys, OutOfBand(k) PROVE TypeOK'
  <2>1. backend' \in [Keys -> Item]
    BY <1>11 DEF OutOfBand, Item
  <2>2. QED
    BY Zenon, <1>11, <2>1, DisturbedType DEF OutOfBand
<1>12. ASSUME NEW w \in Writers, NEW k \in Keys, NEW v \in Vals,
              NEW how \in {"insert", "upsert"}, Commit(w, k, v, how)
       PROVE  TypeOK'
  <2>1. [ver |-> backend[k].ver + 1, val |-> v] \in Item
    BY DEF Item
  <2>2. backend' \in [Keys -> Item] /\ writers' \in [Writers -> WriterState]
    BY Zenon, <1>12, <2>1 DEF Commit, WriterState
  <2>3. QED
    BY Zenon, <1>12, <2>2, DisturbedType DEF Commit
<1>13. ASSUME NEW w \in Writers, InsertIfAbsent(w) \/ Upsert(w) PROVE TypeOK'
  <2>1. writers' \in [Writers -> WriterState]
    <3>1. writers[w] \in WriterState
      BY Zenon
    <3>2. ASSUME NEW at \in {"written", "refused"}
          PROVE  [writers[w] EXCEPT !.at = at] \in WriterState
      BY ONLY Zenon, <3>1, <3>2 DEF WriterState
    <3>3. QED
      BY Zenon, <1>13, <3>2 DEF InsertIfAbsent, Upsert, WriteBack
  <2>2. CASE UNCHANGED <<cache, overlay, epoch, nextEpoch>>
    BY Zenon, <1>13, <2>1, <2>2, DisturbedType DEF InsertIfAbsent, Upsert, WriteBack
  <2>3. CASE WriteThrough(w)
    <3>1. writers[w].item \in Item
      BY Zenon DEF WriterState
    <3>2. cache' \in [Keys -> Item]
      BY Zenon, <2>3, <3>1 DEF WriteThrough
    <3>3. [item |-> writers[w].item, epoch |-> nextEpoch + 1] \in [item : Item, epoch : Nat]
      BY <3>1
    <3>4. overlay' \in [Keys -> [item : Item, epoch : Nat]]
      BY Zenon, <2>3, <3>3 DEF WriteThrough
    <3>5. QED
      BY <1>13, <2>1, <2>3, <3>2, <3>4, DisturbedType DEF InsertIfAbsent, Upsert, WriteBack, WriteThrough
  <2>4. QED
    BY Zenon, <1>13, <2>2, <2>3 DEF InsertIfAbsent, Upsert
<1>14. ASSUME NEW r \in Readers, List(r) PROVE TypeOK'
  <2>1. View(cache) \in [Keys -> Vals \cup {Absent}]
    BY Zenon DEF View, Item
  <2>2. memo' \in [Readers -> Memo]
    BY Zenon, <1>14, <2>1 DEF List, Memo
  <2>3. QED
    BY Zenon, <1>14, <2>2 DEF List
<1> HIDE DEF TypeOK, dataVars, requestVars, clientVars
<1>15. QED
  BY Zenon, <1>1, <1>2, <1>3, <1>4, <1>5, <1>6, <1>7, <1>8, <1>9, <1>10, <1>11, <1>12, <1>13, <1>14
     DEF Next, Refresher, Refresh

\* Every state of RefreshAheadCache is well typed.
THEOREM TypeCorrect == Spec => []TypeOK
<1> USE ConstantsAssumption
<1>1. Init => TypeOK
  <2> SUFFICES ASSUME Init PROVE TypeOK
    BY Zenon
  <2>1. NoItem \in Item /\ 0 \in 0..MaxCalls /\ At("off", 0) \in RefresherState
    BY AtType DEF Item, NoItem
  <2>2. callers \in [Callers -> CallerState]
    BY Zenon, <2>1 DEF Init, CallerState
  <2>3. writers \in [Writers -> WriterState]
    BY Zenon, <2>1 DEF Init, WriterState
  <2>4. memo \in [Readers -> Memo]
    BY Zenon DEF Init, Memo
  <2>5. overlay \in [Keys -> [item : Item, epoch : Nat]]
    BY Zenon, <2>1 DEF Init, NoEntry
  <2>6. backend \in [Keys -> Item] /\ cache \in [Keys -> Item]
    BY Zenon, <2>1 DEF Init
  <2>7. requests \in [1..MaxCalls -> {"open", "ok", "err", "panic"}]
    BY Zenon DEF Init
  <2>8. loaded \in BOOLEAN /\ cancelled \in BOOLEAN
    BY Zenon DEF Init
  <2>9. epoch \in Nat /\ nextEpoch \in Nat /\ ticks \in 0..MaxTicks /\ calls \in 0..MaxCalls
    BY DEF Init
  <2>10. QED
    BY Zenon, <2>1, <2>2, <2>3, <2>4, <2>5, <2>6, <2>7, <2>8, <2>9 DEF Init, TypeOK
<1>2. TypeOK /\ [Next]_vars => TypeOK'
  BY Zenon, TypeStep
<1>3. QED
  BY <1>1, <1>2, PTL DEF Spec
-----------------------------------------------------------------------------
(***************************************************************************)
(* The invariant behind the theorems on the content of the cache. It does  *)
(* not depend on the usage rule for writers.                               *)
(***************************************************************************)
InFlight == refresher.at \in {"fetch", "install"}

\* Only commits give a key a value.
Dated(item) == item.ver = 0 => item.val = Absent

AllDated ==
  \A k \in Keys : Dated(backend[k]) /\ Dated(cache[k]) /\ Dated(refresher.snap[k])

\* A writer writes through what was committed.
WritersCommitted ==
  \A w \in Writers : writers[w].at # "idle" =>
    /\ writers[w].key \in Keys
    /\ writers[w].item.ver > 0
    /\ writers[w].item.ver <= backend[writers[w].key].ver

\* The cache is never ahead of the backend.
CacheBehind == \A k \in Keys : cache[k].ver <= backend[k].ver

\* "c.cache always reflects live overlay writes".
OverlayShown == \A k \in Keys : overlay[k].epoch > 0 => overlay[k].item = cache[k]

\* A key the refresh in flight has read is as new in the snapshot as in the
\* cache, or was written since and survives the refresh.
SnapshotCovers ==
  InFlight => \A k \in Keys \ refresher.todo :
    /\ refresher.snap[k].ver <= backend[k].ver
    /\ cache[k].ver <= refresher.snap[k].ver \/ Survives(k)

FetchComplete == refresher.at = "install" => refresher.todo = {}

EpochsAllocated == epoch <= nextEpoch /\ refresher.epoch <= nextEpoch

\* An epoch newer than that of the refresh in flight comes from a write that
\* survives it, so installing the refresh always moves the epoch forward.
EpochAhead == InFlight => epoch < refresher.epoch \/ \E k \in Keys : Survives(k)

DataInv ==
  /\ AllDated
  /\ WritersCommitted
  /\ CacheBehind
  /\ OverlayShown
  /\ SnapshotCovers
  /\ FetchComplete
  /\ EpochsAllocated
  /\ EpochAhead

\* The refresh goroutine leaves doRefresh without touching the content; a
\* panic in Equal may have pruned the overlay.
LEMMA ParkKeepsDataInv ==
  ASSUME TypeOK, DataInv, NEW cause,
         NEW point \in {"off", "select", "received", "begin"}, refresher' = At(point, cause),
         overlay' = overlay \/ overlay' = PrunedOverlay,
         UNCHANGED <<backend, writers, cache, epoch, nextEpoch>>
  PROVE  DataInv'
<1> USE DEF TypeOK, DataInv, RefresherState, At, InFlight, Item
<1>1. AllDated'
  BY Zenon DEF AllDated, Dated, NoItem
<1>2. WritersCommitted' /\ CacheBehind'
  BY Zenon DEF WritersCommitted, CacheBehind
<1>3. OverlayShown'
  <2>1. CASE overlay' = overlay
    BY Zenon, <2>1 DEF OverlayShown
  <2>2. CASE overlay' = PrunedOverlay
    BY <2>2 DEF OverlayShown, PrunedOverlay, NoEntry
  <2>3. QED
    BY Zenon, <2>1, <2>2
<1>4. SnapshotCovers' /\ FetchComplete' /\ EpochAhead'
  BY Zenon DEF SnapshotCovers, FetchComplete, EpochAhead
<1>5. EpochsAllocated'
  BY DEF EpochsAllocated
<1>6. QED
  BY Zenon, <1>1, <1>2, <1>3, <1>4, <1>5

\* A write-through lands on top of whatever refresh is in flight.
LEMMA WriteThroughKeepsDataInv ==
  ASSUME TypeOK, DataInv, NEW w \in Writers, writers[w].at \in {"insert", "upsert"},
         WriteBack(w, "written"), WriteThrough(w)
  PROVE  DataInv'
<1> USE DEF TypeOK
<1>1. PICK k0 \in Keys, item \in Item :
        /\ writers[w].key = k0 /\ writers[w].item = item
        /\ item.ver > 0 /\ item.ver <= backend[k0].ver
  BY Zenon DEF DataInv, WritersCommitted, WriterState
<1>2. /\ backend' = backend
      /\ refresher' = refresher
      /\ writers' = [writers EXCEPT ![w].at = "written"]
      /\ cache' = [cache EXCEPT ![k0] = item]
      /\ overlay' = [overlay EXCEPT ![k0] = [item |-> item, epoch |-> nextEpoch + 1]]
      /\ epoch' = nextEpoch + 1
      /\ nextEpoch' = nextEpoch + 1
  BY Zenon, <1>1 DEF WriteBack, WriteThrough
<1>3. refresher.epoch <= nextEpoch /\ refresher.epoch \in Nat
  BY Zenon DEF DataInv, EpochsAllocated, RefresherState
<1>4. Survives(k0)'
  BY <1>1, <1>2, <1>3 DEF Survives
<1>5. \A k \in Keys : Survives(k) => Survives(k)'
  BY <1>1, <1>2, <1>3 DEF Survives
<1>6. AllDated'
  BY <1>1, <1>2 DEF DataInv, AllDated, Dated
<1>7. WritersCommitted'
  <2> SUFFICES ASSUME NEW u \in Writers, writers'[u].at # "idle"
               PROVE  /\ writers'[u].key \in Keys
                      /\ writers'[u].item.ver > 0
                      /\ writers'[u].item.ver <= backend'[writers'[u].key].ver
    BY Zenon DEF WritersCommitted
  <2>1. writers[u].at # "idle" /\ writers'[u].key = writers[u].key /\ writers'[u].item = writers[u].item
    BY Zenon, <1>2 DEF WriterState
  <2>2. QED
    BY Zenon, <1>2, <2>1 DEF DataInv, WritersCommitted
<1>8. CacheBehind'
  BY Zenon, <1>1, <1>2 DEF DataInv, CacheBehind
<1>9. OverlayShown'
  BY Zenon, <1>1, <1>2 DEF DataInv, OverlayShown
<1>10. SnapshotCovers'
  BY <1>1, <1>2, <1>4, <1>5, SMTT(30) DEF DataInv, SnapshotCovers, InFlight
<1>11. FetchComplete' /\ EpochsAllocated'
  BY <1>2, <1>3 DEF DataInv, FetchComplete, EpochsAllocated
<1>12. EpochAhead'
  BY Zenon, <1>1, <1>4 DEF EpochAhead
<1>13. QED
  BY Zenon, <1>6, <1>7, <1>8, <1>9, <1>10, <1>11, <1>12 DEF DataInv

\* Installing a refresh.
LEMMA InstallKeepsDataInv ==
  ASSUME TypeOK, DataInv, RefreshInstall
  PROVE  DataInv'
<1>1. PICK point \in {"off", "select"} : refresher' = At(point, 0)
  BY Zenon DEF RefreshInstall, Finish
<1>2. /\ backend' = backend /\ writers' = writers
      /\ cache' = Effective /\ overlay' = PrunedOverlay
  BY Zenon DEF RefreshInstall, clientVars
<1>3. /\ InFlight
      /\ \A k \in Keys : refresher.snap[k].ver <= backend[k].ver
  BY Zenon DEF RefreshInstall, DataInv, FetchComplete, SnapshotCovers, InFlight
<1>4. \A k \in Keys : Survives(k) => overlay[k].item = cache[k]
  BY DEF TypeOK, DataInv, OverlayShown, Survives, RefresherState
<1>5. \A k \in Keys : cache'[k] = IF Survives(k) THEN cache[k] ELSE refresher.snap[k]
  BY Zenon, <1>2, <1>4 DEF Effective
<1>6. AllDated'
  BY Zenon, <1>1, <1>2, <1>5 DEF DataInv, AllDated, Dated, At, NoItem
<1>7. WritersCommitted'
  BY Zenon, <1>2 DEF DataInv, WritersCommitted
<1>8. CacheBehind'
  BY Zenon, <1>2, <1>3, <1>5 DEF DataInv, CacheBehind
<1>9. OverlayShown'
  BY <1>2, <1>4, <1>5 DEF OverlayShown, PrunedOverlay, NoEntry, NoItem
<1>10. SnapshotCovers' /\ FetchComplete' /\ EpochAhead'
  BY Zenon, <1>1 DEF SnapshotCovers, FetchComplete, EpochAhead, InFlight, At
<1>11. EpochsAllocated'
  BY <1>1 DEF TypeOK, DataInv, EpochsAllocated, RefreshInstall, At, RefresherState
<1>12. QED
  BY Zenon, <1>6, <1>7, <1>8, <1>9, <1>10, <1>11 DEF DataInv

\* A commit moves the backend ahead of everything that was read from it.
LEMMA CommitKeepsDataInv ==
  ASSUME TypeOK, DataInv, NEW k0 \in Keys, NEW item \in Item, item.ver = backend[k0].ver + 1,
         backend' = [backend EXCEPT ![k0] = item], WritersCommitted',
         UNCHANGED <<cache, overlay, epoch, nextEpoch, refresher>>
  PROVE  DataInv'
<1>1. \A k \in Keys : backend[k].ver <= backend'[k].ver
  BY DEF TypeOK, Item
<1>2. AllDated'
  BY DEF TypeOK, DataInv, AllDated, Dated, Item
<1>3. CacheBehind'
  BY <1>1 DEF TypeOK, DataInv, CacheBehind, Item
<1>4. OverlayShown' /\ FetchComplete' /\ EpochsAllocated' /\ EpochAhead'
  BY Zenon DEF DataInv, OverlayShown, FetchComplete, EpochsAllocated, EpochAhead, InFlight, Survives
<1>5. SnapshotCovers'
  BY <1>1, SMTT(30) DEF TypeOK, DataInv, SnapshotCovers, InFlight, Survives, RefresherState, Item
<1>6. QED
  BY Zenon, <1>2, <1>3, <1>4, <1>5 DEF DataInv

\* Starting a refresh, and reading one key of the backend.
LEMMA FetchKeepsDataInv ==
  ASSUME TypeOK, DataInv, RefreshBegin \/ \E k \in Keys : RefreshFetch(k)
  PROVE  DataInv'
<1> USE DEF TypeOK, RefresherState
<1>1. UNCHANGED <<backend, writers, cache, overlay, epoch>>
  BY Zenon DEF RefreshBegin, RefreshFetch, clientVars, dataVars
<1>2. WritersCommitted' /\ CacheBehind' /\ OverlayShown'
  BY Zenon, <1>1 DEF DataInv, WritersCommitted, CacheBehind, OverlayShown
<1>3. CASE RefreshBegin
  <2>1. /\ refresher'.at = "fetch" /\ refresher'.todo = Keys
        /\ refresher'.epoch = nextEpoch + 1 /\ nextEpoch' = nextEpoch + 1
        /\ refresher'.snap = refresher.snap
    BY Zenon, <1>3 DEF RefreshBegin
  <2>2. AllDated'
    BY Zenon, <1>1, <2>1 DEF DataInv, AllDated
  <2>3. SnapshotCovers' /\ FetchComplete'
    BY Zenon, <2>1 DEF SnapshotCovers, FetchComplete
  <2>4. EpochsAllocated' /\ EpochAhead'
    BY <1>1, <2>1 DEF DataInv, EpochsAllocated, EpochAhead
  <2>5. QED
    BY Zenon, <1>2, <2>2, <2>3, <2>4 DEF DataInv
<1>4. ASSUME NEW k0 \in Keys, RefreshFetch(k0) PROVE DataInv'
  <2>1. /\ refresher.at = "fetch"
        /\ refresher'.todo = refresher.todo \ {k0}
        /\ refresher'.snap = [refresher.snap EXCEPT ![k0] = backend[k0]]
        /\ refresher'.epoch = refresher.epoch /\ nextEpoch' = nextEpoch
        /\ refresher'.at = IF refresher.todo = {k0} THEN "install" ELSE "fetch"
    BY Zenon, <1>4 DEF RefreshFetch
  <2>2. AllDated'
    BY Zenon, <1>1, <2>1 DEF DataInv, AllDated
  <2>3. \A k \in Keys : Survives(k)' = Survives(k)
    BY Zenon, <1>1, <2>1 DEF Survives
  <2>4. SnapshotCovers'
    <3> SUFFICES ASSUME NEW k \in Keys \ refresher'.todo
                 PROVE  /\ refresher'.snap[k].ver <= backend'[k].ver
                        /\ cache'[k].ver <= refresher'.snap[k].ver \/ Survives(k)'
      BY Zenon DEF SnapshotCovers
    <3>1. CASE k = k0
      BY <1>1, <2>1, <3>1 DEF DataInv, CacheBehind, Item
    <3>2. CASE k # k0
      BY Zenon, <1>1, <2>1, <2>3, <3>2 DEF DataInv, SnapshotCovers, InFlight
    <3>3. QED
      BY Zenon, <3>1, <3>2
  <2>5. FetchComplete'
    BY Zenon, <2>1 DEF FetchComplete
  <2>6. EpochsAllocated' /\ EpochAhead'
    BY Zenon, <1>1, <2>1, <2>3 DEF DataInv, EpochsAllocated, EpochAhead, InFlight
  <2>7. QED
    BY Zenon, <1>2, <2>2, <2>4, <2>5, <2>6 DEF DataInv
<1>5. QED
  BY Zenon, <1>3, <1>4

\* A step that touches neither the backend nor the content nor doRefresh.
LEMMA StutterKeepsDataInv ==
  ASSUME DataInv, UNCHANGED <<backend, writers, cache, overlay, epoch, nextEpoch, refresher>>
  PROVE  DataInv'
BY Zenon DEF DataInv, AllDated, WritersCommitted, CacheBehind, OverlayShown, SnapshotCovers,
       FetchComplete, EpochsAllocated, EpochAhead, InFlight, Survives

\* InsertIfAbsent and Upsert either write through or leave the content alone.
LEMMA WriteCases ==
  ASSUME TypeOK, NEW w \in Writers, InsertIfAbsent(w) \/ Upsert(w)
  PROVE  /\ writers[w].at \in {"insert", "upsert"}
         /\ \/ WriteBack(w, "written") /\ WriteThrough(w)
            \/ WriteBack(w, "refused") /\ UNCHANGED <<cache, overlay, epoch, nextEpoch>>
            \/ /\ writers[w].at = "insert" /\ cache[writers[w].key].val # Absent
               /\ WriteBack(w, "written") /\ UNCHANGED <<cache, overlay, epoch, nextEpoch>>
BY Zenon DEF InsertIfAbsent, Upsert

\* Every step preserves the data invariant, action by action.
LEMMA DataInvNext ==
  ASSUME TypeOK, DataInv, [Next]_vars
  PROVE  DataInv'
<1>1. CASE RefreshBegin \/ \E k \in Keys : RefreshFetch(k)
  BY Zenon, <1>1, FetchKeepsDataInv
<1>2. CASE RefreshError \/ RefreshPanic
  <2>1. PICK point \in {"off", "select"} : refresher' = At(point, 0)
    BY Zenon, <1>2 DEF RefreshError, RefreshPanic, Finish
  <2>2. /\ UNCHANGED <<backend, writers, cache, epoch, nextEpoch>>
        /\ overlay' = overlay \/ overlay' = PrunedOverlay
    BY Zenon, <1>2 DEF RefreshError, RefreshPanic, clientVars, dataVars
  <2>3. QED
    BY Zenon, <2>1, <2>2, ParkKeepsDataInv
<1>3. CASE RefreshInstall
  BY Zenon, <1>3, InstallKeepsDataInv
<1>4. CASE Run \/ Stop \/ Tick \/ ClearPending \/ \E c \in Callers : Receive(c)
  <2>1. PICK point \in {"off", "select", "received", "begin"} : \E cause : refresher' = At(point, cause)
    BY Zenon, <1>4 DEF Run, Stop, Tick, ClearPending, Receive
  <2>2. PICK cause : refresher' = At(point, cause)
    BY Zenon, <2>1
  <2>3. UNCHANGED <<backend, writers, cache, overlay, epoch, nextEpoch>>
    BY Zenon, <1>4 DEF Run, Stop, Tick, ClearPending, Receive, clientVars, dataVars
  <2>4. QED
    BY Zenon, <2>2, <2>3, ParkKeepsDataInv
<1>5. CASE \/ UNCHANGED vars \/ Cancel
           \/ \E c \in Callers : Invalidate(c) \/ Caller(c)
           \/ \E r \in Readers : List(r)
  BY Zenon, <1>5, StutterKeepsDataInv
     DEF vars, Cancel, Invalidate, Caller, Send, SendPanics, Return, List, clientVars, dataVars
<1>6. ASSUME NEW k \in Keys, OutOfBand(k) PROVE DataInv'
  <2>1. PICK v \in Vals \cup {Absent} :
          backend' = [backend EXCEPT ![k] = [ver |-> backend[k].ver + 1, val |-> v]]
    BY Zenon, <1>6 DEF OutOfBand
  <2>2. [ver |-> backend[k].ver + 1, val |-> v] \in Item
    BY DEF TypeOK, Item
  <2>3. UNCHANGED <<writers, cache, overlay, epoch, nextEpoch, refresher>>
    BY Zenon, <1>6 DEF OutOfBand, dataVars
  <2>4. \A j \in Keys : backend[j].ver \in Nat /\ backend'[j].ver \in Nat /\ backend[j].ver <= backend'[j].ver
    BY <2>1 DEF TypeOK, Item
  <2>5. WritersCommitted'
    BY <2>3, <2>4 DEF TypeOK, DataInv, WritersCommitted, WriterState, Item
  <2>6. QED
    BY Zenon, <2>1, <2>2, <2>3, <2>5, CommitKeepsDataInv
<1>7. ASSUME NEW w \in Writers, NEW k \in Keys, NEW v \in Vals,
             NEW how \in {"insert", "upsert"}, Commit(w, k, v, how)
      PROVE  DataInv'
  <2>0. [ver |-> backend[k].ver + 1, val |-> v] \in Item
    BY DEF TypeOK, Item
  <2>1. PICK item \in Item : /\ item = [ver |-> backend[k].ver + 1, val |-> v]
                             /\ backend' = [backend EXCEPT ![k] = item]
                             /\ writers' = [writers EXCEPT ![w] = [at |-> how, key |-> k, item |-> item]]
    BY Zenon, <1>7, <2>0 DEF Commit
  <2>2. UNCHANGED <<cache, overlay, epoch, nextEpoch, refresher>>
    BY Zenon, <1>7 DEF Commit, dataVars
  <2>3. WritersCommitted'
    <3> SUFFICES ASSUME NEW u \in Writers, writers'[u].at # "idle"
                 PROVE  /\ writers'[u].key \in Keys
                        /\ writers'[u].item.ver > 0
                        /\ writers'[u].item.ver <= backend'[writers'[u].key].ver
      BY Zenon DEF WritersCommitted
    <3>1. CASE u = w
      BY <2>1, <3>1 DEF TypeOK, Item
    <3>2. CASE u # w
      BY <2>1, <3>2 DEF TypeOK, DataInv, WritersCommitted, WriterState, Item
    <3>3. QED
      BY Zenon, <3>1, <3>2
  <2>4. QED
    BY Zenon, <2>1, <2>2, <2>3, CommitKeepsDataInv
<1>8. ASSUME NEW w \in Writers, InsertIfAbsent(w) \/ Upsert(w) PROVE DataInv'
  <2>1. CASE WriteBack(w, "written") /\ WriteThrough(w)
    BY Zenon, <1>8, <2>1, WriteCases, WriteThroughKeepsDataInv
  <2>2. ASSUME NEW result, WriteBack(w, result), UNCHANGED <<cache, overlay, epoch, nextEpoch>>
        PROVE  DataInv'
    <3>1. UNCHANGED <<backend, refresher>> /\ writers' = [writers EXCEPT ![w].at = result]
      BY Zenon, <2>2 DEF WriteBack
    <3>2. \A u \in Writers : /\ writers'[u].key = writers[u].key /\ writers'[u].item = writers[u].item
                             /\ writers'[u].at # "idle" => writers[u].at # "idle"
      BY Zenon, <1>8, <3>1, WriteCases DEF TypeOK, WriterState
    <3>3. WritersCommitted'
      BY Zenon, <3>1, <3>2 DEF DataInv, WritersCommitted
    <3>4. QED
      BY Zenon, <2>2, <3>1, <3>3 DEF DataInv, AllDated, CacheBehind, OverlayShown, SnapshotCovers,
           FetchComplete, EpochsAllocated, EpochAhead, InFlight, Survives
  <2>3. QED
    BY Zenon, <1>8, <2>1, <2>2, WriteCases
<1>9. QED
  BY Zenon, <1>1, <1>2, <1>3, <1>4, <1>5, <1>6, <1>7, <1>8 DEF Next, Refresher, Refresh

\* The data invariant holds in every state.
THEOREM DataInvariant == Spec => []DataInv
<1>1. Init => DataInv
  BY DEF Init, DataInv, AllDated, Dated, WritersCommitted, CacheBehind, OverlayShown,
         SnapshotCovers, FetchComplete, EpochsAllocated, EpochAhead, InFlight, At, NoItem, NoEntry
<1>2. TypeOK /\ DataInv /\ [Next]_vars => DataInv'
  BY Zenon, DataInvNext
<1>3. QED
  BY <1>1, <1>2, TypeCorrect, PTL DEF Spec
-----------------------------------------------------------------------------
(***************************************************************************)
(* What the usage rule adds: a value on its way to the cache is the latest *)
(* commit of its key, and an insert is the first.                          *)
(***************************************************************************)
MidWriteLatest ==
  \A w \in Writers : writers[w].at \in {"insert", "upsert"} => writers[w].item = backend[writers[w].key]

InsertFirst == \A w \in Writers : writers[w].at = "insert" => writers[w].item.ver = 1

SingletonInv == MidWriteLatest /\ InsertFirst

\* With one writer per key at a time, every step preserves SingletonInv.
LEMMA SingletonInvNext ==
  ASSUME SingletonWrites, TypeOK, DataInv, SingletonInv, [Next]_vars
  PROVE  SingletonInv'
<1> USE DEF SingletonInv, MidWriteLatest, InsertFirst
<1>1. CASE UNCHANGED <<backend, writers>>
  BY Zenon, <1>1
<1>2. ASSUME NEW k \in Keys, OutOfBand(k) PROVE SingletonInv'
  <2>1. \A w \in Writers : writers[w].at \in {"insert", "upsert"} => writers[w].key # k
    BY Zenon, <1>2 DEF OutOfBand, MayCommit, MidWrite
  <2>2. writers' = writers /\ \A j \in Keys \ {k} : backend'[j] = backend[j]
    BY Zenon, <1>2 DEF OutOfBand, TypeOK
  <2>3. \A w \in Writers : writers[w].at \in {"insert", "upsert"} => writers[w].key \in Keys
    BY Zenon DEF DataInv, WritersCommitted
  <2>4. QED
    BY Zenon, <2>1, <2>2, <2>3
<1>3. ASSUME NEW w \in Writers, NEW k \in Keys, NEW v \in Vals,
             NEW how \in {"insert", "upsert"}, Commit(w, k, v, how)
      PROVE  SingletonInv'
  <2>1. \A u \in Writers : writers[u].at \in {"insert", "upsert"} => writers[u].key # k /\ writers[u].key \in Keys
    BY Zenon, <1>3 DEF Commit, MayCommit, MidWrite, DataInv, WritersCommitted
  <2>2. /\ backend'[k] = [ver |-> backend[k].ver + 1, val |-> v]
        /\ \A j \in Keys \ {k} : backend'[j] = backend[j]
        /\ writers'[w] = [at |-> how, key |-> k, item |-> [ver |-> backend[k].ver + 1, val |-> v]]
        /\ \A u \in Writers \ {w} : writers'[u] = writers[u]
        /\ how = "insert" => backend[k].ver = 0
    BY Zenon, <1>3 DEF Commit, TypeOK
  <2>3. /\ writers'[w].item = backend'[writers'[w].key]
        /\ writers'[w].at = "insert" => writers'[w].item.ver = 1
    BY ONLY <2>2
  <2>4. ASSUME NEW u \in Writers \ {w}
        PROVE  /\ writers'[u].at \in {"insert", "upsert"} => writers'[u].item = backend'[writers'[u].key]
               /\ writers'[u].at = "insert" => writers'[u].item.ver = 1
    <3>1. writers'[u] = writers[u]
      BY Zenon, <2>2
    <3>2. writers[u].at \in {"insert", "upsert"} => backend'[writers[u].key] = backend[writers[u].key]
      BY Zenon, <2>1, <2>2
    <3>3. QED
      BY Zenon, <3>1, <3>2
  <2>5. QED
    BY Zenon, <2>3, <2>4
<1>4. ASSUME NEW w \in Writers, InsertIfAbsent(w) \/ Upsert(w) PROVE SingletonInv'
  <2>1. PICK result \in {"written", "refused"} : WriteBack(w, result)
    BY Zenon, <1>4 DEF InsertIfAbsent, Upsert
  <2>2. backend' = backend /\ writers' = [writers EXCEPT ![w].at = result]
    BY Zenon, <2>1 DEF WriteBack
  <2>3. QED
    BY <2>2 DEF TypeOK, WriterState
<1>5. QED
  BY Zenon, <1>1, <1>2, <1>3, <1>4
     DEF Next, Refresher, Refresh, RefreshBegin, RefreshFetch, RefreshError, RefreshPanic, RefreshInstall,
         Stop, Receive, ClearPending, Run, Cancel, Tick, Invalidate, Caller, Send, SendPanics, Return,
         List, vars, clientVars

\* SingletonInv holds in every state.
LEMMA SingletonInvariant == ASSUME SingletonWrites PROVE Spec => []SingletonInv
<1>1. Init => SingletonInv
  BY DEF Init, SingletonInv, MidWriteLatest, InsertFirst
<1>2. TypeOK /\ DataInv /\ SingletonInv /\ [Next]_vars => SingletonInv'
  BY Zenon, SingletonInvNext
<1>3. QED
  BY <1>1, <1>2, TypeCorrect, DataInvariant, PTL DEF Spec

\* No step makes the visible version of a key older.
LEMMA CacheAdvances ==
  ASSUME TypeOK, DataInv, SingletonInv, [Next]_vars
  PROVE  \A k \in Keys : cache'[k].ver >= cache[k].ver
<1>1. CASE UNCHANGED cache
  BY <1>1 DEF TypeOK, Item
<1>2. CASE RefreshInstall
  <2>1. \A k \in Keys : cache'[k] = IF Survives(k) THEN overlay[k].item ELSE refresher.snap[k]
    BY Zenon, <1>2 DEF RefreshInstall, Effective
  <2>2. \A k \in Keys : Survives(k) => overlay[k].item = cache[k]
    BY DEF TypeOK, DataInv, OverlayShown, Survives, RefresherState
  <2>3. \A k \in Keys : cache[k].ver <= refresher.snap[k].ver \/ Survives(k)
    BY Zenon, <1>2 DEF RefreshInstall, DataInv, FetchComplete, SnapshotCovers, InFlight
  <2>4. \A k \in Keys : cache[k].ver \in Nat /\ refresher.snap[k].ver \in Nat
    BY Zenon DEF TypeOK, RefresherState, Item
  <2>5. QED
    BY <2>1, <2>2, <2>3, <2>4
<1>3. ASSUME NEW w \in Writers, writers[w].at \in {"insert", "upsert"}, WriteThrough(w)
      PROVE  \A k \in Keys : cache'[k].ver >= cache[k].ver
  <2>1. writers[w].key \in Keys /\ writers[w].item = backend[writers[w].key]
    BY Zenon, <1>3 DEF DataInv, WritersCommitted, SingletonInv, MidWriteLatest
  <2>2. cache' = [cache EXCEPT ![writers[w].key] = backend[writers[w].key]]
    BY Zenon, <1>3, <2>1 DEF WriteThrough
  <2>3. QED
    BY <2>1, <2>2 DEF TypeOK, DataInv, CacheBehind, Item
<1>4. ASSUME NEW w \in Writers, InsertIfAbsent(w) \/ Upsert(w)
      PROVE  \A k \in Keys : cache'[k].ver >= cache[k].ver
  BY Zenon, <1>1, <1>3, <1>4, WriteCases
<1>5. QED
  BY Zenon, <1>1, <1>2, <1>4
     DEF Next, Refresher, Refresh, RefreshBegin, RefreshFetch, RefreshError, RefreshPanic,
         Stop, Receive, ClearPending, Run, Cancel, Tick, Invalidate, Caller, Send, SendPanics, Return,
         List, OutOfBand, Commit, vars, dataVars

\* Under the usage rule, neither a refresh that started before a write nor a
\* late write-through puts an older version of a key back in the cache.
THEOREM NeverGoesBackHolds == ASSUME SingletonWrites PROVE Spec => NeverGoesBack
<1>1. TypeOK /\ DataInv /\ SingletonInv /\ [Next]_vars => [\A k \in Keys : cache'[k].ver >= cache[k].ver]_vars
  BY Zenon, CacheAdvances
<1>2. QED
  BY <1>1, TypeCorrect, DataInvariant, SingletonInvariant, PTL DEF Spec, NeverGoesBack

\* Under the usage rule, a writer whose InsertIfAbsent or Upsert succeeded
\* reads its write, or a later commit, from then on.
THEOREM ReadYourWritesHolds == ASSUME SingletonWrites PROVE Spec => []ReadYourWrites
<1>1. Init => ReadYourWrites
  BY DEF Init, ReadYourWrites
<1>2. TypeOK /\ DataInv /\ SingletonInv /\ ReadYourWrites /\ [Next]_vars => ReadYourWrites'
  <2> SUFFICES ASSUME TypeOK, DataInv, SingletonInv, ReadYourWrites, [Next]_vars,
                      NEW w \in Writers, writers'[w].at = "written"
               PROVE  cache'[writers'[w].key].ver >= writers'[w].item.ver
    BY Zenon DEF ReadYourWrites
  <2>1. CASE writers'[w] = writers[w]
    <3>1. writers[w].key \in Keys /\ cache[writers[w].key].ver >= writers[w].item.ver
      BY Zenon, <2>1 DEF ReadYourWrites, DataInv, WritersCommitted
    <3>2. cache'[writers[w].key].ver >= cache[writers[w].key].ver
      BY Zenon, <3>1, CacheAdvances
    <3>3. cache'[writers[w].key] \in Item /\ cache[writers[w].key] \in Item /\ writers[w].item \in Item
      BY Zenon, <3>1, TypeStep DEF TypeOK, WriterState
    <3>4. QED
      BY <2>1, <3>1, <3>2, <3>3 DEF Item
  <2>2. CASE writers'[w] # writers[w]
    <3>1. InsertIfAbsent(w) \/ Upsert(w)
      <4>1. ASSUME NEW u \in Writers, InsertIfAbsent(u) \/ Upsert(u) PROVE u = w
        BY Zenon, <2>2, <4>1 DEF InsertIfAbsent, Upsert, WriteBack, TypeOK
      <4>2. ASSUME NEW u \in Writers, NEW k \in Keys, NEW v \in Vals,
                   NEW how \in {"insert", "upsert"}, Commit(u, k, v, how)
            PROVE  FALSE
        BY Zenon, <2>2, <4>2 DEF Commit, TypeOK
      <4>3. QED
        BY Zenon, <2>2, <4>1, <4>2
           DEF Next, Refresher, Refresh, RefreshBegin, RefreshFetch, RefreshError, RefreshPanic,
               RefreshInstall, Stop, Receive, ClearPending, Run, Cancel, Tick, Invalidate, Caller,
               Send, SendPanics, Return, List, OutOfBand, vars, clientVars
    <3>2. writers[w].key \in Keys /\ writers[w].item \in Item
      BY Zenon, <3>1, WriteCases DEF DataInv, WritersCommitted, TypeOK, WriterState
    <3>3. writers'[w].key = writers[w].key /\ writers'[w].item = writers[w].item
      BY <3>1 DEF InsertIfAbsent, Upsert, WriteBack, TypeOK, WriterState
    <3>4. CASE WriteThrough(w)
      BY <3>2, <3>3, <3>4 DEF WriteThrough, TypeOK, Item
    <3>5. CASE writers[w].at = "insert" /\ cache[writers[w].key].val # Absent /\ UNCHANGED cache
      <4>1. cache[writers[w].key].ver # 0
        BY Zenon, <3>2, <3>5 DEF DataInv, AllDated, Dated
      <4>2. writers[w].item.ver = 1
        BY Zenon, <3>5 DEF SingletonInv, InsertFirst
      <4>3. QED
        BY <3>2, <3>3, <3>5, <4>1, <4>2 DEF TypeOK, Item
    <3>6. ~WriteBack(w, "refused")
      BY Zenon DEF WriteBack, TypeOK, WriterState
    <3>7. QED
      BY Zenon, <3>1, <3>4, <3>5, <3>6, WriteCases
  <2>3. QED
    BY Zenon, <2>1, <2>2
<1>3. QED
  BY <1>1, <1>2, TypeCorrect, DataInvariant, SingletonInvariant, PTL DEF Spec
-----------------------------------------------------------------------------
\* A memoised epoch is never ahead of the cache's.
MemoBehind == \A r \in Readers : memo[r].epoch <= epoch

\* A step that changes the visible content moves the epoch forward.
LEMMA EpochAdvances ==
  ASSUME TypeOK, DataInv, [Next]_vars
  PROVE  \/ View(cache') = View(cache) /\ epoch' >= epoch
         \/ epoch' > epoch
<1>1. CASE UNCHANGED <<cache, epoch>>
  BY <1>1 DEF TypeOK
<1>2. CASE RefreshInstall
  <2>1. CASE View(Effective) = View(cache) /\ epoch' = epoch
    BY <1>2, <2>1 DEF RefreshInstall, TypeOK
  <2>2. CASE epoch' = nextEpoch + 1
    BY <2>2 DEF TypeOK, DataInv, EpochsAllocated
  <2>3. CASE (\A k \in Keys : ~Survives(k)) /\ epoch' = refresher.epoch
    BY Zenon, <1>2, <2>3 DEF RefreshInstall, DataInv, EpochAhead, InFlight, TypeOK, RefresherState
  <2>4. QED
    BY Zenon, <1>2, <2>1, <2>2, <2>3 DEF RefreshInstall
<1>3. ASSUME NEW w \in Writers, InsertIfAbsent(w) \/ Upsert(w)
      PROVE  UNCHANGED <<cache, epoch>> \/ epoch' > epoch
  <2>1. CASE WriteThrough(w)
    BY <2>1 DEF WriteThrough, TypeOK, DataInv, EpochsAllocated
  <2>2. QED
    BY Zenon, <1>3, <2>1, WriteCases
<1>4. QED
  BY Zenon, <1>1, <1>2, <1>3
     DEF Next, Refresher, Refresh, RefreshBegin, RefreshFetch, RefreshError, RefreshPanic,
         Stop, Receive, ClearPending, Run, Cancel, Tick, Invalidate, Caller, Send, SendPanics, Return,
         List, OutOfBand, Commit, vars, dataVars

\* A memo whose epoch is still the cache's holds what the cache holds, whoever
\* wrote and however refreshes and writes interleaved.
THEOREM MemoSoundHolds == Spec => []MemoSound
<1> DEFINE MemoInv == MemoBehind /\ MemoSound
<1>1. Init => MemoInv
  BY DEF Init, MemoBehind, MemoSound
<1>2. TypeOK /\ DataInv /\ MemoInv /\ [Next]_vars => MemoInv'
  <2> SUFFICES ASSUME TypeOK, DataInv, MemoInv, [Next]_vars PROVE MemoInv'
    BY Zenon
  <2>1. ASSUME NEW r \in Readers, List(r) PROVE MemoInv'
    BY <2>1 DEF List, MemoBehind, MemoSound, View, TypeOK, Memo, dataVars
  <2>2. CASE UNCHANGED memo
    BY <2>2, EpochAdvances, TypeStep DEF MemoBehind, MemoSound, TypeOK, Memo
  <2>3. QED
    BY Zenon, <2>1, <2>2
     DEF Next, Refresher, Refresh, RefreshBegin, RefreshFetch, RefreshError, RefreshPanic, RefreshInstall,
         Stop, Receive, ClearPending, Run, Cancel, Tick, Invalidate, Caller, Send, SendPanics, Return,
         OutOfBand, Commit, InsertIfAbsent, Upsert, WriteBack, vars, clientVars
<1>3. MemoInv => MemoSound
  BY Zenon
<1>4. QED
  BY <1>1, <1>2, <1>3, TypeCorrect, DataInvariant, PTL DEF Spec
\* A refresh that leaves the visible content as it was keeps the epoch, so a
\* reader never recomputes what it memoised without need.
THEOREM EpochStableHolds == Spec => EpochStable
<1>1. ASSUME TypeOK, [Next]_vars
      PROVE  writers' = writers /\ View(cache') = View(cache) => epoch' = epoch
  <2>1. CASE epoch' = epoch
    BY Zenon, <2>1
  <2>2. CASE RefreshInstall
    BY Zenon, <2>2 DEF RefreshInstall
  <2>3. ASSUME NEW w \in Writers, InsertIfAbsent(w) \/ Upsert(w) PROVE writers' # writers
    <3>1. PICK result \in {"written", "refused"} : WriteBack(w, result)
      BY Zenon, <2>3, WriteCases, <1>1
    <3>2. writers'[w].at = result /\ writers[w].at # result
      BY Zenon, <1>1, <2>3, <3>1, WriteCases DEF WriteBack, TypeOK, WriterState
    <3>3. QED
      BY Zenon, <3>2
  <2>4. QED
    BY Zenon, <1>1, <2>1, <2>2, <2>3
       DEF Next, Refresher, Refresh, RefreshBegin, RefreshFetch, RefreshError, RefreshPanic,
           Stop, Receive, ClearPending, Run, Cancel, Tick, Invalidate, Caller, Send, SendPanics, Return,
           List, OutOfBand, Commit, vars, dataVars
<1>2. TypeOK /\ [Next]_vars => [writers' = writers /\ View(cache') = View(cache) => epoch' = epoch]_vars
  BY Zenon, <1>1
<1>3. QED
  BY <1>2, TypeCorrect, PTL DEF Spec, EpochStable
-----------------------------------------------------------------------------
(***************************************************************************)
(* Requests. Who sends, what is pending and what the goroutine serves are  *)
(* kept apart by pendingLock, the channel and the goroutine's own order;   *)
(* none of it depends on the usage rule for writers.                       *)
(***************************************************************************)
Sending(c) == callers[c].at \in {"send", "sending", "stuck"}

Serving == refresher.at \in {"begin", "fetch", "install"}

\* The channel is made when Run has loaded and closed when the loop ends.
LoopState ==
  /\ channel = "nil" <=> run \in {"new", "loading", "failed"}
  /\ channel = "closed" <=> run = "stopped"
  /\ run = "loading" => Serving /\ refresher.cause = 0
  /\ run \in {"new", "failed", "stopped"} <=> refresher.at = "off"

\* The pending request has at most one sender, and none once it is received.
SenderHolds ==
  /\ \A c \in Callers : Sending(c) => pending # 0 /\ callers[c].req = pending
  /\ \A c, d \in Callers : Sending(c) /\ Sending(d) => c = d
  /\ refresher.at = "received" =>
       pending # 0 /\ refresher.cause = pending /\ \A c \in Callers : ~Sending(c)

SenderInv == LoopState /\ SenderHolds

\* Requests are numbered by the calls that made them; one that is pending or
\* being served is open, and a new caller never joins the one being served.
RequestInv ==
  /\ pending <= calls /\ refresher.cause <= calls
  /\ \A c \in Callers : callers[c].req <= calls
  /\ \A c \in Callers : callers[c].req = 0 => callers[c].at = "idle"
  /\ \A r \in 1..MaxCalls : r > calls \/ r = pending \/ r = refresher.cause => requests[r] = "open"
  /\ Serving /\ pending # 0 => pending # refresher.cause
  /\ refresher.at \in {"off", "select"} => refresher.cause = 0

\* An overlay entry's epoch was allocated, so the next refresh prunes it.
OverlayAllocated == \A k \in Keys : overlay[k].epoch <= nextEpoch

\* The refresh in flight serves the request c waits for.
ServedBy(c) == InFlight /\ callers[c].req # 0 /\ callers[c].req = refresher.cause

Succeeded(c) == callers[c].req # 0 /\ requests[callers[c].req] = "ok"

(***************************************************************************)
(* What a refresh owes the callers it serves: every key it has read is as  *)
(* new as when they called, and so is every write that outlives it.        *)
(***************************************************************************)
FreshInv ==
  /\ \A c \in Callers, k \in Keys : callers[c].since[k] <= backend[k].ver
  /\ \A c \in Callers : ServedBy(c) => \A k \in Keys :
       /\ k \notin refresher.todo => callers[c].since[k] <= refresher.snap[k].ver
       /\ Survives(k) => callers[c].since[k] <= cache[k].ver
  /\ \A c \in Callers : Succeeded(c) => \A k \in Keys : callers[c].since[k] <= cache[k].ver

(***************************************************************************)
(* While nothing is written, a refresh that started after a quiet caller's *)
(* call reads the backend as it is, and nothing outlives it.               *)
(***************************************************************************)
ConvergeInv ==
  \A c \in Callers : callers[c].quiet =>
    /\ Quiescent
    /\ InFlight /\ (ServedBy(c) \/ Succeeded(c)) => \A k \in Keys :
         (k \notin refresher.todo => refresher.snap[k] = backend[k]) /\ ~Survives(k)
    /\ Succeeded(c) => View(cache) = View(backend)

\* Until it returns, doRefresh leaves requests alone and stays at the one it serves.
LEMMA FetchServes ==
  ASSUME TypeOK, RefreshBegin \/ \E k \in Keys : RefreshFetch(k)
  PROVE  /\ UNCHANGED <<run, channel, pending, requests, calls, callers>>
         /\ refresher'.cause = refresher.cause
         /\ Serving /\ Serving'
<1>1. CASE RefreshBegin
  BY Zenon, <1>1 DEF TypeOK, RefreshBegin, Serving, RefresherState, requestVars
<1>2. ASSUME NEW k \in Keys, RefreshFetch(k)
      PROVE  /\ UNCHANGED <<run, channel, pending, requests, calls, callers>>
             /\ refresher'.cause = refresher.cause
             /\ Serving /\ Serving'
  <2>1. UNCHANGED <<run, channel, pending, requests, calls, callers>> /\ Serving
    BY Zenon, <1>2 DEF RefreshFetch, Serving, requestVars
  <2>2. /\ refresher'.cause = refresher.cause
        /\ refresher'.at = IF refresher.todo = {k} THEN "install" ELSE "fetch"
    BY Zenon, <1>2 DEF TypeOK, RefreshFetch, RefresherState
  <2>3. QED
    BY Zenon, <2>1, <2>2 DEF Serving
<1>3. QED
  BY Zenon, <1>1, <1>2

\* A step that leaves requests to themselves, doRefresh at most a step further.
LEMMA StutterKeepsSenderInv ==
  ASSUME SenderInv, UNCHANGED <<run, channel, pending>>, refresher'.cause = refresher.cause,
         refresher'.at = refresher.at \/ (Serving /\ Serving'),
         \A c \in Callers : callers'[c].at = callers[c].at /\ callers'[c].req = callers[c].req
  PROVE  SenderInv'
<1>1. LoopState'
  BY Zenon DEF SenderInv, LoopState, Serving
<1>2. \A c \in Callers : Sending(c)' = Sending(c)
  BY Zenon DEF Sending
<1>3. SenderHolds'
  BY Zenon, <1>2 DEF SenderInv, SenderHolds, Serving
<1>4. QED
  BY Zenon, <1>1, <1>3 DEF SenderInv

\* doRefresh returns to its caller.
LEMMA FinishKeepsSenderInv ==
  ASSUME SenderInv, Serving, NEW result, Finish(result), UNCHANGED <<pending, callers>>
  PROVE  SenderInv'
<1>1. LoopState'
  BY DEF SenderInv, LoopState, Serving, Finish, At
<1>2. refresher'.at \in {"off", "select"}
  BY AtFields DEF Finish
<1>3. SenderHolds'
  BY Zenon, <1>2 DEF SenderInv, SenderHolds, Sending
<1>4. QED
  BY Zenon, <1>1, <1>3 DEF SenderInv

\* Every step keeps senders, the pending request and the loop in step.
LEMMA SenderInvNext ==
  ASSUME TypeOK, SenderInv, [Next]_vars
  PROVE  SenderInv'
<1> USE DEF TypeOK, CallerState
<1>1. CASE \/ UNCHANGED vars \/ Cancel \/ \E r \in Readers : List(r)
  BY Zenon, <1>1, StutterKeepsSenderInv DEF vars, Cancel, List, requestVars
<1>2. CASE RefreshBegin \/ \E k \in Keys : RefreshFetch(k)
  BY Zenon, <1>2, FetchServes, StutterKeepsSenderInv
<1>3. CASE \/ \E k \in Keys : OutOfBand(k)
           \/ \E w \in Writers, k \in Keys, v \in Vals, how \in {"insert", "upsert"} : Commit(w, k, v, how)
           \/ \E w \in Writers : InsertIfAbsent(w) \/ Upsert(w)
  <2>1. callers' = Disturbed /\ UNCHANGED <<run, channel, pending, refresher>>
    BY Zenon, <1>3 DEF OutOfBand, Commit, InsertIfAbsent, Upsert, WriteBack
  <2>2. \A c \in Callers : callers'[c].at = callers[c].at /\ callers'[c].req = callers[c].req
    BY Zenon, <2>1 DEF Disturbed
  <2>3. QED
    BY Zenon, <2>1, <2>2, StutterKeepsSenderInv
<1>4. CASE RefreshError \/ RefreshPanic \/ RefreshInstall
  <2>1. PICK result \in {"ok", "err", "panic"} : Finish(result)
    BY Zenon, <1>4 DEF RefreshError, RefreshPanic, RefreshInstall
  <2>2. Serving /\ UNCHANGED <<pending, callers>>
    BY Zenon, <1>4 DEF RefreshError, RefreshPanic, RefreshInstall, Serving
  <2>3. QED
    BY Zenon, <2>1, <2>2, FinishKeepsSenderInv
<1>5. CASE Run \/ Stop \/ Tick
  <2>1. refresher'.at # "received" /\ UNCHANGED <<pending, callers>>
    BY <1>5, AtFields DEF Run, Stop, Tick, requestVars
  <2>2. SenderHolds'
    BY Zenon, <2>1 DEF SenderInv, SenderHolds, Sending
  <2>3. LoopState'
    BY <1>5 DEF SenderInv, LoopState, Run, Stop, Tick, At, Serving
  <2>4. QED
    BY Zenon, <2>2, <2>3 DEF SenderInv
<1>6. CASE ClearPending
  <2>1. LoopState'
    BY Zenon, <1>6 DEF SenderInv, LoopState, ClearPending, At, Serving
  <2>2. SenderHolds'
    BY Zenon, <1>6 DEF SenderInv, SenderHolds, Sending, ClearPending, At
  <2>3. QED
    BY Zenon, <2>1, <2>2 DEF SenderInv
<1>7. ASSUME NEW c \in Callers, Receive(c) PROVE SenderInv'
  <2>1. LoopState'
    BY Zenon, <1>7 DEF SenderInv, LoopState, Receive, At, Serving
  <2>2. Sending(c) /\ pending' = pending /\ refresher'.cause = callers[c].req
    BY Zenon, <1>7 DEF Receive, Sending, At
  <2>3. \A d \in Callers : ~Sending(d)'
    BY Zenon, <1>7, <2>2 DEF Receive, Sending, SenderInv, SenderHolds
  <2>4. SenderHolds'
    BY Zenon, <2>2, <2>3 DEF SenderInv, SenderHolds
  <2>5. QED
    BY Zenon, <2>1, <2>4 DEF SenderInv
<1>8. ASSUME NEW c \in Callers, Invalidate(c) PROVE SenderInv'
  <2>1. UNCHANGED <<run, channel, refresher>> /\ ~Sending(c)
    BY Zenon, <1>8 DEF Invalidate, Sending
  <2>2. LoopState'
    BY Zenon, <2>1 DEF SenderInv, LoopState, Serving
  <2>3. \A d \in Callers \ {c} : callers'[d] = callers[d]
    BY Zenon, <1>8 DEF Invalidate
  <2>4. CASE pending # 0
    <3>1. pending' = pending /\ callers'[c].at = "waiting"
      BY <1>8, <2>4 DEF Invalidate
    <3>2. \A d \in Callers \ {c} : (Sending(d)' <=> Sending(d)) /\ callers'[d].req = callers[d].req
      BY Zenon, <2>3 DEF Sending
    <3>3. ~Sending(c)'
      BY Zenon, <3>1 DEF Sending
    <3>4. QED
      BY Zenon, <2>1, <2>2, <3>1, <3>2, <3>3 DEF SenderInv, SenderHolds
  <2>5. CASE pending = 0
    <3>0. PICK since, quiet :
            callers' = [callers EXCEPT ![c] = [at |-> "send", req |-> calls + 1, since |-> since, quiet |-> quiet]]
      BY Zenon, <1>8, <2>5 DEF Invalidate
    <3>1. pending' = calls + 1 /\ pending' # 0 /\ callers'[c].at = "send" /\ callers'[c].req = pending'
      <4>1. pending' = calls + 1 /\ calls \in Nat
        BY <1>8, <2>5 DEF Invalidate
      <4>2. callers'[c] = [at |-> "send", req |-> calls + 1, since |-> since, quiet |-> quiet]
        BY Zenon, <3>0
      <4>3. QED
        BY ONLY <4>1, <4>2
    <3>2. refresher.at # "received" /\ \A d \in Callers : ~Sending(d)
      BY Zenon, <2>5 DEF SenderInv, SenderHolds
    <3>3. \A d \in Callers : Sending(d)' => d = c
      BY Zenon, <2>3, <3>2 DEF Sending
    <3>4. QED
      BY Zenon, <2>1, <2>2, <3>1, <3>2, <3>3 DEF SenderInv, SenderHolds
  <2>6. QED
    BY Zenon, <2>4, <2>5
<1>9. ASSUME NEW c \in Callers, Send(c) PROVE SenderInv'
  <2>1. UNCHANGED <<run, channel, refresher, pending>>
    BY Zenon, <1>9 DEF Send
  <2>2. \A d \in Callers : Sending(d)' = Sending(d) /\ callers'[d].req = callers[d].req
    BY <1>9 DEF Send, Sending
  <2>3. QED
    BY Zenon, <2>1, <2>2 DEF SenderInv, LoopState, SenderHolds, Serving
<1>10. ASSUME NEW c \in Callers, SendPanics(c) PROVE SenderInv'
  <2>1. UNCHANGED <<run, channel, refresher>> /\ channel = "closed" /\ Sending(c)
    BY Zenon, <1>10 DEF SendPanics, Sending
  <2>2. refresher.at = "off"
    BY Zenon, <2>1 DEF SenderInv, LoopState
  <2>3. \A d \in Callers : ~Sending(d)'
    BY Zenon, <1>10, <2>1 DEF SendPanics, Sending, SenderInv, SenderHolds
  <2>4. QED
    BY Zenon, <2>1, <2>2, <2>3 DEF SenderInv, LoopState, SenderHolds, Serving
<1>11. ASSUME NEW c \in Callers, Return(c) PROVE SenderInv'
  <2>1. UNCHANGED <<run, channel, refresher, pending>>
    BY Zenon, <1>11 DEF Return
  <2>2. \A d \in Callers : Sending(d)' = Sending(d) /\ callers'[d].req = callers[d].req
    BY <1>11 DEF Return, Sending
  <2>3. QED
    BY Zenon, <2>1, <2>2 DEF SenderInv, LoopState, SenderHolds, Serving
<1> HIDE DEF TypeOK, CallerState
<1>12. QED
  BY Zenon, <1>1, <1>2, <1>3, <1>4, <1>5, <1>6, <1>7, <1>8, <1>9, <1>10, <1>11 DEF Next, Refresher, Refresh, Caller

\* SenderInv holds in every state.
LEMMA SenderInvariant == Spec => []SenderInv
<1>1. Init => SenderInv
  BY DEF Init, SenderInv, LoopState, SenderHolds, Sending, Serving, At
<1>2. TypeOK /\ SenderInv /\ [Next]_vars => SenderInv'
  BY Zenon, SenderInvNext
<1>3. QED
  BY <1>1, <1>2, TypeCorrect, PTL DEF Spec

\* Whoever sends holds the pending request: clearing pending, by the loop or by
\* a sender that panicked, never drops a request another caller has made.
THEOREM OneSenderHolds == Spec => []OneSender
<1>1. SenderInv => OneSender
  BY Zenon DEF SenderInv, SenderHolds, OneSender, Sending
<1>2. QED
  BY <1>1, SenderInvariant, PTL

\* A step that leaves the request a caller made, and every answer, as they were.
LEMMA StutterKeepsRequestInv ==
  ASSUME TypeOK, RequestInv, UNCHANGED <<pending, requests, calls>>, refresher'.cause = refresher.cause,
         refresher'.at = refresher.at \/ (Serving /\ Serving'),
         \A c \in Callers : callers'[c].req = callers[c].req,
         \A c \in Callers : callers'[c].at = callers[c].at \/ callers[c].at # "idle"
  PROVE  RequestInv'
BY Zenon DEF RequestInv, Serving

\* doRefresh returns to its caller and answers the request it served.
LEMMA FinishKeepsRequestInv ==
  ASSUME TypeOK, SenderInv, RequestInv, Serving, NEW result, Finish(result),
         UNCHANGED <<pending, calls, callers>>
  PROVE  RequestInv'
<1>1. refresher'.cause = 0 /\ refresher'.at \in {"off", "select"}
  BY AtFields DEF Finish
<1>2. \A r \in 1..MaxCalls : r # refresher.cause => requests'[r] = requests[r]
  BY Zenon DEF Finish
<1>3. refresher.cause <= calls /\ (pending # 0 => pending # refresher.cause)
  BY Zenon DEF RequestInv
<1>4. refresher.cause \in Nat /\ calls \in Nat /\ pending \in Nat
  BY DEF TypeOK, RefresherState
<1>5. \A r \in 1..MaxCalls : r > calls \/ r = pending \/ r = 0 => requests'[r] = "open"
  BY <1>2, <1>3, <1>4 DEF RequestInv
<1>6. QED
  BY <1>1, <1>4, <1>5 DEF RequestInv, Serving

\* Every step keeps the book of requests.
LEMMA RequestInvNext ==
  ASSUME TypeOK, SenderInv, RequestInv, [Next]_vars
  PROVE  RequestInv'
<1> USE DEF TypeOK, CallerState
<1>1. CASE \/ UNCHANGED vars \/ Cancel \/ \E r \in Readers : List(r)
  BY Zenon, <1>1, StutterKeepsRequestInv DEF vars, Cancel, List, requestVars
<1>2. CASE RefreshBegin \/ \E k \in Keys : RefreshFetch(k)
  BY Zenon, <1>2, FetchServes, StutterKeepsRequestInv
<1>3. CASE \/ \E k \in Keys : OutOfBand(k)
           \/ \E w \in Writers, k \in Keys, v \in Vals, how \in {"insert", "upsert"} : Commit(w, k, v, how)
           \/ \E w \in Writers : InsertIfAbsent(w) \/ Upsert(w)
  <2>1. callers' = Disturbed /\ UNCHANGED <<pending, requests, calls, refresher>>
    BY Zenon, <1>3 DEF OutOfBand, Commit, InsertIfAbsent, Upsert, WriteBack
  <2>2. \A c \in Callers : callers'[c].at = callers[c].at /\ callers'[c].req = callers[c].req
    BY Zenon, <2>1 DEF Disturbed
  <2>3. QED
    BY Zenon, <2>1, <2>2, StutterKeepsRequestInv
<1>4. CASE RefreshError \/ RefreshPanic \/ RefreshInstall
  <2>1. PICK result \in {"ok", "err", "panic"} : Finish(result)
    BY Zenon, <1>4 DEF RefreshError, RefreshPanic, RefreshInstall
  <2>2. Serving /\ UNCHANGED <<pending, calls, callers>>
    BY Zenon, <1>4 DEF RefreshError, RefreshPanic, RefreshInstall, Serving
  <2>3. QED
    BY Zenon, <2>1, <2>2, FinishKeepsRequestInv
<1>5. CASE Run \/ Stop \/ Tick
  <2>1. refresher'.cause = 0 /\ UNCHANGED <<pending, requests, calls, callers>>
    BY <1>5, AtFields DEF Run, Stop, Tick, requestVars
  <2>2. QED
    BY <2>1 DEF RequestInv
<1>6. CASE ClearPending
  <2>1. refresher'.cause = refresher.cause /\ refresher'.at = "begin"
    BY <1>6, AtFields DEF ClearPending
  <2>2. pending' = 0 /\ UNCHANGED <<requests, calls, callers>>
    BY Zenon, <1>6 DEF ClearPending
  <2>3. QED
    BY <2>1, <2>2 DEF RequestInv
<1>7. ASSUME NEW c \in Callers, Receive(c) PROVE RequestInv'
  <2>1. /\ refresher'.cause = callers[c].req /\ refresher'.at = "received"
        /\ UNCHANGED <<pending, requests, calls>>
    BY <1>7, AtFields DEF Receive
  <2>2. callers[c].req = pending
    BY Zenon, <1>7 DEF Receive, SenderInv, SenderHolds, Sending
  <2>3. \A d \in Callers : /\ callers'[d].req = callers[d].req
                           /\ callers'[d].at = callers[d].at \/ callers[d].at # "idle"
    BY Zenon, <1>7 DEF Receive
  <2>4. QED
    BY Zenon, <2>1, <2>2, <2>3 DEF RequestInv, Serving
<1>8. ASSUME NEW c \in Callers, Invalidate(c) PROVE RequestInv'
  <2>1. /\ calls' = calls + 1 /\ UNCHANGED <<requests, refresher>>
        /\ \A d \in Callers \ {c} : callers'[d] = callers[d]
    BY Zenon, <1>8 DEF Invalidate
  <2>2. PICK at, since, quiet :
          /\ at \in {"waiting", "send"}
          /\ callers' = [callers EXCEPT ![c] = [at |-> at, req |-> pending', since |-> since, quiet |-> quiet]]
          /\ pending' = IF pending # 0 THEN pending ELSE calls + 1
    BY <1>8 DEF Invalidate
  <2>3. callers'[c] = [at |-> at, req |-> pending', since |-> since, quiet |-> quiet]
    BY Zenon, <2>2
  <2>4. callers'[c].req = pending' /\ pending' # 0 /\ pending' <= calls'
    BY <2>1, <2>2, <2>3 DEF RequestInv
  <2>5. refresher.cause \in Nat /\ (Serving => pending' # refresher.cause)
    BY <2>2 DEF RequestInv, RefresherState
  <2>6. \A r \in 1..MaxCalls : r > calls' \/ r = pending' \/ r = refresher.cause => requests[r] = "open"
    BY <2>1, <2>2 DEF RequestInv
  <2>7. \A d \in Callers : callers'[d].req <= calls' /\ (callers'[d].req = 0 => callers'[d].at = "idle")
    BY <2>1, <2>4 DEF RequestInv
  <2>8. refresher.cause <= calls'
    BY <2>1, <2>5 DEF RequestInv
  <2>9. QED
    BY Zenon, <2>1, <2>4, <2>5, <2>6, <2>7, <2>8 DEF RequestInv, Serving
<1>9. ASSUME NEW c \in Callers, Send(c) \/ Return(c) PROVE RequestInv'
  <2>1. PICK at : callers' = [callers EXCEPT ![c].at = at]
    BY Zenon, <1>9 DEF Send, Return
  <2>2. UNCHANGED <<pending, requests, calls, refresher>> /\ callers[c].at # "idle"
    BY Zenon, <1>9 DEF Send, Return
  <2>3. \A d \in Callers : /\ callers'[d].req = callers[d].req
                           /\ callers'[d].at = callers[d].at \/ callers[d].at # "idle"
    BY Zenon, <2>1, <2>2
  <2>4. QED
    BY Zenon, <2>2, <2>3, StutterKeepsRequestInv
<1>10. ASSUME NEW c \in Callers, SendPanics(c) PROVE RequestInv'
  <2>1. UNCHANGED <<refresher, calls>> /\ pending' = 0 /\ channel = "closed"
    BY Zenon, <1>10 DEF SendPanics
  <2>2. refresher.cause = 0
    BY Zenon, <2>1 DEF SenderInv, LoopState, RequestInv
  <2>3. callers[c].req = pending
    BY Zenon, <1>10 DEF SendPanics, SenderInv, SenderHolds, Sending
  <2>4. \A d \in Callers : /\ callers'[d].req = callers[d].req
                           /\ callers'[d].at = callers[d].at \/ callers[d].at # "idle"
    BY Zenon, <1>10 DEF SendPanics
  <2>5. \A r \in 1..MaxCalls : r > calls => requests'[r] = "open"
    BY <1>10, <2>3 DEF SendPanics, RequestInv
  <2>6. QED
    BY <2>1, <2>2, <2>4, <2>5 DEF RequestInv
<1> HIDE DEF TypeOK, CallerState
<1>11. QED
  BY Zenon, <1>1, <1>2, <1>3, <1>4, <1>5, <1>6, <1>7, <1>8, <1>9, <1>10 DEF Next, Refresher, Refresh, Caller

\* RequestInv holds in every state.
LEMMA RequestInvariant == Spec => []RequestInv
<1>1. Init => RequestInv
  BY AtFields DEF Init, RequestInv, Serving
<1>2. TypeOK /\ SenderInv /\ RequestInv /\ [Next]_vars => RequestInv'
  BY Zenon, RequestInvNext
<1>3. QED
  BY <1>1, <1>2, TypeCorrect, SenderInvariant, PTL DEF Spec

\* Epochs are allocated in order, so no entry is ahead of the allocator.
LEMMA OverlayAllocatedNext ==
  ASSUME TypeOK, OverlayAllocated, [Next]_vars
  PROVE  OverlayAllocated'
<1>1. CASE UNCHANGED overlay /\ nextEpoch' \in {nextEpoch, nextEpoch + 1}
  BY <1>1 DEF OverlayAllocated, TypeOK
<1>2. CASE overlay' = PrunedOverlay /\ nextEpoch' \in {nextEpoch, nextEpoch + 1}
  BY <1>2 DEF OverlayAllocated, TypeOK, PrunedOverlay, NoEntry
<1>3. ASSUME NEW w \in Writers, InsertIfAbsent(w) \/ Upsert(w) PROVE OverlayAllocated'
  <2>1. CASE WriteThrough(w)
    BY <2>1 DEF WriteThrough, OverlayAllocated, TypeOK
  <2>2. QED
    BY Zenon, <1>1, <1>3, <2>1, WriteCases
<1>4. QED
  BY Zenon, <1>1, <1>2, <1>3
     DEF Next, Refresher, Refresh, RefreshBegin, RefreshFetch, RefreshError, RefreshPanic, RefreshInstall,
         Stop, Receive, ClearPending, Run, Cancel, Tick, Invalidate, Caller, Send, SendPanics, Return,
         List, OutOfBand, Commit, vars, dataVars

\* OverlayAllocated holds in every state.
LEMMA OverlayAllocatedInvariant == Spec => []OverlayAllocated
<1>1. Init => OverlayAllocated
  <2> SUFFICES ASSUME Init, NEW k \in Keys PROVE overlay[k].epoch <= nextEpoch
    BY Zenon DEF OverlayAllocated
  <2>1. nextEpoch = 0 /\ overlay[k] = NoEntry
    BY Zenon DEF Init
  <2>2. NoEntry.epoch = 0
    BY Zenon DEF NoEntry
  <2>3. QED
    BY <2>1, <2>2
<1>2. TypeOK /\ OverlayAllocated /\ [Next]_vars => OverlayAllocated'
  BY Zenon, OverlayAllocatedNext
<1>3. QED
  BY <1>1, <1>2, TypeCorrect, PTL DEF Spec

\* Where a refresh in flight comes from.
LEMMA RefreshFrom ==
  ASSUME TypeOK, [Next]_vars, InFlight'
  PROVE  RefreshBegin \/ (InFlight /\ (refresher' = refresher \/ \E k \in Keys : RefreshFetch(k)))
<1>1. CASE refresher' = refresher
  BY Zenon, <1>1 DEF InFlight
<1>2. ASSUME NEW k \in Keys, RefreshFetch(k) PROVE InFlight
  BY Zenon, <1>2 DEF RefreshFetch, InFlight
<1>3. ASSUME NEW point \in {"off", "select", "received", "begin"}, NEW cause, refresher' = At(point, cause)
      PROVE  FALSE
  BY Zenon, <1>3, AtFields DEF InFlight
<1>4. ASSUME NEW result, Finish(result) PROVE FALSE
  BY Zenon, <1>3, <1>4 DEF Finish
<1>5. QED
  BY Zenon, <1>1, <1>2, <1>3, <1>4
     DEF Next, Refresher, Refresh, RefreshError, RefreshPanic, RefreshInstall,
         Stop, Receive, ClearPending, Run, Cancel, Tick, Invalidate, Caller, Send, SendPanics, Return,
         List, OutOfBand, Commit, InsertIfAbsent, Upsert, WriteBack, vars

\* Only a call of Invalidate changes what a caller asked for and when.
LEMMA CallerFrom ==
  ASSUME TypeOK, [Next]_vars, NEW c \in Callers
  PROVE  \/ Invalidate(c)
         \/ callers'[c].req = callers[c].req /\ callers'[c].since = callers[c].since
<1> USE DEF TypeOK, CallerState
<1>1. CASE UNCHANGED callers
  BY Zenon, <1>1
<1>2. CASE callers' = Disturbed
  BY Zenon, <1>2 DEF Disturbed
<1>3. ASSUME NEW d \in Callers, NEW at, callers' = [callers EXCEPT ![d].at = at]
      PROVE  callers'[c].req = callers[c].req /\ callers'[c].since = callers[c].since
  BY Zenon, <1>3
<1>4. ASSUME NEW d \in Callers, Receive(d) \/ Caller(d)
      PROVE  callers'[c].req = callers[c].req /\ callers'[c].since = callers[c].since
  <2>1. PICK at : callers' = [callers EXCEPT ![d].at = at]
    BY Zenon, <1>4 DEF Receive, Caller, Send, SendPanics, Return
  <2>2. QED
    BY Zenon, <1>3, <2>1
<1>5. ASSUME NEW d \in Callers, Invalidate(d), d # c PROVE callers'[c] = callers[c]
  BY Zenon, <1>5 DEF Invalidate
<1> HIDE DEF TypeOK, CallerState
<1>6. QED
  BY Zenon, <1>1, <1>2, <1>4, <1>5
     DEF Next, Refresher, Refresh, RefreshBegin, RefreshFetch, RefreshError, RefreshPanic, RefreshInstall,
         Stop, ClearPending, Run, Cancel, Tick, List, OutOfBand, Commit, InsertIfAbsent, Upsert, WriteBack,
         vars, requestVars

\* A new call asks for a request that is open and that nobody serves yet.
LEMMA NewCall ==
  ASSUME TypeOK, RequestInv, NEW c \in Callers, Invalidate(c)
  PROVE  /\ callers'[c].since = Versions(backend)
         /\ callers'[c].quiet = Quiescent
         /\ ~ServedBy(c)' /\ ~Succeeded(c)'
         /\ UNCHANGED <<backend, writers, cache, overlay, refresher, requests>>
<1> USE DEF TypeOK, CallerState
<1>1. PICK at \in {"waiting", "send"} :
        /\ callers' = [callers EXCEPT ![c] = [at |-> at, req |-> pending', since |-> Versions(backend),
                                              quiet |-> Quiescent]]
        /\ pending' = IF pending # 0 THEN pending ELSE calls + 1
  BY Zenon DEF Invalidate
<1>2. callers'[c] = [at |-> at, req |-> pending', since |-> Versions(backend), quiet |-> Quiescent]
  BY Zenon, <1>1
<1>3. UNCHANGED <<backend, writers, cache, overlay, refresher, requests>>
  BY Zenon DEF Invalidate, clientVars, dataVars
<1>4. /\ callers'[c].req = pending' /\ callers'[c].since = Versions(backend)
      /\ callers'[c].quiet = Quiescent
  BY ONLY <1>2
<1>5. pending' \in 1..MaxCalls /\ requests[pending'] = "open"
  <2>1. calls < MaxCalls /\ MaxCalls \in Nat /\ calls \in Nat /\ pending \in 0..MaxCalls
    BY ConstantsAssumption DEF Invalidate
  <2>2. pending' \in 1..MaxCalls /\ (pending' = pending \/ pending' > calls)
    BY ONLY <1>1, <2>1
  <2>3. QED
    BY Zenon, <2>2 DEF RequestInv
<1>6. ~Succeeded(c)'
  BY Zenon, <1>3, <1>4, <1>5 DEF Succeeded
<1>7. ~ServedBy(c)'
  BY <1>1, <1>3, <1>4 DEF ServedBy, InFlight, RequestInv, Serving, RefresherState
<1>8. QED
  BY Zenon, <1>3, <1>4, <1>6, <1>7

\* A caller is served by a refresh that starts, or goes on being served.
LEMMA ServedFrom ==
  ASSUME TypeOK, RequestInv, [Next]_vars, NEW c \in Callers, ServedBy(c)'
  PROVE  /\ callers'[c].req = callers[c].req /\ callers'[c].since = callers[c].since
         /\ RefreshBegin \/ (ServedBy(c) /\ (refresher' = refresher \/ \E k \in Keys : RefreshFetch(k)))
<1>1. ~Invalidate(c)
  BY Zenon, NewCall
<1>2. callers'[c].req = callers[c].req /\ callers'[c].since = callers[c].since
  BY Zenon, <1>1, CallerFrom
<1>3. CASE RefreshBegin
  BY Zenon, <1>2, <1>3
<1>4. CASE InFlight /\ refresher' = refresher
  BY Zenon, <1>2, <1>4 DEF ServedBy
<1>5. CASE InFlight /\ \E k \in Keys : RefreshFetch(k)
  BY Zenon, <1>2, <1>5, FetchServes DEF ServedBy
<1>6. QED
  BY Zenon, <1>3, <1>4, <1>5, RefreshFrom DEF ServedBy

\* A request succeeds by the installation of the refresh that serves it.
LEMMA SucceededFrom ==
  ASSUME TypeOK, SenderInv, RequestInv, [Next]_vars, NEW c \in Callers, Succeeded(c)'
  PROVE  /\ callers'[c].req = callers[c].req /\ callers'[c].since = callers[c].since
         /\ Succeeded(c) \/ (RefreshInstall /\ ServedBy(c))
<1>1. ~Invalidate(c)
  BY Zenon, NewCall
<1>2. callers'[c].req = callers[c].req /\ callers'[c].since = callers[c].since
  BY Zenon, <1>1, CallerFrom
<1>3. ASSUME UNCHANGED requests PROVE Succeeded(c)
  BY Zenon, <1>2, <1>3 DEF Succeeded
<1>4. ASSUME NEW d \in Callers, SendPanics(d) PROVE Succeeded(c)
  BY <1>2, <1>4 DEF Succeeded, SendPanics, TypeOK
<1>5. ASSUME NEW result \in {"ok", "err", "panic"}, Finish(result)
      PROVE  Succeeded(c) \/ (result = "ok" /\ callers[c].req = refresher.cause)
  <2>1. callers[c].req \in 1..MaxCalls /\ requests'[callers[c].req] = "ok"
    BY <1>2 DEF Succeeded, TypeOK, CallerState
  <2>2. CASE requests' = [r \in 1..MaxCalls |-> IF r = refresher.cause THEN result ELSE requests[r]]
    BY <2>1, <2>2 DEF Succeeded
  <2>3. QED
    BY Zenon, <1>3, <1>5, <2>2 DEF Finish
<1>6. CASE RefreshError \/ RefreshPanic
  BY Zenon, <1>5, <1>6 DEF RefreshError, RefreshPanic
<1>7. CASE RefreshInstall
  <2>1. Succeeded(c) \/ callers[c].req = refresher.cause
    BY Zenon, <1>5, <1>7 DEF RefreshInstall
  <2>2. callers[c].req # 0 /\ InFlight
    BY Zenon, <1>2, <1>7 DEF Succeeded, RefreshInstall, InFlight
  <2>3. QED
    BY Zenon, <1>2, <1>7, <2>1, <2>2 DEF ServedBy
<1>8. QED
  BY Zenon, <1>2, <1>3, <1>4, <1>6, <1>7
     DEF Next, Refresher, Refresh, RefreshBegin, RefreshFetch, Stop, Receive, ClearPending, Run, Cancel,
         Tick, Invalidate, Caller, Send, Return, List, OutOfBand, Commit, InsertIfAbsent, Upsert, WriteBack,
         vars, requestVars

\* A refresh that starts outlives every write made before it.
LEMMA BeginOutlives ==
  ASSUME TypeOK, OverlayAllocated, RefreshBegin
  PROVE  refresher'.todo = Keys /\ \A k \in Keys : ~Survives(k)'
<1>1. refresher'.todo = Keys /\ refresher'.epoch = nextEpoch + 1 /\ overlay' = overlay
  BY Zenon DEF RefreshBegin, TypeOK, RefresherState, dataVars
<1>2. QED
  BY <1>1 DEF Survives, OverlayAllocated, TypeOK

\* A commit is never undone.
LEMMA BackendAdvances ==
  ASSUME TypeOK, [Next]_vars
  PROVE  \A k \in Keys : backend[k].ver <= backend'[k].ver
<1>1. CASE UNCHANGED backend
  BY <1>1 DEF TypeOK, Item
<1>2. ASSUME NEW j \in Keys, NEW v, backend' = [backend EXCEPT ![j] = [ver |-> backend[j].ver + 1, val |-> v]]
      PROVE  \A k \in Keys : backend[k].ver <= backend'[k].ver
  BY <1>2 DEF TypeOK, Item
<1>3. ASSUME NEW j \in Keys, OutOfBand(j)
      PROVE  \A k \in Keys : backend[k].ver <= backend'[k].ver
  BY Zenon, <1>2, <1>3 DEF OutOfBand
<1>4. ASSUME NEW w \in Writers, NEW j \in Keys, NEW v \in Vals, NEW how \in {"insert", "upsert"},
             Commit(w, j, v, how)
      PROVE  \A k \in Keys : backend[k].ver <= backend'[k].ver
  BY Zenon, <1>2, <1>4 DEF Commit
<1>5. QED
  BY Zenon, <1>1, <1>3, <1>4
     DEF Next, Refresher, Refresh, RefreshBegin, RefreshFetch, RefreshError, RefreshPanic, RefreshInstall,
         Stop, Receive, ClearPending, Run, Cancel, Tick, Invalidate, Caller, Send, SendPanics, Return,
         List, InsertIfAbsent, Upsert, WriteBack, vars, clientVars

\* Under the usage rule what enters the overlay is the backend's latest.
LEMMA OverlayFrom ==
  ASSUME TypeOK, DataInv, SingletonInv, [Next]_vars, NEW k \in Keys
  PROVE  overlay'[k] = overlay[k] \/ overlay'[k].epoch = 0 \/ cache'[k] = backend[k]
<1>1. CASE UNCHANGED overlay
  BY Zenon, <1>1
<1>2. CASE overlay' = PrunedOverlay
  BY Zenon, <1>2 DEF PrunedOverlay, NoEntry
<1>3. ASSUME NEW w \in Writers, InsertIfAbsent(w) \/ Upsert(w)
      PROVE  overlay'[k] = overlay[k] \/ cache'[k] = backend[k]
  <2>1. CASE WriteThrough(w)
    <3>1. writers[w].at \in {"insert", "upsert"}
      BY Zenon, <1>3, WriteCases
    <3>2. writers[w].item = backend[writers[w].key]
      BY Zenon, <3>1 DEF SingletonInv, MidWriteLatest
    <3>3. CASE writers[w].key = k
      BY Zenon, <2>1, <3>2, <3>3 DEF WriteThrough, TypeOK
    <3>4. CASE writers[w].key # k
      BY Zenon, <2>1, <3>4 DEF WriteThrough, TypeOK
    <3>5. QED
      BY Zenon, <3>3, <3>4
  <2>2. QED
    BY Zenon, <1>3, <2>1, WriteCases
<1>4. QED
  BY Zenon, <1>1, <1>2, <1>3
     DEF Next, Refresher, Refresh, RefreshBegin, RefreshFetch, RefreshError, RefreshPanic, RefreshInstall,
         Stop, Receive, ClearPending, Run, Cancel, Tick, Invalidate, Caller, Send, SendPanics, Return,
         List, OutOfBand, Commit, vars, dataVars

\* Installing a refresh shows, key by key, the write that outlives it or what
\* it read.
LEMMA Installed ==
  ASSUME TypeOK, DataInv, RefreshInstall
  PROVE  /\ refresher.todo = {}
         /\ \A k \in Keys : cache'[k] = IF Survives(k) THEN cache[k] ELSE refresher.snap[k]
<1>1. \A k \in Keys : Survives(k) => overlay[k].item = cache[k]
  BY DEF TypeOK, DataInv, OverlayShown, Survives, RefresherState
<1>2. cache' = Effective /\ refresher.todo = {}
  BY Zenon DEF RefreshInstall, DataInv, FetchComplete
<1>3. QED
  BY Zenon, <1>1, <1>2 DEF Effective

\* What reading one key does to the snapshot.
LEMMA Fetched ==
  ASSUME TypeOK, NEW j \in Keys, RefreshFetch(j)
  PROVE  /\ refresher'.todo = refresher.todo \ {j}
         /\ \A k \in Keys : refresher'.snap[k] = IF k = j THEN backend[k] ELSE refresher.snap[k]
         /\ refresher'.epoch = refresher.epoch
         /\ UNCHANGED <<backend, writers, cache, overlay, requests, callers>>
         /\ InFlight
<1>1. /\ refresher'.todo = refresher.todo \ {j}
      /\ refresher'.snap = [refresher.snap EXCEPT ![j] = backend[j]]
      /\ refresher'.epoch = refresher.epoch
  BY Zenon DEF RefreshFetch, TypeOK, RefresherState
<1>2. refresher.snap \in [Keys -> Item]
  BY Zenon DEF TypeOK, RefresherState
<1>3. \A k \in Keys : refresher'.snap[k] = IF k = j THEN backend[k] ELSE refresher.snap[k]
  BY Zenon, <1>1, <1>2
<1>4. UNCHANGED <<backend, writers, cache, overlay, requests, callers>> /\ InFlight
  BY Zenon DEF RefreshFetch, clientVars, dataVars, requestVars, InFlight
<1>5. QED
  BY Zenon, <1>1, <1>3, <1>4

\* Under the usage rule every step keeps what a refresh owes its callers.
LEMMA FreshInvNext ==
  ASSUME TypeOK, DataInv, SingletonInv, SenderInv, RequestInv, OverlayAllocated, FreshInv, [Next]_vars
  PROVE  FreshInv'
<1>1. \A k \in Keys : /\ backend[k].ver \in Nat /\ backend'[k].ver \in Nat
                      /\ cache[k].ver \in Nat /\ cache'[k].ver \in Nat
                      /\ refresher.snap[k].ver \in Nat
  BY Zenon, TypeStep DEF TypeOK, Item, RefresherState
<1>2. \A c \in Callers, k \in Keys : callers[c].since[k] \in Nat
  BY Zenon DEF TypeOK, CallerState
<1>3. \A k \in Keys : backend[k].ver <= backend'[k].ver /\ cache[k].ver <= cache'[k].ver
  BY Zenon, <1>1, BackendAdvances, CacheAdvances
<1>4. ASSUME NEW c \in Callers, NEW k \in Keys PROVE callers'[c].since[k] <= backend'[k].ver
  <2>1. CASE Invalidate(c)
    <3>1. callers'[c].since = Versions(backend) /\ backend' = backend
      BY Zenon, <2>1, NewCall
    <3>2. QED
      BY <1>1, <3>1 DEF Versions
  <2>2. CASE callers'[c].since = callers[c].since
    BY <1>1, <1>2, <1>3, <2>2 DEF FreshInv
  <2>3. QED
    BY Zenon, <2>1, <2>2, CallerFrom
<1>5. ASSUME NEW c \in Callers, ServedBy(c)', NEW k \in Keys
      PROVE  /\ k \notin refresher'.todo => callers'[c].since[k] <= refresher'.snap[k].ver
             /\ Survives(k)' => callers'[c].since[k] <= cache'[k].ver
  <2>1. callers'[c].since = callers[c].since
    BY Zenon, <1>5, ServedFrom
  <2>2. CASE RefreshBegin
    BY Zenon, <2>2, BeginOutlives
  <2>3. ASSUME ServedBy(c), NEW j \in Keys, RefreshFetch(j)
        PROVE  /\ k \notin refresher'.todo => callers'[c].since[k] <= refresher'.snap[k].ver
               /\ Survives(k)' => callers'[c].since[k] <= cache'[k].ver
    <3>1. Survives(k)' = Survives(k) /\ cache' = cache
      BY Zenon, <2>3, Fetched DEF Survives
    <3>2. k \notin refresher'.todo => k = j \/ k \notin refresher.todo
      BY Zenon, <2>3, Fetched
    <3>3. refresher'.snap[k] = IF k = j THEN backend[k] ELSE refresher.snap[k]
      BY Zenon, <2>3, Fetched
    <3>4. QED
      BY Zenon, <2>1, <2>3, <3>1, <3>2, <3>3 DEF FreshInv
  <2>4. CASE ServedBy(c) /\ refresher' = refresher
    <3>1. k \notin refresher'.todo => callers'[c].since[k] <= refresher'.snap[k].ver
      BY Zenon, <2>1, <2>4 DEF FreshInv
    <3>2. ASSUME Survives(k)' PROVE callers'[c].since[k] <= cache'[k].ver
      <4>1. overlay'[k].epoch > refresher.epoch /\ refresher.epoch \in Nat
        BY Zenon, <2>4, <3>2 DEF Survives, TypeOK, RefresherState
      <4>2. CASE overlay'[k] = overlay[k]
        <5>1. Survives(k)
          BY Zenon, <4>1, <4>2 DEF Survives
        <5>2. callers[c].since[k] <= cache[k].ver
          BY Zenon, <2>4, <5>1 DEF FreshInv
        <5>3. QED
          BY <1>1, <1>2, <1>3, <2>1, <5>2
      <4>3. CASE cache'[k] = backend[k]
        BY Zenon, <2>1, <4>3 DEF FreshInv
      <4>4. QED
        BY <4>1, <4>2, <4>3, OverlayFrom
    <3>3. QED
      BY Zenon, <3>1, <3>2
  <2>5. QED
    BY Zenon, <1>5, <2>2, <2>3, <2>4, ServedFrom
<1>6. ASSUME NEW c \in Callers, Succeeded(c)', NEW k \in Keys
      PROVE  callers'[c].since[k] <= cache'[k].ver
  <2>1. callers'[c].since = callers[c].since
    BY Zenon, <1>6, SucceededFrom
  <2>2. CASE Succeeded(c)
    <3>1. callers[c].since[k] <= cache[k].ver
      BY Zenon, <2>2 DEF FreshInv
    <3>2. QED
      BY <1>1, <1>2, <1>3, <2>1, <3>1
  <2>3. CASE RefreshInstall /\ ServedBy(c)
    <3>1. cache'[k] = IF Survives(k) THEN cache[k] ELSE refresher.snap[k]
      BY Zenon, <2>3, Installed
    <3>2. callers[c].since[k] <= refresher.snap[k].ver
      BY Zenon, <2>3, Installed DEF FreshInv
    <3>3. Survives(k) => callers[c].since[k] <= cache[k].ver
      BY Zenon, <2>3 DEF FreshInv
    <3>4. QED
      BY Zenon, <2>1, <3>1, <3>2, <3>3
  <2>4. QED
    BY Zenon, <1>6, <2>2, <2>3, SucceededFrom
<1>7. QED
  BY Zenon, <1>4, <1>5, <1>6 DEF FreshInv

\* Under the usage rule, Invalidate that returns success after a completed
\* refresh, for the sender and for every caller coalesced onto its request,
\* leaves every commit made before the call visible from then on.
THEOREM InvalidateFreshHolds == ASSUME SingletonWrites PROVE Spec => []InvalidateFresh
<1>1. Init => FreshInv
  BY AtFields DEF Init, FreshInv, ServedBy, Succeeded, InFlight, NoItem
<1>2. /\ TypeOK /\ DataInv /\ SingletonInv /\ SenderInv /\ RequestInv /\ OverlayAllocated
      /\ FreshInv /\ [Next]_vars
      => FreshInv'
  BY Zenon, FreshInvNext
<1>3. TypeOK /\ RequestInv /\ FreshInv => InvalidateFresh
  <2> SUFFICES ASSUME TypeOK, RequestInv, FreshInv, NEW c \in Callers, callers[c].at = "returned",
                      requests[callers[c].req] = "ok", NEW k \in Keys
               PROVE  cache[k].ver >= callers[c].since[k]
    BY Zenon DEF InvalidateFresh
  <2>1. Succeeded(c)
    BY Zenon DEF RequestInv, Succeeded
  <2>2. callers[c].since[k] <= cache[k].ver
    BY Zenon, <2>1 DEF FreshInv
  <2>3. QED
    BY Zenon, <2>2 DEF TypeOK, CallerState, Item
<1>4. QED
  BY <1>1, <1>2, <1>3, TypeCorrect, DataInvariant, SingletonInvariant, SenderInvariant, RequestInvariant,
     OverlayAllocatedInvariant, PTL DEF Spec

\* A caller stays quiet only through steps that write nothing.
LEMMA QuietFrom ==
  ASSUME TypeOK, [Next]_vars, NEW c \in Callers, callers'[c].quiet, ~Invalidate(c)
  PROVE  /\ callers[c].quiet
         /\ UNCHANGED <<backend, writers>>
         /\ UNCHANGED overlay \/ overlay' = PrunedOverlay
         /\ UNCHANGED cache \/ RefreshInstall
<1>1. callers' # Disturbed
  BY DEF Disturbed, TypeOK, CallerState
<1>2. callers[c].quiet
  <2>1. CASE UNCHANGED callers
    BY Zenon, <2>1
  <2>2. ASSUME NEW d \in Callers, Receive(d) \/ Caller(d) PROVE callers[c].quiet
    <3>1. PICK at : callers' = [callers EXCEPT ![d].at = at]
      BY Zenon, <2>2 DEF Receive, Caller, Send, SendPanics, Return
    <3>2. QED
      BY Zenon, <3>1 DEF TypeOK, CallerState
  <2>3. ASSUME NEW d \in Callers, Invalidate(d) PROVE callers[c].quiet
    <3>1. d # c
      BY Zenon, <2>3
    <3>2. callers'[c] = callers[c]
      BY Zenon, <2>3, <3>1 DEF Invalidate, TypeOK
    <3>3. QED
      BY Zenon, <3>2
  <2>4. QED
    BY Zenon, <1>1, <2>1, <2>2, <2>3
       DEF Next, Refresher, Refresh, RefreshBegin, RefreshFetch, RefreshError, RefreshPanic, RefreshInstall,
           Stop, ClearPending, Run, Cancel, Tick, List, OutOfBand, Commit, InsertIfAbsent, Upsert, WriteBack,
           vars, requestVars
<1>3. QED
  BY Zenon, <1>1, <1>2
     DEF Next, Refresher, Refresh, RefreshBegin, RefreshFetch, RefreshError, RefreshPanic, RefreshInstall,
         Stop, Receive, ClearPending, Run, Cancel, Tick, Invalidate, Caller, Send, SendPanics, Return,
         List, OutOfBand, Commit, InsertIfAbsent, Upsert, WriteBack, vars, clientVars, dataVars

\* Every step keeps the cache converging for the callers that stay quiet.
LEMMA ConvergeInvNext ==
  ASSUME TypeOK, DataInv, SenderInv, RequestInv, OverlayAllocated, ConvergeInv, [Next]_vars
  PROVE  ConvergeInv'
<1> SUFFICES ASSUME NEW c \in Callers, callers'[c].quiet
             PROVE  /\ Quiescent'
                    /\ InFlight' /\ (ServedBy(c)' \/ Succeeded(c)') => \A k \in Keys :
                         /\ k \notin refresher'.todo => refresher'.snap[k] = backend'[k]
                         /\ ~Survives(k)'
                    /\ Succeeded(c)' => View(cache') = View(backend')
  BY Zenon DEF ConvergeInv
<1>1. CASE Invalidate(c)
  <2>1. ~ServedBy(c)' /\ ~Succeeded(c)' /\ Quiescent /\ writers' = writers
    BY Zenon, <1>1, NewCall
  <2>2. QED
    BY Zenon, <2>1 DEF Quiescent
<1>2. CASE ~Invalidate(c)
  <2>1. /\ callers[c].quiet /\ UNCHANGED <<backend, writers>>
        /\ UNCHANGED overlay \/ overlay' = PrunedOverlay
        /\ UNCHANGED cache \/ RefreshInstall
    BY Zenon, <1>2, QuietFrom
  <2>2. Quiescent'
    BY Zenon, <2>1 DEF ConvergeInv, Quiescent
  <2>3. ASSUME InFlight', ServedBy(c)' \/ Succeeded(c)', NEW k \in Keys
        PROVE  /\ k \notin refresher'.todo => refresher'.snap[k] = backend'[k]
               /\ ~Survives(k)'
    <3>1. CASE RefreshBegin
      BY Zenon, <3>1, BeginOutlives
    <3>2. ~RefreshInstall
      BY <2>3, AtFields DEF RefreshInstall, Finish, InFlight
    <3>3. CASE ~RefreshBegin
      <4>1. InFlight /\ (ServedBy(c) \/ Succeeded(c))
        BY Zenon, <2>3, <3>2, <3>3, RefreshFrom, ServedFrom, SucceededFrom
      <4>2. (k \notin refresher.todo => refresher.snap[k] = backend[k]) /\ ~Survives(k)
        BY Zenon, <2>1, <4>1 DEF ConvergeInv
      <4>3. overlay'[k] = overlay[k] \/ overlay'[k].epoch = 0
        BY <2>1 DEF PrunedOverlay, NoEntry
      <4>4. CASE refresher' = refresher
        <5>1. ~Survives(k)'
          BY <4>2, <4>3, <4>4 DEF Survives, TypeOK, RefresherState
        <5>2. QED
          BY Zenon, <2>1, <4>2, <4>4, <5>1
      <4>5. ASSUME NEW j \in Keys, RefreshFetch(j)
            PROVE  (k \notin refresher'.todo => refresher'.snap[k] = backend'[k]) /\ ~Survives(k)'
        <5>1. ~Survives(k)'
          BY Zenon, <4>2, <4>5, Fetched DEF Survives
        <5>2. refresher'.snap[k] = IF k = j THEN backend[k] ELSE refresher.snap[k]
          BY Zenon, <4>5, Fetched
        <5>3. k \notin refresher'.todo => k = j \/ k \notin refresher.todo
          BY Zenon, <4>5, Fetched
        <5>4. QED
          BY Zenon, <2>1, <4>2, <5>1, <5>2, <5>3
      <4>6. QED
        BY Zenon, <2>3, <3>3, <4>4, <4>5, RefreshFrom
    <3>4. QED
      BY Zenon, <3>1, <3>3
  <2>4. ASSUME Succeeded(c)' PROVE View(cache') = View(backend')
    <3>1. CASE RefreshInstall
      <4>1. InFlight /\ (ServedBy(c) \/ Succeeded(c))
        BY Zenon, <2>4, <3>1, SucceededFrom DEF RefreshInstall, InFlight
      <4>2. \A k \in Keys : refresher.snap[k] = backend[k] /\ ~Survives(k)
        BY Zenon, <2>1, <3>1, <4>1, Installed DEF ConvergeInv
      <4>3. \A k \in Keys : cache'[k] = backend[k]
        BY Zenon, <3>1, <4>2, Installed
      <4>4. QED
        BY Zenon, <2>1, <4>3 DEF View
    <3>2. CASE ~RefreshInstall
      <4>1. Succeeded(c) /\ UNCHANGED <<cache, backend>>
        BY Zenon, <2>1, <2>4, <3>2, SucceededFrom
      <4>2. View(cache) = View(backend)
        BY Zenon, <2>1, <4>1 DEF ConvergeInv
      <4>3. QED
        BY Zenon, <4>1, <4>2 DEF View
    <3>3. QED
      BY Zenon, <3>1, <3>2
  <2>5. QED
    BY Zenon, <2>2, <2>3, <2>4
<1>3. QED
  BY Zenon, <1>1, <1>2

\* Whatever the writers did before, and whether they kept the usage rule or
\* not: if no write was under way when Invalidate was called and none came
\* since, the cache shows the backend when a completed refresh answered it.
THEOREM InvalidateConvergesHolds == Spec => []InvalidateConverges
<1>1. Init => ConvergeInv
  BY DEF Init, ConvergeInv
<1>2. TypeOK /\ DataInv /\ SenderInv /\ RequestInv /\ OverlayAllocated /\ ConvergeInv /\ [Next]_vars => ConvergeInv'
  BY Zenon, ConvergeInvNext
<1>3. RequestInv /\ ConvergeInv => InvalidateConverges
  BY Zenon DEF RequestInv, ConvergeInv, InvalidateConverges, Succeeded
<1>4. QED
  BY <1>1, <1>2, <1>3, TypeCorrect, DataInvariant, SenderInvariant, RequestInvariant,
     OverlayAllocatedInvariant, PTL DEF Spec
=============================================================================

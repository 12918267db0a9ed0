-------------------------- MODULE RefreshAheadCache --------------------------
(***************************************************************************)
(* RefreshAheadCache of pkg/util/cache/refresh_ahead.go: an indexed set of *)
(* resources refreshed in the background, invalidated synchronously, and   *)
(* written through locally behind an overlay.                              *)
(*                                                                         *)
(* Actors: the refresh goroutine started by Run, callers of Invalidate,    *)
(* writers that commit to the backend and then write through with          *)
(* InsertIfAbsent or Upsert, and readers that memoise against an epoch.    *)
(* The backend is the system of record behind RefreshFunc (external).      *)
(***************************************************************************)
EXTENDS Naturals

CONSTANTS
  Keys,             \* cache indexes
  Vals,             \* what a resource's Equal tells apart
  Absent,           \* the "value" of a key that is not in a map
  Writers,          \* goroutines that commit and then write through
  Callers,          \* goroutines that call Invalidate
  Readers,          \* goroutines that memoise List results
  MaxVersion,       \* bound: commits per key
  MaxTicks,         \* bound: ticker firings
  MaxCalls,         \* bound: calls of Invalidate
  SingletonWrites,  \* writers keep to the usage rule of the type's comment
  EarlyCallers,     \* Invalidate may be called before Run has returned
  RefreshPanics     \* RefreshFunc, Index or Equal may panic

ASSUME ConstantsAssumption ==
  /\ Absent \notin Vals
  /\ MaxVersion \in Nat
  /\ MaxTicks \in Nat
  /\ MaxCalls \in Nat
  /\ SingletonWrites \in BOOLEAN
  /\ EarlyCallers \in BOOLEAN
  /\ RefreshPanics \in BOOLEAN

VARIABLES
  backend,    \* Keys -> Item: the system of record
  writers,    \* the state of each writer
  run,        \* how far Run has got
  loaded,     \* c.cache # nil
  cache,      \* c.cache: Keys -> Item, Absent where the map has no entry
  overlay,    \* c.overlay: Keys -> entry, epoch 0 where there is none
  epoch,      \* c.epoch
  nextEpoch,  \* c.nextEpoch
  refresher,  \* the goroutine running doRefresh, and its local variables
  channel,    \* c.invalidations: nil, open or closed
  cancelled,  \* ctx.Done() is closed
  ticks,      \* ticker firings so far
  pending,    \* c.pending: a request, 0 for nil
  requests,   \* the outcome of each invalidationRequest, "open" before done
  calls,      \* calls of Invalidate so far
  callers,    \* the state of each caller of Invalidate
  memo        \* the snapshot each reader memoised

dataVars    == <<loaded, cache, overlay, epoch>>
requestVars == <<pending, requests, calls, callers>>
clientVars  == <<backend, writers, memo>>
vars == <<backend, writers, run, loaded, cache, overlay, epoch, nextEpoch,
          refresher, channel, cancelled, ticks, pending, requests, calls,
          callers, memo>>

(***************************************************************************)
(* An item carries the number of the commit that produced it. The code     *)
(* does not see it: Equal compares only val. It orders values in time.     *)
(***************************************************************************)
Item    == [ver : Nat, val : Vals \cup {Absent}]
NoItem  == [ver |-> 0, val |-> Absent]
NoEntry == [item |-> NoItem, epoch |-> 0]

\* The content a reader of map m sees; cacheMap.Equal compares these.
View(m) == [k \in Keys |-> m[k].val]

Versions(m) == [k \in Keys |-> m[k].ver]

\* The goroutine at a point where doRefresh has no local variables.
At(point, cause) == [at |-> point, cause |-> cause, epoch |-> 0, todo |-> {},
                     snap |-> [k \in Keys |-> NoItem]]

Init ==
  /\ backend   = [k \in Keys |-> NoItem]
  /\ writers   = [w \in Writers |-> [at |-> "idle", key |-> Absent, item |-> NoItem]]
  /\ run       = "new"
  /\ loaded    = FALSE
  /\ cache     = [k \in Keys |-> NoItem]
  /\ overlay   = [k \in Keys |-> NoEntry]
  /\ epoch     = 0
  /\ nextEpoch = 0
  /\ refresher = At("off", 0)
  /\ channel   = "nil"
  /\ cancelled = FALSE
  /\ ticks     = 0
  /\ pending   = 0
  /\ requests  = [r \in 1..MaxCalls |-> "open"]
  /\ calls     = 0
  /\ callers   = [c \in Callers |->
                   [at |-> "idle", req |-> 0, since |-> [k \in Keys |-> 0],
                    quiet |-> FALSE]]
  /\ memo      = [r \in Readers |->
                   [valid |-> FALSE, epoch |-> 0, view |-> [k \in Keys |-> Absent]]]
-----------------------------------------------------------------------------
(***************************************************************************)
(* The backend. A commit gives the key its next version. Under             *)
(* SingletonWrites nobody commits a key while a writer is between its      *)
(* commit and its write-through of that key, and InsertIfAbsent is used    *)
(* for keys created once ("singleton-style writes").                       *)
(***************************************************************************)
MidWrite(k) == \E w \in Writers : writers[w].at \in {"insert", "upsert"} /\ writers[w].key = k

Quiescent == \A w \in Writers : writers[w].at \notin {"insert", "upsert"}

\* A commit or a write-through while callers wait: they are no longer quiet.
Disturbed == [c \in Callers |-> [callers[c] EXCEPT !.quiet = FALSE]]

MayCommit(k) == backend[k].ver < MaxVersion /\ (SingletonWrites => ~MidWrite(k))

OutOfBand(k) ==
  /\ MayCommit(k)
  /\ \E v \in Vals \cup {Absent} :
       backend' = [backend EXCEPT ![k] = [ver |-> @.ver + 1, val |-> v]]
  /\ callers' = Disturbed
  /\ UNCHANGED <<writers, run, dataVars, nextEpoch, refresher, channel, cancelled,
                 ticks, pending, requests, calls, memo>>

Commit(w, k, v, how) ==
  /\ writers[w].at \notin {"insert", "upsert"}
  /\ MayCommit(k)
  /\ how = "insert" => /\ backend[k].val = Absent
                       /\ SingletonWrites => backend[k].ver = 0
  /\ LET item == [ver |-> backend[k].ver + 1, val |-> v]
     IN  /\ backend' = [backend EXCEPT ![k] = item]
         /\ writers' = [writers EXCEPT ![w] = [at |-> how, key |-> k, item |-> item]]
  /\ callers' = Disturbed
  /\ UNCHANGED <<run, dataVars, nextEpoch, refresher, channel, cancelled,
                 ticks, pending, requests, calls, memo>>
-----------------------------------------------------------------------------
(***************************************************************************)
(* Local writes, each under c.lock.                                        *)
(***************************************************************************)
WriteBack(w, result) ==
  /\ writers' = [writers EXCEPT ![w].at = result]
  /\ callers' = Disturbed
  /\ UNCHANGED <<backend, run, loaded, refresher, channel, cancelled, ticks,
                 pending, requests, calls, memo>>

\* Mutant: the write is not recorded in the overlay.
WriteThroughCacheOnly(w) ==
  /\ nextEpoch' = nextEpoch + 1
  /\ cache' = [cache EXCEPT ![writers[w].key] = writers[w].item]
  /\ epoch' = nextEpoch + 1
  /\ UNCHANGED overlay

\* Mutant: the write keeps the epoch of the snapshot it changes.
WriteThroughKeepsEpoch(w) ==
  LET k == writers[w].key
  IN  /\ nextEpoch' = nextEpoch + 1
      /\ overlay' = [overlay EXCEPT ![k] = [item |-> writers[w].item, epoch |-> nextEpoch + 1]]
      /\ cache' = [cache EXCEPT ![k] = writers[w].item]
      /\ UNCHANGED epoch

\* The write both helpers perform: overlay and cache under a fresh epoch.
WriteThrough(w) ==
  LET k == writers[w].key
  IN  /\ nextEpoch' = nextEpoch + 1
      /\ overlay' = [overlay EXCEPT ![k] = [item |-> writers[w].item, epoch |-> nextEpoch + 1]]
      /\ cache' = [cache EXCEPT ![k] = writers[w].item]
      /\ epoch' = nextEpoch + 1

InsertIfAbsent(w) ==
  /\ writers[w].at = "insert"
  /\ \/ /\ ~loaded
        /\ WriteBack(w, "refused")
        /\ UNCHANGED <<cache, overlay, epoch, nextEpoch>>
     \/ /\ loaded
        /\ cache[writers[w].key].val # Absent
        /\ WriteBack(w, "written")
        /\ UNCHANGED <<cache, overlay, epoch, nextEpoch>>
     \/ /\ loaded
        /\ cache[writers[w].key].val = Absent
        /\ WriteBack(w, "written")
        /\ WriteThrough(w)

Upsert(w) ==
  /\ writers[w].at = "upsert"
  /\ \/ /\ ~loaded
        /\ WriteBack(w, "refused")
        /\ UNCHANGED <<cache, overlay, epoch, nextEpoch>>
     \/ /\ loaded
        /\ WriteBack(w, "written")
        /\ WriteThrough(w)
-----------------------------------------------------------------------------
(***************************************************************************)
(* doRefresh. The refresh epoch is taken before the fetch; the fetch reads *)
(* the keys one at a time, because nothing says a RefreshFunc is atomic;   *)
(* the result is merged and installed under c.lock.                        *)
(***************************************************************************)
RefreshBegin ==
  /\ refresher.at = "begin"
  /\ nextEpoch' = nextEpoch + 1
  /\ refresher' = [refresher EXCEPT !.at = "fetch", !.epoch = nextEpoch + 1, !.todo = Keys]
  /\ UNCHANGED <<clientVars, run, dataVars, channel, cancelled, ticks, requestVars>>

\* Mutant: the refresh epoch is taken when the fetch has returned.
RefreshFetchThenEpoch(k) ==
  /\ refresher.at = "fetch"
  /\ k \in refresher.todo
  /\ nextEpoch' = nextEpoch + 1
  /\ refresher' = [refresher EXCEPT !.todo = @ \ {k}, !.snap[k] = backend[k], !.epoch = nextEpoch + 1,
                                    !.at = IF refresher.todo = {k} THEN "install" ELSE @]
  /\ UNCHANGED <<clientVars, run, dataVars, channel, cancelled, ticks, requestVars>>

RefreshFetch(k) ==
  /\ refresher.at = "fetch"
  /\ k \in refresher.todo
  /\ refresher' = [refresher EXCEPT !.todo = @ \ {k}, !.snap[k] = backend[k],
                                    !.at = IF refresher.todo = {k} THEN "install" ELSE @]
  /\ UNCHANGED <<clientVars, run, dataVars, nextEpoch, channel, cancelled, ticks, requestVars>>

\* Mutant: overlay entries are never pruned.
SurvivesAlways(k) == overlay[k].epoch > 0

Survives(k) == overlay[k].epoch > refresher.epoch

PrunedOverlay == [k \in Keys |-> IF Survives(k) THEN overlay[k] ELSE NoEntry]

\* mergeAndPruneOverlayLocked: the snapshot under the writes that outlive it.
Effective == [k \in Keys |-> IF Survives(k) THEN overlay[k].item ELSE refresher.snap[k]]

(***************************************************************************)
(* What the caller of doRefresh does with its result: Run makes the        *)
(* channel and starts the loop unless the first load failed; a request is  *)
(* answered; a failed tick is only logged. A recovered panic is returned   *)
(* as nil; "panic" tells such a nil from that of a completed refresh.      *)
(***************************************************************************)
Finish(result) ==
  \/ /\ run = "loading"
     /\ result = "err"
     /\ run' = "failed"
     /\ refresher' = At("off", 0)
     /\ UNCHANGED <<channel, requests>>
  \/ /\ run = "loading"
     /\ result # "err"
     /\ run' = "running"
     /\ channel' = "open"
     /\ refresher' = At("select", 0)
     /\ UNCHANGED requests
  \/ /\ run = "running"
     /\ requests' = [r \in 1..MaxCalls |-> IF r = refresher.cause THEN result ELSE requests[r]]
     /\ refresher' = At("select", 0)
     /\ UNCHANGED <<run, channel>>

\* RefreshFunc fails, or returns an index twice (ErrConflict).
RefreshError ==
  /\ refresher.at \in {"fetch", "install"}
  /\ Finish("err")
  /\ UNCHANGED <<clientVars, dataVars, nextEpoch, cancelled, ticks, pending, calls, callers>>

\* A panic in RefreshFunc or Index leaves the data alone; one in Equal comes
\* after the overlay was pruned.
RefreshPanic ==
  /\ RefreshPanics
  /\ \/ refresher.at \in {"fetch", "install"} /\ UNCHANGED overlay
     \/ refresher.at = "install" /\ overlay' = PrunedOverlay
  /\ Finish("panic")
  /\ UNCHANGED <<clientVars, loaded, cache, epoch, nextEpoch, cancelled, ticks,
                 pending, calls, callers>>

\* Mutant: no comparison with the visible map, every refresh has its own epoch.
RefreshInstallRenews ==
  /\ refresher.at = "install"
  /\ loaded' = TRUE
  /\ cache' = Effective
  /\ overlay' = PrunedOverlay
  /\ epoch' = refresher.epoch
  /\ Finish("ok")
  /\ UNCHANGED <<clientVars, nextEpoch, cancelled, ticks, pending, calls, callers>>

RefreshInstall ==
  /\ refresher.at = "install"
  /\ loaded' = TRUE
  /\ cache' = Effective
  /\ overlay' = PrunedOverlay
  /\ \/ /\ View(Effective) = View(cache)
        /\ UNCHANGED <<epoch, nextEpoch>>
     \/ /\ View(Effective) # View(cache)
        /\ \A k \in Keys : ~Survives(k)
        /\ epoch' = refresher.epoch
        /\ UNCHANGED nextEpoch
     \/ /\ View(Effective) # View(cache)
        /\ \E k \in Keys : Survives(k)
        /\ epoch' = nextEpoch + 1
        /\ nextEpoch' = nextEpoch + 1
  /\ Finish("ok")
  /\ UNCHANGED <<clientVars, cancelled, ticks, pending, calls, callers>>
-----------------------------------------------------------------------------
(***************************************************************************)
(* Run: the first load is synchronous, then the goroutine selects between  *)
(* shutdown, a request and the ticker.                                     *)
(***************************************************************************)
Run ==
  /\ run = "new"
  /\ run' = "loading"
  /\ refresher' = At("begin", 0)
  /\ UNCHANGED <<clientVars, dataVars, nextEpoch, channel, cancelled, ticks, requestVars>>

Cancel ==
  /\ ~cancelled
  /\ cancelled' = TRUE
  /\ UNCHANGED <<clientVars, run, dataVars, nextEpoch, refresher, channel, ticks, requestVars>>

Stop ==
  /\ refresher.at = "select"
  /\ cancelled
  /\ channel' = "closed"
  /\ run' = "stopped"
  /\ refresher' = At("off", 0)
  /\ UNCHANGED <<clientVars, dataVars, nextEpoch, cancelled, ticks, requestVars>>

Tick ==
  /\ refresher.at = "select"
  /\ ticks < MaxTicks
  /\ ticks' = ticks + 1
  /\ refresher' = At("begin", 0)
  /\ UNCHANGED <<clientVars, run, dataVars, nextEpoch, channel, cancelled, requestVars>>

\* The rendezvous on the unbuffered channel.
Receive(c) ==
  /\ refresher.at = "select"
  /\ callers[c].at = "sending"
  /\ channel = "open"
  /\ refresher' = At("received", callers[c].req)
  /\ callers' = [callers EXCEPT ![c].at = "waiting"]
  /\ UNCHANGED <<clientVars, run, dataVars, nextEpoch, channel, cancelled, ticks,
                 pending, requests, calls>>

\* Mutant: pending is not cleared before the refresh starts.
ClearPendingNever ==
  /\ refresher.at = "received"
  /\ refresher' = At("begin", refresher.cause)
  /\ UNCHANGED <<clientVars, run, dataVars, nextEpoch, channel, cancelled, ticks, requestVars>>

ClearPending ==
  /\ refresher.at = "received"
  /\ pending' = 0
  /\ refresher' = At("begin", refresher.cause)
  /\ UNCHANGED <<clientVars, run, dataVars, nextEpoch, channel, cancelled, ticks,
                 requests, calls, callers>>
-----------------------------------------------------------------------------
(***************************************************************************)
(* Invalidate and sendInvalidation.                                        *)
(***************************************************************************)
\* Mutant: no coalescing, each caller replaces the pending request.
InvalidateReplaces(c) ==
  /\ callers[c].at \in {"idle", "returned"}
  /\ calls < MaxCalls
  /\ EarlyCallers \/ run \in {"running", "stopped"}
  /\ calls' = calls + 1
  /\ pending' = calls + 1
  /\ callers' = [callers EXCEPT ![c] = [at |-> "send", req |-> calls + 1,
                   since |-> Versions(backend), quiet |-> Quiescent]]
  /\ UNCHANGED <<clientVars, run, dataVars, nextEpoch, refresher, channel,
                 cancelled, ticks, requests>>

\* Under pendingLock: coalesce onto the pending request or become its sender.
Invalidate(c) ==
  /\ callers[c].at \in {"idle", "returned"}
  /\ calls < MaxCalls
  /\ EarlyCallers \/ run \in {"running", "stopped"}
  /\ calls' = calls + 1
  /\ \/ /\ pending # 0
        /\ callers' = [callers EXCEPT ![c] = [at |-> "waiting", req |-> pending,
                         since |-> Versions(backend), quiet |-> Quiescent]]
        /\ UNCHANGED pending
     \/ /\ pending = 0
        /\ pending' = calls + 1
        /\ callers' = [callers EXCEPT ![c] = [at |-> "send", req |-> calls + 1,
                         since |-> Versions(backend), quiet |-> Quiescent]]
  /\ UNCHANGED <<clientVars, run, dataVars, nextEpoch, refresher, channel,
                 cancelled, ticks, requests>>

\* The send evaluates c.invalidations once: on a nil channel it blocks for ever.
Send(c) ==
  /\ callers[c].at = "send"
  /\ channel # "closed"
  /\ callers' = [callers EXCEPT ![c].at = IF channel = "nil" THEN "stuck" ELSE "sending"]
  /\ UNCHANGED <<clientVars, run, dataVars, nextEpoch, refresher, channel,
                 cancelled, ticks, pending, requests, calls>>

\* Mutant: the recovered sender does not close request.done.
SendPanicsSilently(c) ==
  /\ callers[c].at \in {"send", "sending"}
  /\ channel = "closed"
  /\ pending' = 0
  /\ callers' = [callers EXCEPT ![c].at = "returned"]
  /\ UNCHANGED <<clientVars, run, dataVars, nextEpoch, refresher, channel,
                 cancelled, ticks, requests, calls>>

\* A send on, or blocked on, the closed channel panics and is recovered.
SendPanics(c) ==
  /\ callers[c].at \in {"send", "sending"}
  /\ channel = "closed"
  /\ requests' = [requests EXCEPT ![callers[c].req] = "err"]
  /\ pending' = 0
  /\ callers' = [callers EXCEPT ![c].at = "returned"]
  /\ UNCHANGED <<clientVars, run, dataVars, nextEpoch, refresher, channel,
                 cancelled, ticks, calls>>

\* <-request.done
Return(c) ==
  /\ callers[c].at = "waiting"
  /\ requests[callers[c].req] # "open"
  /\ callers' = [callers EXCEPT ![c].at = "returned"]
  /\ UNCHANGED <<clientVars, run, dataVars, nextEpoch, refresher, channel,
                 cancelled, ticks, pending, requests, calls>>

\* List (and Get, which reads the same epoch and map under the same lock).
List(r) ==
  /\ loaded
  /\ memo' = [memo EXCEPT ![r] = [valid |-> TRUE, epoch |-> epoch, view |-> View(cache)]]
  /\ UNCHANGED <<backend, writers, run, dataVars, nextEpoch, refresher, channel,
                 cancelled, ticks, requestVars>>
-----------------------------------------------------------------------------
Refresh ==
  \/ RefreshBegin
  \/ \E k \in Keys : RefreshFetch(k)
  \/ RefreshError
  \/ RefreshPanic
  \/ RefreshInstall

Refresher ==
  \/ Refresh
  \/ Stop
  \/ \E c \in Callers : Receive(c)
  \/ ClearPending

Caller(c) == Send(c) \/ SendPanics(c) \/ Return(c)

Next ==
  \/ Refresher
  \/ Run
  \/ Cancel
  \/ Tick
  \/ \E c \in Callers : Invalidate(c) \/ Caller(c)
  \/ \E k \in Keys : OutOfBand(k)
  \/ \E w \in Writers, k \in Keys, v \in Vals, how \in {"insert", "upsert"} : Commit(w, k, v, how)
  \/ \E w \in Writers : InsertIfAbsent(w) \/ Upsert(w)
  \/ \E r \in Readers : List(r)

Spec == Init /\ [][Next]_vars

(***************************************************************************)
(* The goroutine scheduler runs the refresh loop and a blocked caller that *)
(* can go on; RefreshFunc returns. Nothing is assumed of ticks, shutdown,  *)
(* writers or new calls; that Run is called once Invalidate waits for it   *)
(* is.                                                                     *)
(***************************************************************************)
Fairness ==
  /\ WF_vars(Run)
  /\ WF_vars(Refresher)
  /\ \A c \in Callers : WF_vars(Caller(c))

FairSpec == Spec /\ Fairness
-----------------------------------------------------------------------------
WriterState == [at : {"idle", "insert", "upsert", "written", "refused"},
                key : Keys \cup {Absent}, item : Item]

RefresherState == [at : {"off", "select", "received", "begin", "fetch", "install"},
                   cause : 0..MaxCalls, epoch : Nat, todo : SUBSET Keys,
                   snap : [Keys -> Item]]

CallerState == [at : {"idle", "send", "sending", "stuck", "waiting", "returned"},
                req : 0..MaxCalls, since : [Keys -> Nat], quiet : BOOLEAN]

Memo == [valid : BOOLEAN, epoch : Nat, view : [Keys -> Vals \cup {Absent}]]

\* Types of the state.
TypeOK ==
  /\ backend \in [Keys -> Item]
  /\ writers \in [Writers -> WriterState]
  /\ run \in {"new", "loading", "running", "failed", "stopped"}
  /\ loaded \in BOOLEAN
  /\ cache \in [Keys -> Item]
  /\ overlay \in [Keys -> [item : Item, epoch : Nat]]
  /\ epoch \in Nat
  /\ nextEpoch \in Nat
  /\ refresher \in RefresherState
  /\ channel \in {"nil", "open", "closed"}
  /\ cancelled \in BOOLEAN
  /\ ticks \in 0..MaxTicks
  /\ pending \in 0..MaxCalls
  /\ requests \in [1..MaxCalls -> {"open", "ok", "err", "panic"}]
  /\ calls \in 0..MaxCalls
  /\ callers \in [Callers -> CallerState]
  /\ memo \in [Readers -> Memo]

(***************************************************************************)
(* Read your writes: once InsertIfAbsent or Upsert has returned success,   *)
(* the cache never shows an older version of that key, whatever refresh    *)
(* was in flight, failed or panicked in between.                           *)
(***************************************************************************)
ReadYourWrites ==
  \A w \in Writers : writers[w].at = "written" =>
    cache[writers[w].key].ver >= writers[w].item.ver

(***************************************************************************)
(* The visible version of a key never goes back: neither a stale refresh   *)
(* nor a late write-through replaces a newer value by an older one.        *)
(***************************************************************************)
NeverGoesBack == [][\A k \in Keys : cache'[k].ver >= cache[k].ver]_vars

(***************************************************************************)
(* A memo is sound: a reader that finds the epoch it memoised still        *)
(* current (Epoch.Valid) would read exactly the content it memoised.       *)
(***************************************************************************)
MemoSound ==
  \A r \in Readers : memo[r].valid /\ memo[r].epoch = epoch => memo[r].view = View(cache)

(***************************************************************************)
(* A refresh that leaves the visible content as it was keeps the epoch, so *)
(* that memoised work is kept: only a local write may renew it.            *)
(***************************************************************************)
EpochStable ==
  [][writers' = writers /\ View(cache') = View(cache) => epoch' = epoch]_vars

(***************************************************************************)
(* Invalidate that returns success after a completed refresh, coalesced    *)
(* callers included, leaves every commit made before the call visible.     *)
(***************************************************************************)
InvalidateFresh ==
  \A c \in Callers : callers[c].at = "returned" /\ requests[callers[c].req] = "ok" =>
    \A k \in Keys : cache[k].ver >= callers[c].since[k]

(***************************************************************************)
(* As InvalidateFresh, for every success the caller can see: a refresh     *)
(* whose panic was recovered returns nil too.                              *)
(***************************************************************************)
InvalidateGuarantee ==
  \A c \in Callers : callers[c].at = "returned" /\ requests[callers[c].req] \in {"ok", "panic"} =>
    \A k \in Keys : cache[k].ver >= callers[c].since[k]

(***************************************************************************)
(* Convergence whatever the writers did before: if no write was under way  *)
(* when Invalidate was called and none since, the cache is the backend     *)
(* when it returns.                                                        *)
(***************************************************************************)
InvalidateConverges ==
  \A c \in Callers :
    callers[c].at = "returned" /\ callers[c].quiet /\ requests[callers[c].req] = "ok" =>
      View(cache) = View(backend)

(***************************************************************************)
(* There is one designated sender: a caller that sends holds the pending   *)
(* request, so clearing pending never drops somebody else's request.       *)
(***************************************************************************)
OneSender ==
  /\ \A c \in Callers : callers[c].at \in {"send", "sending", "stuck"} => callers[c].req = pending
  /\ refresher.at = "received" => refresher.cause = pending

(***************************************************************************)
(* Every call of Invalidate returns, through a refresh or through the      *)
(* shutdown, and its coalesced callers with it.                            *)
(***************************************************************************)
InvalidateReturns ==
  \A c \in Callers : callers[c].at \in {"send", "sending", "stuck", "waiting"} ~>
                     callers[c].at = "returned"

(***************************************************************************)
(* A caller that waits for Run to make the channel goes on once Run has    *)
(* made it.                                                                *)
(***************************************************************************)
RunUnblocksCallers ==
  \A c \in Callers : channel = "open" /\ callers[c].at \in {"send", "sending", "stuck", "waiting"} ~>
                     callers[c].at = "returned"
=============================================================================

---------------------------- MODULE TimeoutCache ----------------------------
(***************************************************************************)
(* The cache with a timeout of pkg/util/cache/timeout_cache.go.            *)
(*                                                                         *)
(* Set and Get take the lock, Invalidate does not. The time of expiry is a *)
(* time.Time, written a word at a time: whether it carries a monotonic     *)
(* reading, and the reading. A zero time has neither. After compares the   *)
(* readings if both times have one. Otherwise the second word is read as   *)
(* seconds, and a monotonic reading taken so is far in the future.         *)
(***************************************************************************)
EXTENDS Naturals

CONSTANTS Refresh,      \* How long a value is good.
          MaxTime       \* Time: a bound.

ASSUME TimeoutAssumption == Refresh \in Nat /\ MaxTime \in Nat

VARIABLES
  time,         \* The clock.
  invalid,      \* The time of expiry, its two words.
  setter,       \* The words a Set holding the lock has yet to write, and the time it read.
  invalidator,  \* The words an Invalidate has yet to write.
  valueSet,     \* When the value was set.
  dropped,      \* An Invalidate has ended since. History.
  raced         \* The last Set overlapped with an Invalidate. History.

timeoutVars == <<time, invalid, setter, invalidator, valueSet, dropped, raced>>

Words == {"mono", "reading"}

TimeoutInit ==
  /\ time = 1
  /\ invalid = [mono |-> FALSE, reading |-> 0]
  /\ setter = [words |-> {}, at |-> 0]
  /\ invalidator = {}
  /\ valueSet = 0 /\ dropped = TRUE /\ raced = FALSE

PassTime ==
  /\ time < MaxTime /\ time' = time + 1
  /\ UNCHANGED <<invalid, setter, invalidator, valueSet, dropped, raced>>

Setting == setter.words # {}

BeginSet ==
  /\ ~Setting
  /\ setter' = [words |-> Words, at |-> time]
  /\ raced' = (invalidator # {})
  /\ UNCHANGED <<time, invalid, invalidator, valueSet, dropped>>

\* Mutant of WriteSet: the cache is good from now to for ever.
WriteSetEndless(word) ==
  /\ word \in setter.words
  /\ invalid' = [invalid EXCEPT ![word] = IF word = "mono" THEN TRUE ELSE MaxTime + Refresh]
  /\ setter' = [setter EXCEPT !.words = @ \ {word}]
  /\ IF setter.words = {word} THEN valueSet' = setter.at /\ dropped' = FALSE
     ELSE UNCHANGED <<valueSet, dropped>>
  /\ UNCHANGED <<time, invalidator, raced>>

\* One word of the time, and with the last one the value and the unlock.
WriteSet(word) ==
  /\ word \in setter.words
  /\ invalid' = [invalid EXCEPT ![word] = IF word = "mono" THEN TRUE ELSE setter.at + Refresh]
  /\ setter' = [setter EXCEPT !.words = @ \ {word}]
  /\ IF setter.words = {word} THEN valueSet' = setter.at /\ dropped' = FALSE
     ELSE UNCHANGED <<valueSet, dropped>>
  /\ UNCHANGED <<time, invalidator, raced>>

BeginInvalidate ==
  /\ invalidator = {}
  /\ invalidator' = Words
  /\ raced' = (raced \/ Setting)
  /\ UNCHANGED <<time, invalid, setter, valueSet, dropped>>

WriteInvalid(word) ==
  /\ word \in invalidator
  /\ invalid' = [invalid EXCEPT ![word] = IF word = "mono" THEN FALSE ELSE 0]
  /\ invalidator' = invalidator \ {word}
  /\ dropped' = (dropped \/ invalidator = {word})
  /\ UNCHANGED <<time, setter, valueSet, raced>>

TimeoutNext ==
  \/ PassTime \/ BeginSet \/ BeginInvalidate
  \/ \E word \in Words : WriteSet(word) \/ WriteInvalid(word)

TimeoutSpec == TimeoutInit /\ [][TimeoutNext]_timeoutVars

\* time.Time.After of the clock and the time of expiry.
Expired == IF invalid.mono THEN time > invalid.reading ELSE invalid.reading = 0

\* Get, which waits for the lock, would return the value.
GetServes == ~Setting /\ ~Expired
-----------------------------------------------------------------------------
(***************************************************************************)
(* Get serves a value only within the timeout of the Set that stored it    *)
(* and not once it has been invalidated, unless Get itself or that Set ran *)
(* into an Invalidate: their words mix to a time that never comes          *)
(* (timeout_cache.go:69 and 86).                                           *)
(***************************************************************************)
ServedInTime ==
  GetServes => \/ ~dropped /\ time <= valueSet + Refresh
               \/ raced \/ invalidator # {}
=============================================================================

-------------------------------- MODULE Retry -------------------------------
(***************************************************************************)
(* The retry loop of pkg/util/retry/retry.go: DoWithContext calls back at  *)
(* once and then on every tick, until the callback returns nil or the      *)
(* context is done. When a tick and the end of the context are both there, *)
(* Go's select takes either.                                               *)
(***************************************************************************)
EXTENDS Naturals, Sequences, TLC

CONSTANT Callers

VARIABLES
  retry,    \* Each caller's loop: its phase, rerr, and the result it returned.
  done      \* The callers whose context is done.

retryVars == <<retry, done>>

NoResult == [context |-> FALSE, callback |-> "none"]

RetryInit ==
  /\ retry = [c \in Callers |-> [phase |-> "calling", rerr |-> "none"] @@ NoResult]
  /\ done = {}

ContextDone(c) ==
  /\ c \notin done /\ retry[c].phase # "returned"
  /\ done' = done \cup {c}
  /\ UNCHANGED retry

CallbackReturns(c, err) ==
  /\ retry[c].phase = "calling"
  /\ retry' = [retry EXCEPT ![c].rerr = err,
                 ![c].phase = IF err = "nil" THEN "returned" ELSE "waiting",
                 ![c].callback = IF err = "nil" THEN "nil" ELSE @]
  /\ UNCHANGED done

RetryTick(c) ==
  /\ retry[c].phase = "waiting"
  /\ retry' = [retry EXCEPT ![c].phase = "calling"]
  /\ UNCHANGED done

\* Mutant of Interrupted: the context is looked at before the first call only.
InterruptedAtFirst(c) ==
  /\ retry[c].phase = "waiting" /\ c \in done /\ retry[c].rerr = "none"
  /\ retry' = [retry EXCEPT ![c].phase = "returned", ![c].context = TRUE, ![c].callback = retry[c].rerr]
  /\ UNCHANGED done

\* The Error returned carries the context's error and the callback's.
Interrupted(c) ==
  /\ retry[c].phase = "waiting" /\ c \in done
  /\ retry' = [retry EXCEPT ![c].phase = "returned", ![c].context = TRUE, ![c].callback = retry[c].rerr]
  /\ UNCHANGED done
-----------------------------------------------------------------------------
(***************************************************************************)
(* A loop whose context is done returns, although a select that finds a    *)
(* tick as well may go round again (retry.go:90). A context stays done and *)
(* a loop that returned stays returned.                                    *)
(***************************************************************************)
RetryEnds == <>[](\A c \in done : retry[c].phase = "returned")
=============================================================================

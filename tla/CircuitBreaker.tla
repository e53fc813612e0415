---------------------------- MODULE CircuitBreaker ----------------------------
(***************************************************************************)
(* The circuit breaker of the Stellar client                               *)
(* (apps/web/src/lib/stellar.ts, lines 11-107): one object per process,    *)
(* which every RPC call checks when it starts and updates when it ends.    *)
(*                                                                         *)
(* `openUntil` is kept as the three cases the code tells apart: 0, a       *)
(* deadline ahead and a deadline that has passed.                          *)
(***************************************************************************)
EXTENDS Integers

CONSTANT THRESHOLD

ASSUME ThresholdAssumption == THRESHOLD \in Nat \ {0}

VARIABLES failures,
          openUntil     \* "none", "ahead" or "passed"

breaker == <<failures, openUntil>>

BreakerTypeOK ==
  /\ failures \in Nat
  /\ openUntil \in {"none", "ahead", "passed"}

BreakerInit ==
  /\ failures = 0
  /\ openUntil = "none"

(* rpcCall throws CircuitOpenError before it calls anything.               *)
CircuitOpen == openUntil = "ahead"

ResetBreaker ==
  /\ failures' = 0
  /\ openUntil' = "none"

(* The check of a call that goes ahead.                                    *)
CheckCircuit ==
  \/ openUntil = "none" /\ UNCHANGED breaker
  \/ openUntil = "passed" /\ ResetBreaker

RecordSuccess == ResetBreaker

(* The counter compared before this timeout is counted.                    *)
MutantRecordFailure ==
  /\ failures' = failures + 1
  /\ openUntil' = IF failures >= THRESHOLD THEN "ahead" ELSE openUntil

RecordFailure ==
  /\ failures' = failures + 1
  /\ openUntil' = IF failures + 1 >= THRESHOLD THEN "ahead" ELSE openUntil

(* RESET_MS go by.                                                         *)
Elapse ==
  /\ openUntil = "ahead"
  /\ openUntil' = "passed"
  /\ UNCHANGED failures

(* The circuit has a deadline exactly when THRESHOLD timeouts were counted *)
(* since the last success: calls that were let through before it opened    *)
(* and end after it, in any order, leave the counter and the deadline in   *)
(* agreement.                                                              *)
BreakerMatchesCount == openUntil = "none" <=> failures < THRESHOLD

==============================================================================

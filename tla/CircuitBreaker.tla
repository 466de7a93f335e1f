--------------------------- MODULE CircuitBreaker ---------------------------
(***************************************************************************)
(* The class CircuitBreaker of the healing orchestrator as a record and    *)
(* three functions on it.  opened_at is kept as the time that has passed   *)
(* since it was stamped, which the only comparison made of it              *)
(* (now - opened_at >= cooldown) needs no more precisely than up to        *)
(* Cooldown.                                                               *)
(***************************************************************************)
EXTENDS Integers

CONSTANTS
  Threshold,          \* failures before a circuit opens (3)
  SuccessesToClose,   \* successes before a half-open circuit closes (3)
  Cooldown,           \* time before an open circuit half-opens (30 s)
  None                \* Python's None

ASSUME BreakerAssumption ==
  /\ Threshold \in Nat \ {0}
  /\ SuccessesToClose \in Nat \ {0}
  /\ Cooldown \in Nat
  /\ None \notin Nat

Breaker == [state     : {"closed", "open", "half_open"},
            failures  : Nat,
            successes : 0 .. SuccessesToClose,
            opened_at : (0 .. Cooldown) \cup {None}]

NewBreaker ==
  [state |-> "closed", failures |-> 0, successes |-> 0, opened_at |-> None]

\* Slip: a failure of an open circuit leaves its stamp alone.
RecordFailureKeepingStamp(b) ==
  IF b.failures + 1 >= Threshold
  THEN [state |-> "open", failures |-> b.failures + 1, successes |-> 0,
        opened_at |-> IF b.opened_at = None THEN 0 ELSE b.opened_at]
  ELSE [b EXCEPT !.failures = @ + 1, !.successes = 0]

\* Opening stamps opened_at again even when the circuit is open already.
RecordFailure(b) ==
  IF b.failures + 1 >= Threshold
  THEN [state |-> "open", failures |-> b.failures + 1, successes |-> 0,
        opened_at |-> 0]
  ELSE [b EXCEPT !.failures = @ + 1, !.successes = 0]

\* Slip: a half-open circuit closes without forgetting its failures.
RecordSuccessKeepingFailures(b) ==
  CASE b.state = "half_open" ->
         IF b.successes + 1 >= SuccessesToClose
         THEN [NewBreaker EXCEPT !.failures = b.failures]
         ELSE [b EXCEPT !.successes = @ + 1]
    [] b.state = "closed" -> [b EXCEPT !.failures = 0]
    [] OTHER -> b

\* Slip: failures are counted for good, not in a row.
RecordSuccessCountingAll(b) ==
  IF b.state = "closed" THEN b ELSE RecordSuccessKeepingFailures(b)

\* An open circuit ignores a success.
RecordSuccess(b) ==
  CASE b.state = "half_open" ->
         IF b.successes + 1 >= SuccessesToClose
         THEN NewBreaker
         ELSE [b EXCEPT !.successes = @ + 1]
    [] b.state = "closed" -> [b EXCEPT !.failures = 0]
    [] OTHER -> b

CooledDown(b) == b.state = "open" /\ b.opened_at # None /\ b.opened_at >= Cooldown

Tick(b) ==
  IF CooledDown(b) THEN [b EXCEPT !.state = "half_open", !.successes = 0] ELSE b

\* One unit of time passes for a breaker nobody calls.
Aged(b) ==
  IF b.opened_at \in 0 .. (Cooldown - 1) THEN [b EXCEPT !.opened_at = @ + 1] ELSE b

=============================================================================

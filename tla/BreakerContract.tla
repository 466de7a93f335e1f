-------------------------- MODULE BreakerContract --------------------------
(***************************************************************************)
(* What a circuit breaker promises to the callers that report failures and *)
(* successes of a service, without the three-state machine that keeps the  *)
(* promise.  A circuit is tripped by Threshold failures in a row; it stays *)
(* tripped until Cooldown has passed with no failure at all and then       *)
(* SuccessesToClose successes have arrived, again with no failure between  *)
(* them.                                                                   *)
(***************************************************************************)
EXTENDS Integers

CONSTANTS
  Services,           \* the services that own a circuit
  Threshold,          \* failures in a row that trip a circuit
  SuccessesToClose,   \* successes in a row that close it again
  Cooldown            \* how long a tripped circuit ignores successes

VARIABLES
  tripped,            \* is the circuit of s refusing traffic?
  strikes,            \* failures in a row while s is not tripped
  quiet,              \* time since the last failure of a tripped s
  good                \* successes counted towards closing s

vars == <<tripped, strikes, quiet, good>>

Init ==
  /\ tripped = [s \in Services |-> FALSE]
  /\ strikes = [s \in Services |-> 0]
  /\ quiet = [s \in Services |-> 0]
  /\ good = [s \in Services |-> 0]

-----------------------------------------------------------------------------

\* A failure of s that neither trips it nor finds it tripped.
Strike(s) ==
  /\ ~tripped[s]
  /\ strikes[s] + 1 < Threshold
  /\ strikes' = [strikes EXCEPT ![s] = @ + 1]
  /\ UNCHANGED <<tripped, quiet, good>>

\* A failure that trips s, or starts the wait of a tripped s over.
Trip(s) ==
  /\ tripped[s] \/ strikes[s] + 1 >= Threshold
  /\ tripped' = [tripped EXCEPT ![s] = TRUE]
  /\ strikes' = [strikes EXCEPT ![s] = 0]
  /\ quiet' = [quiet EXCEPT ![s] = 0]
  /\ good' = [good EXCEPT ![s] = 0]

\* A success clears the strikes of a circuit that is not tripped.
Forgive(s) ==
  /\ ~tripped[s]
  /\ strikes' = [strikes EXCEPT ![s] = 0]
  /\ UNCHANGED <<tripped, quiet, good>>

\* A success of a tripped s counts once the cooldown is over ...
Credit(s) ==
  /\ tripped[s]
  /\ quiet[s] >= Cooldown
  /\ good[s] + 1 < SuccessesToClose
  /\ good' = [good EXCEPT ![s] = @ + 1]
  /\ UNCHANGED <<tripped, strikes, quiet>>

\* ... and the last one needed closes the circuit.
Close(s) ==
  /\ tripped[s]
  /\ quiet[s] >= Cooldown
  /\ good[s] + 1 >= SuccessesToClose
  /\ tripped' = [tripped EXCEPT ![s] = FALSE]
  /\ quiet' = [quiet EXCEPT ![s] = 0]
  /\ good' = [good EXCEPT ![s] = 0]
  /\ UNCHANGED strikes

\* One unit of time: only how long the tripped circuits have been quiet.
Wait ==
  /\ quiet' = [s \in Services |->
                 IF tripped[s] /\ quiet[s] < Cooldown THEN quiet[s] + 1
                                                      ELSE quiet[s]]
  /\ UNCHANGED <<tripped, strikes, good>>

Next ==
  \/ \E s \in Services :
       Strike(s) \/ Trip(s) \/ Forgive(s) \/ Credit(s) \/ Close(s)
  \/ Wait

Spec == Init /\ [][Next]_vars
=============================================================================

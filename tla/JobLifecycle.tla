---------------------------- MODULE JobLifecycle ----------------------------
(***************************************************************************)
(* What the worker service promises to whoever submits a job, without the  *)
(* queues, the priorities and the order of processing: a job is attempted  *)
(* until an attempt succeeds or its retries are used up, it then ends as   *)
(* completed or dead-lettered, and it stays that way.                      *)
(***************************************************************************)
EXTENDS Integers

CONSTANTS Jobs, Retries

VARIABLES
  phase,     \* where job j stands
  tries,     \* attempts made at j so far
  limit      \* retries j was submitted with

vars == <<phase, tries, limit>>

Init ==
  /\ phase = [j \in Jobs |-> "unsubmitted"]
  /\ tries = [j \in Jobs |-> 0]
  /\ limit = [j \in Jobs |-> 0]

Submit(j) ==
  /\ phase[j] = "unsubmitted"
  /\ phase' = [phase EXCEPT ![j] = "pending"]
  /\ \E r \in Retries : limit' = [limit EXCEPT ![j] = r]
  /\ UNCHANGED tries

\* One attempt at a pending job, and where it leaves the job.
Attempt(j, next) ==
  /\ phase[j] = "pending"
  /\ tries' = [tries EXCEPT ![j] = @ + 1]
  /\ phase' = [phase EXCEPT ![j] = next]
  /\ UNCHANGED limit

Succeed(j) == Attempt(j, "completed")
Retry(j) == tries[j] + 1 =< limit[j] /\ Attempt(j, "pending")
Bury(j) == tries[j] + 1 > limit[j] /\ Attempt(j, "dead_lettered")

Next == \E j \in Jobs : Submit(j) \/ Succeed(j) \/ Retry(j) \/ Bury(j)

Spec == Init /\ [][Next]_vars
=============================================================================

-------------------------- MODULE MCWorkerService --------------------------
(* The worker service on a small instance.                                 *)
EXTENDS WorkerService

CONSTANTS j1, j2, j3

\* No retry at all (a negative max_retries is accepted), and two of them.
SmallRetries == {-1, 2}

\* A request may ask for more retries than datetime can back off.
HugeRetries == {40}

=============================================================================

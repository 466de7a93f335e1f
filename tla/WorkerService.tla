--------------------------- MODULE WorkerService ---------------------------
(***************************************************************************)
(* The worker service: one FIFO queue per priority, the lists of completed *)
(* and dead-lettered jobs, and the queue-depth gauge.  Every handler is an *)
(* async function that never awaits, so it is one action.  A job is active *)
(* only inside process_one, which takes it out of the dictionary active    *)
(* again before it returns: between handlers that dictionary is empty, and *)
(* it is no variable here.                                                 *)
(***************************************************************************)
EXTENDS Integers, Sequences

CONSTANTS
  Jobs,        \* the ids of the jobs that may be submitted (fresh uuids)
  Retries,     \* the values of max_retries requests carry (any integer)
  DateLimit    \* the attempts whose backoff no datetime can hold: 2 ** 38 s

ASSUME WorkerAssumption ==
  /\ Retries \subseteq Int
  /\ DateLimit \in Nat

VARIABLES
  jobs,        \* the job dictionaries, by id
  queues,      \* queues: priority -> ids, oldest first
  failed,      \* failed: ids, newest first
  completed,   \* completed: ids, newest first
  depth,       \* QUEUE_DEPTH, the gauge of the queue lengths
  delayed      \* jobs whose next_run_at is still to come

vars == <<jobs, queues, failed, completed, depth, delayed>>

Priority == {"high", "medium", "low"}

\* The priorities process_one looks at before it looks at p.
Before(p) ==
  CASE p = "high" -> {}
    [] p = "medium" -> {"high"}
    [] p = "low" -> {"high", "medium"}

Status == {"unsubmitted", "queued", "retry_scheduled", "completed", "dead_lettered"}

\* force_fail is the payload that makes the handler's work raise.
Job == [priority : Priority, force_fail : BOOLEAN, max_retries : Int,
        attempts : Nat, status : Status]

NoJob == [priority |-> "medium", force_fail |-> FALSE, max_retries |-> 0,
          attempts |-> 0, status |-> "unsubmitted"]

Init ==
  /\ jobs = [j \in Jobs |-> NoJob]
  /\ queues = [p \in Priority |-> <<>>]
  /\ failed = <<>>
  /\ completed = <<>>
  /\ depth = [p \in Priority |-> 0]
  /\ delayed = {}

-----------------------------------------------------------------------------

\* Slip: the gauge is set before the queue changes.
sync_depths_early == depth' = [p \in Priority |-> Len(queues[p])]

\* sync_depths, called last by every handler that changed a queue.
sync_depths == depth' = [p \in Priority |-> Len(queues'[p])]

\* POST /workers/jobs
submit_job(j, priority, force_fail, max_retries) ==
  /\ jobs[j].status = "unsubmitted"
  /\ jobs' = [jobs EXCEPT ![j] =
                [priority |-> priority, force_fail |-> force_fail,
                 max_retries |-> max_retries, attempts |-> 0, status |-> "queued"]]
  /\ queues' = [queues EXCEPT ![priority] = Append(@, j)]
  /\ sync_depths
  /\ UNCHANGED <<failed, completed, delayed>>

\* The queue process_one pops from: the first in order that is not empty.
Selected(p) == queues[p] # <<>> /\ \A q \in Before(p) : queues[q] = <<>>

\* Slip: the status stays what it is while the job is worked on.
AttemptedActive(j, status) ==
  jobs' = [jobs EXCEPT ![j].attempts = @ + 1, ![j].status = "active"]

\* Slip: attempts are not counted.
AttemptedUncounted(j, status) == jobs' = [jobs EXCEPT ![j].status = status]

\* What every attempt at j does to it: it is counted and the status is set.
Attempted(j, status) ==
  jobs' = [jobs EXCEPT ![j].attempts = @ + 1, ![j].status = status]

\* Slips: one retry too few, and one too many.
RetriableLess(j) == jobs[j].attempts + 1 < jobs[j].max_retries
RetriableMore(j) == jobs[j].attempts =< jobs[j].max_retries

Fails(j) == jobs[j].force_fail
Retriable(j) == jobs[j].attempts + 1 =< jobs[j].max_retries

\* The work succeeds.
Complete(p) ==
  LET j == Head(queues[p])
  IN  /\ ~Fails(j)
      /\ Attempted(j, "completed")
      /\ queues' = [queues EXCEPT ![p] = Tail(@)]
      /\ completed' = <<j>> \o completed
      /\ UNCHANGED <<failed, delayed>>

\* Slip: the job is looked at and not popped before it is put back.
RescheduleTwice(p) ==
  LET j == Head(queues[p])
  IN  /\ Fails(j) /\ Retriable(j)
      /\ Attempted(j, "retry_scheduled")
      /\ queues' = [queues EXCEPT ![p] = Append(@, j)]
      /\ delayed' = delayed \cup {j}
      /\ UNCHANGED <<failed, completed>>

\* The work raises and a retry is left: the job goes to the tail of its queue
\* with next_run_at moved 2 ** attempts seconds ahead.  When no datetime is
\* that far ahead the addition raises inside the except block, after the
\* status is set and before the job is put back.
Reschedule(p) ==
  LET j == Head(queues[p])
  IN  /\ Fails(j) /\ Retriable(j)
      /\ Attempted(j, "retry_scheduled")
      /\ IF jobs[j].attempts + 1 < DateLimit
         THEN /\ queues' = [queues EXCEPT ![p] = Append(Tail(@), j)]
              /\ delayed' = delayed \cup {j}
         ELSE /\ queues' = [queues EXCEPT ![p] = Tail(@)]
              /\ UNCHANGED delayed
      /\ UNCHANGED <<failed, completed>>

\* Slip: a job without retries is dropped.
Drop(p) ==
  LET j == Head(queues[p])
  IN  /\ Fails(j) /\ ~Retriable(j)
      /\ Attempted(j, "dead_lettered")
      /\ queues' = [queues EXCEPT ![p] = Tail(@)]
      /\ UNCHANGED <<failed, completed, delayed>>

\* The work raises and no retry is left.
DeadLetter(p) ==
  LET j == Head(queues[p])
  IN  /\ Fails(j) /\ ~Retriable(j)
      /\ Attempted(j, "dead_lettered")
      /\ queues' = [queues EXCEPT ![p] = Tail(@)]
      /\ failed' = <<j>> \o failed
      /\ UNCHANGED <<completed, delayed>>

\* POST /workers/tick.  Nothing here reads next_run_at.
process_one ==
  /\ \E p \in Priority :
       /\ Selected(p)
       /\ \/ Complete(p)
          \/ Reschedule(p)
          \/ DeadLetter(p)
  /\ sync_depths

\* A tick with nothing to do and GET /workers/status only set the gauge.
Sync ==
  /\ UNCHANGED <<jobs, queues, failed, completed, delayed>>
  /\ sync_depths

\* The next_run_at of a rescheduled job comes.
Due(j) ==
  /\ j \in delayed
  /\ delayed' = delayed \ {j}
  /\ UNCHANGED <<jobs, queues, failed, completed, depth>>

Next ==
  \/ \E j \in Jobs, priority \in Priority, force_fail \in BOOLEAN, max_retries \in Retries :
       submit_job(j, priority, force_fail, max_retries)
  \/ process_one
  \/ Sync
  \/ \E j \in Jobs : Due(j)

Spec == Init /\ [][Next]_vars

\* Somebody keeps calling POST /workers/tick; nothing in the service does.
FairSpec == Spec /\ WF_vars(process_one)

-----------------------------------------------------------------------------
(* Properties.                                                             *)

\* The lists a job can be found in, which get_job searches.
Shelf == Priority \cup {"failed", "completed"}

OnShelf(a) ==
  CASE a = "failed" -> failed
    [] a = "completed" -> completed
    [] OTHER -> queues[a]

\* Every variable has its type.
TypeOK ==
  /\ jobs \in [Jobs -> Job]
  /\ queues \in [Priority -> Seq(Jobs)]
  /\ failed \in Seq(Jobs)
  /\ completed \in Seq(Jobs)
  /\ depth \in [Priority -> Nat]
  /\ delayed \in SUBSET Jobs

\* No job is ever in two places, or twice in one, whatever the order in which
\* it is queued, retried, completed and buried.
PlacedAtMostOnce ==
  \A a, b \in Shelf :
    \A i \in 1 .. Len(OnShelf(a)), k \in 1 .. Len(OnShelf(b)) :
      OnShelf(a)[i] = OnShelf(b)[k] => a = b /\ i = k

\* Every submitted job can be found (get_job does not answer 404), and its
\* status and priority say which list it is in.
On(a, j) == \E i \in 1 .. Len(OnShelf(a)) : OnShelf(a)[i] = j

PlacedByStatus ==
  \A j \in Jobs :
    /\ \A p \in Priority :
         On(p, j) <=> jobs[j].status \in {"queued", "retry_scheduled"}
                      /\ jobs[j].priority = p
    /\ On("completed", j) <=> jobs[j].status = "completed"
    /\ On("failed", j) <=> jobs[j].status = "dead_lettered"

\* The gauge shows the length of every queue between any two handlers.
DepthExact == \A p \in Priority : depth[p] = Len(queues[p])

\* What a job went through can be read off its attempts: a completed job
\* succeeded at once, a dead-lettered one used up every retry it was given
\* and not one more (a negative max_retries still gets its first attempt).
Tells(job) ==
  /\ job.status \in {"unsubmitted", "queued"} => job.attempts = 0
  /\ job.status = "retry_scheduled" => job.force_fail /\ job.attempts \in 1 .. job.max_retries
  /\ job.status = "completed" => ~job.force_fail /\ job.attempts = 1
  /\ job.status = "dead_lettered" =>
       /\ job.force_fail
       /\ job.attempts = IF job.max_retries < 0 THEN 1 ELSE job.max_retries + 1

AttemptsTell == \A j \in Jobs : Tells(jobs[j])

\* The service implements JobLifecycle.  The phase of a job is read off the
\* lists and not off its status: what a caller can rely on is where it is.
Phases ==
  [j \in Jobs |->
     IF On("completed", j) THEN "completed"
     ELSE IF On("failed", j) THEN "dead_lettered"
     ELSE IF \E p \in Priority : On(p, j) THEN "pending"
     ELSE "unsubmitted"]

Lifecycle ==
  INSTANCE JobLifecycle WITH
    phase <- Phases,
    tries <- [j \in Jobs |-> jobs[j].attempts],
    limit <- [j \in Jobs |-> jobs[j].max_retries]

LifecycleSpec == Lifecycle!Spec

\* Every job that is submitted is completed or dead-lettered in the end, as
\* long as submissions stop (a low job waits for every other one).
EveryJobEnds ==
  \A j \in Jobs :
    jobs[j].status = "queued" ~> jobs[j].status \in {"completed", "dead_lettered"}

=============================================================================

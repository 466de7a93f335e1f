------------------------- MODULE HealingOrchestrator -------------------------
(***************************************************************************)
(* The healing orchestrator: one circuit breaker and at most one reroute   *)
(* flag per service, the history of healing events and the gauge exported  *)
(* to Prometheus.  Every HTTP handler is an async function that never      *)
(* awaits, so it runs to its end without another handler in between: one   *)
(* action per handler.                                                     *)
(*                                                                         *)
(* The handlers read the wall clock and nothing else waits for time, so    *)
(* time is an action (Advance) that ages what is stamped; an age stops     *)
(* growing once no comparison in the code can tell it from a larger one.   *)
(*                                                                         *)
(* A service whose breaker has not been created yet is one with a          *)
(* NewBreaker: breaker_for creates exactly that one.                       *)
(***************************************************************************)
EXTENDS CircuitBreaker, BoundedLog

CONSTANTS
  Services,      \* the service ids callers send
  Incidents,     \* correlation ids, sent by callers or generated
  RerouteTtl,    \* lifetime of a reroute flag (60 s)
  EventCap,      \* length of the event history (250)
  MaxFailures    \* bound of the model: failures recorded before a success closes

ASSUME HealingAssumption ==
  /\ RerouteTtl \in Nat
  /\ RerouteTtl >= Cooldown    \* a flag lasts longer than a cooldown (60 s, 30 s)
  /\ EventCap \in Nat \ {0}
  /\ MaxFailures \in Nat

VARIABLES
  breakers,      \* breakers: service id -> CircuitBreaker
  reroute,       \* reroutes.flags: age of the flag of a service, or None
  gauge,         \* CIRCUIT_STATE, the state last exported for a service
  events         \* events, newest first

vars == <<breakers, reroute, gauge, events>>

Action == {"restart_container", "open_circuit", "observe"}

Event ==
  [type : {"healing.started", "scale.event"}, service : Services, incident : Incidents]
    \cup
  [type : {"healing.complete"}, service : Services, incident : Incidents,
   action : Action]

Init ==
  /\ breakers = [s \in Services |-> NewBreaker]
  /\ reroute = [s \in Services |-> None]
  /\ gauge = [s \in Services |-> "closed"]
  /\ events = <<>>

-----------------------------------------------------------------------------
(* RerouteStore.                                                           *)

\* A flag is dropped when it is read after it has expired, not before.
Expired(s) == reroute[s] # None /\ reroute[s] > RerouteTtl

ReadReroute(s) ==
  reroute' = IF Expired(s) THEN [reroute EXCEPT ![s] = None] ELSE reroute

SetReroute(s) == reroute' = [reroute EXCEPT ![s] = 0]

-----------------------------------------------------------------------------
(* The handlers.                                                           *)

\* The healing action chosen for an anomaly.
Chosen(severity, recommended) ==
  CASE severity = "critical" \/ recommended = "restart_or_reroute" -> "restart_container"
    [] severity # "critical" /\ recommended = "open_circuit" -> "open_circuit"
    [] OTHER -> "observe"

\* Slip: the completion is recorded under a correlation id of its own.
HandleAnomalyLosingId(s, severity, recommended, incident) ==
  LET started   == [type |-> "healing.started", service |-> s, incident |-> incident]
      completed(id) == [type |-> "healing.complete", service |-> s, incident |-> id,
                        action |-> Chosen(severity, recommended)]
  IN  /\ breakers[s].failures < MaxFailures
      /\ breakers' = [breakers EXCEPT ![s] = RecordFailure(@)]
      /\ gauge' = [gauge EXCEPT ![s] = RecordFailure(breakers[s]).state]
      /\ \E id \in Incidents :
           events' = Push(Push(events, started, EventCap), completed(id), EventCap)
      /\ ReadReroute(s)

\* POST /events/anomaly.  A correlation id the caller leaves out is
\* generated, which is one more choice of incident.
HandleAnomaly(s, severity, recommended, incident) ==
  LET started   == [type |-> "healing.started", service |-> s, incident |-> incident]
      completed == [type |-> "healing.complete", service |-> s, incident |-> incident,
                    action |-> Chosen(severity, recommended)]
  IN  /\ breakers[s].failures < MaxFailures
      /\ breakers' = [breakers EXCEPT ![s] = RecordFailure(@)]
      /\ gauge' = [gauge EXCEPT ![s] = RecordFailure(breakers[s]).state]
      /\ events' = Push(Push(events, started, EventCap), completed, EventCap)
      /\ IF Chosen(severity, recommended) = "restart_container"
         THEN SetReroute(s)
         ELSE ReadReroute(s)

\* POST /scale only leaves a record; the replicas it applies are not state.
Scale(s, incident) ==
  /\ events' = Push(events, [type |-> "scale.event", service |-> s, incident |-> incident],
                    EventCap)
  /\ UNCHANGED <<breakers, reroute, gauge>>

\* Slip: only the GET handler ticks.
CircuitSuccessWithoutTick(s) ==
  /\ breakers' = [breakers EXCEPT ![s] = RecordSuccess(@)]
  /\ UNCHANGED <<reroute, gauge, events>>

\* POST /circuit/{service_id}/success
CircuitSuccess(s) ==
  /\ breakers' = [breakers EXCEPT ![s] = RecordSuccess(Tick(@))]
  /\ UNCHANGED <<reroute, gauge, events>>

\* POST /circuit/{service_id}/failure does not tick first.
CircuitFailure(s) ==
  /\ breakers[s].failures < MaxFailures
  /\ breakers' = [breakers EXCEPT ![s] = RecordFailure(@)]
  /\ UNCHANGED <<reroute, gauge, events>>

\* GET /circuit/{service_id} changes state: it ticks and drops a stale flag.
Circuit(s) ==
  /\ breakers' = [breakers EXCEPT ![s] = Tick(@)]
  /\ ReadReroute(s)
  /\ UNCHANGED <<gauge, events>>

\* Time passes for every breaker and every flag.
Advance ==
  /\ breakers' = [s \in Services |-> Aged(breakers[s])]
  /\ reroute' = [s \in Services |->
                   IF reroute[s] \in 0 .. RerouteTtl THEN reroute[s] + 1 ELSE reroute[s]]
  /\ UNCHANGED <<gauge, events>>

Severity == {"warning", "critical"}
Recommendation == {"observe", "open_circuit", "restart_or_reroute"}

Next ==
  \/ \E s \in Services, severity \in Severity, recommended \in Recommendation,
        incident \in Incidents : HandleAnomaly(s, severity, recommended, incident)
  \/ \E s \in Services, incident \in Incidents : Scale(s, incident)
  \/ \E s \in Services : CircuitSuccess(s)
  \/ \E s \in Services : CircuitFailure(s)
  \/ \E s \in Services : Circuit(s)
  \/ Advance

Spec == Init /\ [][Next]_vars

\* Time does not stop, and a service that works goes on reporting successes.
Fairness ==
  /\ WF_vars(Advance)
  /\ \A s \in Services : WF_vars(CircuitSuccess(s))

FairSpec == Spec /\ Fairness

-----------------------------------------------------------------------------
(* Properties.                                                             *)

\* Every variable has its type (the fields of CircuitBreaker, the flags of
\* RerouteStore, the shapes of the events record_event stores).
TypeOK ==
  /\ breakers \in [Services -> Breaker]
  /\ reroute \in [Services -> (0 .. RerouteTtl + 1) \cup {None}]
  /\ gauge \in [Services -> {"closed", "open", "half_open"}]
  /\ events \in Seq(Event)
  /\ Len(events) =< EventCap

\* The four fields of a breaker agree, although three methods write them
\* independently.  The failure count is what makes a failure re-open a
\* half-open circuit at once: record_failure has no branch for half_open and
\* relies on the count being still at the threshold.
Agrees(b) ==
  /\ b.state = "closed" <=> b.failures < Threshold
  /\ b.state = "closed" <=> b.opened_at = None
  /\ b.state = "half_open" => b.opened_at = Cooldown
  /\ b.state = "half_open" => b.successes < SuccessesToClose
  /\ b.state # "half_open" => b.successes = 0

BreakerConsistent == \A s \in Services : Agrees(breakers[s])

\* A restart reroutes traffic and counts as a failure in one step, so a
\* tripped circuit is never older than the flag: the cooldown of a rerouted
\* service starts over with its last restart (set_reroute next to
\* record_failure in handle_anomaly).
RerouteRestartsCooldown ==
  \A s \in Services :
    breakers[s].state # "closed" /\ reroute[s] # None
      => breakers[s].opened_at =< reroute[s]

\* In the history an incident that started is always followed by its
\* completion, for the same service and under the same correlation id, also
\* while the other handlers push records between incidents and the cut at
\* EventCap takes the oldest ones away.
IncidentsComplete ==
  \A i \in 1 .. Len(events) :
    events[i].type = "healing.started" =>
      /\ i > 1
      /\ events[i - 1].type = "healing.complete"
      /\ events[i - 1].service = events[i].service
      /\ events[i - 1].incident = events[i].incident

\* The breakers keep the promise of BreakerContract: its counters are read
\* off the state machine, and tick is a step the caller does not see.
Contract ==
  INSTANCE BreakerContract WITH
    tripped <- [s \in Services |-> breakers[s].state # "closed"],
    strikes <- [s \in Services |->
                  IF breakers[s].state = "closed" THEN breakers[s].failures ELSE 0],
    quiet   <- [s \in Services |->
                  IF breakers[s].state = "closed" THEN 0 ELSE breakers[s].opened_at],
    good    <- [s \in Services |->
                  IF breakers[s].state = "half_open" THEN breakers[s].successes ELSE 0]

ContractSpec == Contract!Spec

\* A circuit closes again, and stays closed with its failures forgotten, once
\* failures of its service stop: nothing but callers reporting successes ever
\* moves a breaker out of open (there is no timer), so this rests on them.
FailuresStop(s) == <>[][breakers'[s].failures =< breakers[s].failures]_vars

Recovers ==
  \A s \in Services :
    FailuresStop(s) => <>[](breakers[s].state = "closed" /\ breakers[s].failures = 0)

=============================================================================

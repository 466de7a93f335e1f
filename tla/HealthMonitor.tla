--------------------------- MODULE HealthMonitor ---------------------------
(***************************************************************************)
(* The health monitor.  A loop starts one goroutine per registered service *)
(* at every tick; each asks the service over HTTP without holding the      *)
(* lock, and records the answer under it.  Registrations take the lock for *)
(* writing; the loop and the handlers that send the maps to a client hold  *)
(* it for reading, the handlers for as long as the client takes.           *)
(*                                                                         *)
(* The counters checks and failures are left out: only the rates and the   *)
(* health score that a score shows are computed from them, and those are   *)
(* figures, rounded to two decimals, that no property is about.            *)
(***************************************************************************)
EXTENDS RingBuffer, BoundedLog, RWMutex, FiniteSets

CONSTANTS
  Services, Addresses,
  Probes,      \* the goroutines that can run Check at a time (bound)
  Clients,     \* the requests that can read at a time (bound)
  Latencies,   \* what a probe may measure
  RingSize,    \* 120 in the code
  EventCap     \* 250 in the code

HealthStatus == {"healthy", "degraded", "down"}

Registration == [service : Services, address : Addresses]

Latency == Latencies \cup {0}

Ring == [values : [0 .. RingSize - 1 -> Latency], size : {RingSize},
         next : 0 .. RingSize - 1, filled : BOOLEAN]

ASSUME MonitorAssumption ==
  /\ RingSize \in Nat \ {0} /\ EventCap \in Nat \ {0, 1}
  /\ Latencies \subseteq Nat
  /\ None \notin Services \cup Addresses \cup Probes \cup HealthStatus
  /\ Probes \cap Registration = {} /\ None \notin Ring
  /\ "loop" \notin Clients

VARIABLES
  services,    \* services: the address a service is registered with
  latency,     \* latency: the ring of a service
  scores,      \* scores
  events,      \* events, newest first
  mu,          \* mu, the RWMutex
  flight,      \* what every goroutine is doing
  health,      \* what each address answers (environment)
  samples      \* the last RingSize samples of a service (history)

vars == <<services, latency, scores, events, mu, flight, health, samples>>

\* What scores holds of a service that was not checked yet.
NoScore == [status |-> None, p50 |-> 0, p95 |-> 0, p99 |-> 0]

Scored(s) == scores[s].status # None

Registered == {s \in Services : services[s] # None}

Idle == {p \in Probes : flight[p] = None}

Init ==
  /\ services = [s \in Services |-> None]
  /\ latency = [s \in Services |-> None]
  /\ scores = [s \in Services |-> NoScore]
  /\ events = <<>>
  /\ mu = Unlocked
  /\ flight = [p \in Probes |-> None]
  /\ health \in [Addresses -> HealthStatus]
  /\ samples = [s \in Services |-> <<>>]

-----------------------------------------------------------------------------
(* Registration.                                                           *)

\* POST /register (and seedDefaults) asks for the lock ...
LockToRegister(s, a) ==
  /\ mu.writer = None
  /\ mu' = Lock(mu, [service |-> s, address |-> a])
  /\ UNCHANGED <<services, latency, scores, events, flight, health, samples>>

\* ... and stores the address when it has it.  The ring and the counters of a
\* service that was known stay.
Register(s, a) ==
  /\ Exclusive(mu, [service |-> s, address |-> a])
  /\ services' = [services EXCEPT ![s] = a]
  /\ latency' = [latency EXCEPT ![s] = IF @ = None THEN NewRingBuffer(RingSize) ELSE @]
  /\ mu' = Unlock(mu)
  /\ UNCHANGED <<scores, events, flight, health, samples>>

-----------------------------------------------------------------------------
(* The loop.                                                               *)

\* The services a snapshot taken from now on can hold: one more may get in
\* before the loop, none may once the loop has the lock.
Expected == Registered \cup {s \in Services : \E a \in Addresses :
                              mu.writer = [service |-> s, address |-> a]}

\* The ticker fires and the loop asks for the read lock (the bound: there is
\* an idle goroutine for every service it may find).
Tick ==
  /\ Outside(mu, "loop")
  /\ Cardinality(Idle) >= Cardinality(Expected)
  /\ mu' = RLock(mu, "loop")
  /\ UNCHANGED <<services, latency, scores, events, flight, health, samples>>

\* It copies the registered services, unlocks, and starts a Check of each.
Snapshot ==
  /\ "loop" \in mu.reading
  /\ mu' = RUnlock(mu, "loop")
  /\ \E goroutine \in [Registered -> Idle] :
       /\ \A s, t \in Registered : goroutine[s] = goroutine[t] => s = t
       /\ flight' = [p \in Probes |->
            IF \E s \in Registered : goroutine[s] = p
            THEN LET s == CHOOSE s \in Registered : goroutine[s] = p
                 IN  [service |-> s, address |-> services[s], answer |-> None]
            ELSE flight[p]]
  /\ UNCHANGED <<services, latency, scores, events, health, samples>>

-----------------------------------------------------------------------------
(* Check, in the goroutine p.                                              *)

\* The GET returns, with an error after two seconds at the latest.
Answer(p) ==
  /\ flight[p] # None
  /\ flight[p].answer = None
  /\ flight' = [flight EXCEPT ![p].answer = health[flight[p].address]]
  /\ UNCHANGED <<services, latency, scores, events, mu, health, samples>>

LockToRecord(p) ==
  /\ flight[p] # None
  /\ flight[p].answer # None
  /\ mu.writer = None
  /\ mu' = Lock(mu, p)
  /\ UNCHANGED <<services, latency, scores, events, flight, health, samples>>

\* A score as the properties need it.  The code rounds the percentiles; as that
\* keeps their order, a latency here stands for the rounded one.
Score(status, values) ==
  [status |-> status, p50 |-> Percentile(values, 50),
   p95 |-> Percentile(values, 95), p99 |-> Percentile(values, 99)]

HealthEvent(s, status) == [event_type |-> "service.health", service_id |-> s, status |-> status]
DownEvent(s) == [event_type |-> "service.down", service_id |-> s, status |-> "down"]

emitLocked(log, event) == Push(log, event, EventCap)

\* Slip: the outage is announced after the health event.
EmittedLate(s, status) ==
  LET health_first == emitLocked(events, HealthEvent(s, status))
  IN  IF status = "down" THEN emitLocked(health_first, DownEvent(s)) ELSE health_first

\* Slip: the health event takes the score before the check stores its own.
EmittedBefore(s, status) ==
  emitLocked(IF status = "down" THEN emitLocked(events, DownEvent(s)) ELSE events,
             HealthEvent(s, scores[s].status))

\* What a check with this outcome adds to the events.
Emitted(s, status) ==
  emitLocked(IF status = "down" THEN emitLocked(events, DownEvent(s)) ELSE events,
             HealthEvent(s, status))

\* Slip: the lock is not released.
UnlockNever(m) == m

\* The deferred unlock of Check.
Unlocking(m) == Unlock(m)

\* The answer is recorded: the ring, the score and the events change in one
\* critical section.
Record(p, sample) ==
  LET s == flight[p].service
      status == flight[p].answer
      window == Append(samples[s], sample)
  IN  /\ flight[p] # None
      /\ Exclusive(mu, p)
      /\ latency' = [latency EXCEPT ![s] = Add(@, sample)]
      /\ scores' = [scores EXCEPT ![s] = Score(status, Values(latency'[s]))]
      /\ events' = Emitted(s, status)
      /\ mu' = Unlocking(mu)
      /\ flight' = [flight EXCEPT ![p] = None]
      /\ samples' = [samples EXCEPT ![s] =
           IF Len(window) > RingSize THEN Tail(window) ELSE window]
      /\ UNCHANGED <<services, health>>

-----------------------------------------------------------------------------
(* The clients, and the services that are watched.                         *)

\* GET /services, /scores, /events and /metrics read under the read lock; the
\* first three release it when the client has taken the answer.
Read(c) ==
  /\ Outside(mu, c)
  /\ mu' = RLock(mu, c)
  /\ UNCHANGED <<services, latency, scores, events, flight, health, samples>>

Sent(c) ==
  /\ c \in mu.reading
  /\ mu' = RUnlock(mu, c)
  /\ UNCHANGED <<services, latency, scores, events, flight, health, samples>>

\* What is behind address a fails, struggles or recovers.
Shift(a, status) ==
  /\ health' = [health EXCEPT ![a] = status]
  /\ UNCHANGED <<services, latency, scores, events, mu, flight, samples>>

-----------------------------------------------------------------------------

Next ==
  \/ \E s \in Services, a \in Addresses : LockToRegister(s, a) \/ Register(s, a)
  \/ Tick
  \/ Snapshot
  \/ \E p \in Probes :
       \/ Answer(p)
       \/ LockToRecord(p)
       \/ \E sample \in Latencies : Record(p, sample)
  \/ \E c \in Clients : Read(c) \/ Sent(c)
  \/ \E a \in Addresses, status \in HealthStatus : Shift(a, status)

Spec == Init /\ [][Next]_vars

\* The goroutines run; a GET ends (the client has a timeout); a goroutine that
\* keeps asking for the lock gets it (the mutex serves waiters in turn); and a
\* client takes its answer, or its connection breaks, in the end.
Fairness ==
  /\ WF_vars(Tick) /\ WF_vars(Snapshot)
  /\ \A s \in Services, a \in Addresses : WF_vars(Register(s, a))
  /\ \A p \in Probes :
       /\ WF_vars(Answer(p))
       /\ SF_vars(LockToRecord(p))
       /\ WF_vars(\E sample \in Latencies : Record(p, sample))
  /\ \A c \in Clients : WF_vars(Sent(c))

FairSpec == Spec /\ Fairness

-----------------------------------------------------------------------------
(* Properties.                                                             *)

ScoreRecord == [status : HealthStatus \cup {None},
                p50 : Latency, p95 : Latency, p99 : Latency]

EventRecord == [event_type : {"service.health", "service.down"},
                service_id : Services, status : HealthStatus]

ProbeRecord == [service : Services, address : Addresses, answer : HealthStatus \cup {None}]

\* Every variable has its type, and the events stay within their bound.
TypeOK ==
  /\ services \in [Services -> Addresses \cup {None}]
  /\ latency \in [Services -> Ring \cup {None}]
  /\ scores \in [Services -> ScoreRecord]
  /\ events \in Seq(EventRecord) /\ Len(events) =< EventCap
  /\ mu \in RWMutexOf(Probes \cup Registration, Clients \cup {"loop"})
  /\ flight \in [Probes -> ProbeRecord \cup {None}]
  /\ health \in [Addresses -> HealthStatus]
  /\ samples \in [Services -> Seq(Latencies)]

\* v is the p-th percentile of the samples by its definition: fewer than p per
\* cent of them are below v, and at least p per cent are not above it.
IsPercentile(v, window, p) ==
  LET n == Len(window)
      Below == {i \in 1 .. n : window[i] < v}
      NotAbove == {i \in 1 .. n : window[i] =< v}
  IN  /\ \E i \in 1 .. n : window[i] = v
      /\ 100 * Cardinality(Below) < p * n
      /\ 100 * Cardinality(NotAbove) >= p * n

\* The latencies a score shows are percentiles of the last RingSize samples of
\* its service, through wrap-arounds, re-registrations and the checks of other
\* services in between.
ScoreShowsLastSamples ==
  \A s \in Services : Scored(s) =>
    /\ IsPercentile(scores[s].p50, samples[s], 50)
    /\ IsPercentile(scores[s].p95, samples[s], 95)
    /\ IsPercentile(scores[s].p99, samples[s], 99)

\* Whoever reads the events and whoever reads the scores sees the same: the
\* newest event of a service carries the status of its score, and a service that
\* has a score has an event, unless the cut has taken it from a log that is full
\* with the events of others.
EventsAgreeWithScores ==
  \A s \in Services :
    /\ \A i \in 1 .. Len(events) :
         /\ events[i].service_id = s
         /\ \A k \in 1 .. i - 1 : events[k].service_id # s
         => scores[s].status = events[i].status
    /\ Scored(s) => \/ \E i \in 1 .. Len(events) : events[i].service_id = s
                    \/ Len(events) = EventCap

\* Outages are announced at once: a service.down event stands directly behind
\* the health event of the same check, whatever other checks run, and no
\* health event that says down lacks it until the cut takes it.
OutagesAnnounced ==
  \A i \in 1 .. Len(events) :
    /\ events[i].event_type = "service.down" =>
         i > 1 /\ events[i - 1] = HealthEvent(events[i].service_id, "down")
    /\ events[i].event_type = "service.health" /\ events[i].status = "down" =>
         IF i < Len(events) THEN events[i + 1] = DownEvent(events[i].service_id)
                            ELSE i = EventCap

\* The monitor notices: when the address of a service answers the same for
\* good, the score of the service says so for good.  Answers that were on
\* their way, from this address or an earlier one, do not stay.
VerdictsConverge ==
  \A s \in Services, a \in Addresses, status \in HealthStatus :
    <>[](services[s] = a /\ health[a] = status)
      => <>[](scores[s].status = status)

=============================================================================

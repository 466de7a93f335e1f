--------------------- MODULE HealingOrchestrator_proofs ---------------------
(***************************************************************************)
(* Proofs about the healing orchestrator for every set of services, every  *)
(* threshold, cooldown and history length.                                 *)
(*                                                                         *)
(* IInv is inductive.  The breaker's fields must agree before anything     *)
(* else can be shown: only because a half-open breaker still carries its   *)
(* failures does a failure re-open it, which both the contract and the age *)
(* of a reroute flag rest on.                                              *)
(***************************************************************************)
EXTENDS HealingOrchestrator, BoundedLogLemmas

IInv ==
  /\ TypeOK
  /\ BreakerConsistent
  /\ RerouteRestartsCooldown
  /\ IncidentsComplete

USE BreakerAssumption, HealingAssumption

-----------------------------------------------------------------------------
(* The methods of CircuitBreaker.                                          *)

\* What a new breaker is.
LEMMA NewBreakerAgrees == NewBreaker \in Breaker /\ Agrees(NewBreaker)
  BY DEF NewBreaker, Breaker, Agrees

\* record_failure keeps the fields in agreement; a failure of a breaker that
\* is not closed always leaves it open and freshly stamped.
LEMMA RecordFailureAgrees ==
  ASSUME NEW b \in Breaker, Agrees(b)
  PROVE  /\ RecordFailure(b) \in Breaker
         /\ Agrees(RecordFailure(b))
         /\ b.state # "closed" => RecordFailure(b).opened_at = 0
         /\ RecordFailure(b).state # "closed" =>
              RecordFailure(b).state = "open" /\ RecordFailure(b).opened_at = 0
<1>1. CASE b.failures + 1 >= Threshold
  <2> DEFINE opened == [state |-> "open", failures |-> b.failures + 1, successes |-> 0,
                        opened_at |-> 0]
  <2>1. RecordFailure(b) = opened
    BY <1>1 DEF RecordFailure
  <2>2. opened \in Breaker /\ Agrees(opened)
    BY <1>1 DEF Breaker, Agrees
  <2> QED
    BY <2>1, <2>2
<1>2. CASE b.failures + 1 < Threshold
  <2> DEFINE struck == [state |-> b.state, failures |-> b.failures + 1, successes |-> 0,
                        opened_at |-> b.opened_at]
  <2> DEFINE counted == [b EXCEPT !.failures = b.failures + 1]
  <2>1. counted \in Breaker
        /\ counted = [state |-> b.state, failures |-> b.failures + 1,
                      successes |-> b.successes, opened_at |-> b.opened_at]
    BY DEF Breaker
  <2>2. RecordFailure(b) = [counted EXCEPT !.successes = 0]
    BY <1>2 DEF RecordFailure, Breaker
  <2> HIDE DEF counted
  <2>3. RecordFailure(b) = struck
    BY <2>1, <2>2 DEF Breaker
  <2>4. b.state = "closed"
    BY <1>2 DEF Breaker, Agrees
  <2>5. struck \in Breaker /\ Agrees(struck)
    BY <1>2, <2>4 DEF Breaker, Agrees
  <2> QED
    BY <2>3, <2>4, <2>5
<1> QED
  BY <1>1, <1>2 DEF Breaker

\* tick keeps the fields in agreement and does not touch the stamp.
LEMMA TickAgrees ==
  ASSUME NEW b \in Breaker, Agrees(b)
  PROVE  /\ Tick(b) \in Breaker
         /\ Agrees(Tick(b))
         /\ Tick(b).opened_at = b.opened_at
         /\ Tick(b).state = "closed" <=> b.state = "closed"
         /\ Tick(b).failures = b.failures
         /\ Tick(b).state = "half_open" /\ b.state # "half_open" => Tick(b).successes = 0
         /\ b.state # "open" => Tick(b) = b
         /\ b.state = "open" /\ b.opened_at < Cooldown => Tick(b) = b
         /\ b.state = "open" /\ b.opened_at >= Cooldown => Tick(b).state = "half_open"
<1>1. CASE CooledDown(b)
  <2> DEFINE probing == [state |-> "half_open", failures |-> b.failures, successes |-> 0,
                         opened_at |-> b.opened_at]
  <2> DEFINE renamed == [b EXCEPT !.state = "half_open"]
  <2>1. renamed \in Breaker
        /\ renamed = [state |-> "half_open", failures |-> b.failures,
                      successes |-> b.successes, opened_at |-> b.opened_at]
    BY DEF Breaker
  <2>2. Tick(b) = [renamed EXCEPT !.successes = 0]
    BY <1>1 DEF Tick
  <2> HIDE DEF renamed
  <2>3. Tick(b) = probing
    BY <2>1, <2>2 DEF Breaker
  <2>4. probing \in Breaker /\ Agrees(probing)
    BY <1>1 DEF CooledDown, Breaker, Agrees
  <2> QED
    BY <1>1, <2>3, <2>4 DEF CooledDown, Breaker
<1>2. CASE ~CooledDown(b)
  <2>1. Tick(b) = b
    BY <1>2 DEF Tick
  <2> QED
    BY <1>2, <2>1 DEF CooledDown, Breaker, Agrees
<1> QED
  BY <1>1, <1>2

\* record_success keeps the fields in agreement; it closes the breaker or
\* leaves its stamp alone.
LEMMA RecordSuccessAgrees ==
  ASSUME NEW b \in Breaker, Agrees(b)
  PROVE  /\ RecordSuccess(b) \in Breaker
         /\ Agrees(RecordSuccess(b))
         /\ RecordSuccess(b).state = "closed" \/ RecordSuccess(b).opened_at = b.opened_at
         /\ RecordSuccess(b).state # "closed" => b.state # "closed"
  BY DEF RecordSuccess, NewBreaker, Breaker, Agrees

\* Time keeps the fields in agreement: it only makes a stamp older.
LEMMA AgedAgrees ==
  ASSUME NEW b \in Breaker, Agrees(b)
  PROVE  /\ Aged(b) \in Breaker
         /\ Agrees(Aged(b))
         /\ Aged(b).state = b.state
         /\ Aged(b).failures = b.failures
         /\ Aged(b).successes = b.successes
         /\ b.opened_at # None =>
              Aged(b).opened_at =
                IF b.opened_at < Cooldown THEN b.opened_at + 1 ELSE b.opened_at
  BY DEF Aged, Breaker, Agrees

-----------------------------------------------------------------------------
(* The inductive invariant, one group of variables after the other.        *)

Breakers == breakers \in [Services -> Breaker] /\ BreakerConsistent

\* Every handler leaves every breaker well-formed and its fields in agreement.
LEMMA BreakersStep ==
  ASSUME Breakers, [Next]_vars
  PROVE  Breakers'
<1> USE DEF Breakers, BreakerConsistent
<1>1. ASSUME NEW s \in Services, breakers' = [breakers EXCEPT ![s] = RecordFailure(@)]
      PROVE  Breakers'
  BY <1>1, RecordFailureAgrees
<1>2. ASSUME NEW s \in Services, NEW severity \in Severity,
             NEW recommended \in Recommendation, NEW incident \in Incidents,
             HandleAnomaly(s, severity, recommended, incident)
      PROVE  Breakers'
  BY <1>1, <1>2 DEF HandleAnomaly
<1>3. ASSUME NEW s \in Services, NEW incident \in Incidents, Scale(s, incident)
      PROVE  Breakers'
  BY <1>3 DEF Scale
<1>4. ASSUME NEW s \in Services, CircuitSuccess(s)
      PROVE  Breakers'
  <2>1. Tick(breakers[s]) \in Breaker /\ Agrees(Tick(breakers[s]))
    BY TickAgrees
  <2>2. /\ RecordSuccess(Tick(breakers[s])) \in Breaker
        /\ Agrees(RecordSuccess(Tick(breakers[s])))
    BY <2>1, RecordSuccessAgrees
  <2> QED
    BY <1>4, <2>2 DEF CircuitSuccess
<1>5. ASSUME NEW s \in Services, CircuitFailure(s)
      PROVE  Breakers'
  BY <1>1, <1>5 DEF CircuitFailure
<1>6. ASSUME NEW s \in Services, Circuit(s)
      PROVE  Breakers'
  BY <1>6, TickAgrees DEF Circuit
<1>7. CASE Advance
  BY <1>7, AgedAgrees DEF Advance
<1>8. CASE UNCHANGED vars
  BY <1>8 DEF vars
<1> QED
  BY <1>2, <1>3, <1>4, <1>5, <1>6, <1>7, <1>8 DEF Next

History == events \in Seq(Event) /\ Len(events) =< EventCap /\ IncidentsComplete

\* A single record pushed onto the history keeps incidents complete unless it
\* is a start (record_event as scale calls it).
LEMMA PushKeepsHistory ==
  ASSUME History, NEW e \in Event, e.type # "healing.started",
         events' = Push(events, e, EventCap)
  PROVE  History'
<1>1. /\ events' \in Seq(Event)
      /\ Len(events') =< EventCap
      /\ events'[1] = e
      /\ \A i \in 2 .. Len(events') :
           i - 1 \in 1 .. Len(events) /\ events'[i] = events[i - 1]
  BY PushProperties DEF History
<1>2. ASSUME NEW i \in 1 .. Len(events'), events'[i].type = "healing.started"
      PROVE  /\ i > 1
             /\ events'[i - 1].type = "healing.complete"
             /\ events'[i - 1].service = events'[i].service
             /\ events'[i - 1].incident = events'[i].incident
  <2>1. i # 1
    BY <1>1, <1>2
  <2>2. i \in 2 .. Len(events')
    BY <2>1, <1>1
  <2>3. i - 1 \in 1 .. Len(events) /\ events[i - 1].type = "healing.started"
    BY <1>1, <1>2, <2>2
  <2>4. /\ i - 1 > 1
        /\ events[i - 2].type = "healing.complete"
        /\ events[i - 2].service = events[i - 1].service
        /\ events[i - 2].incident = events[i - 1].incident
    BY <2>3 DEF History, IncidentsComplete
  <2>5. i - 1 \in 2 .. Len(events') /\ events'[i - 1] = events[i - 2]
    BY <2>2, <2>4, <1>1
  <2> QED
    BY <1>1, <2>2, <2>4, <2>5
<1> QED
  BY <1>1, <1>2 DEF History, IncidentsComplete

\* So do a start and its completion pushed one after the other (record_event
\* as handle_anomaly calls it).
LEMMA PushPairKeepsHistory ==
  ASSUME History, NEW started \in Event, NEW completed \in Event,
         completed.type = "healing.complete",
         completed.service = started.service, completed.incident = started.incident,
         events' = Push(Push(events, started, EventCap), completed, EventCap)
  PROVE  History'
<1> DEFINE half == Push(events, started, EventCap)
<1>1. /\ half \in Seq(Event)
      /\ Len(half) =< EventCap
      /\ half[1] = started
      /\ \A i \in 2 .. Len(half) :
           i - 1 \in 1 .. Len(events) /\ half[i] = events[i - 1]
  BY PushProperties DEF History
<1>2. /\ Push(half, completed, EventCap) \in Seq(Event)
      /\ Len(Push(half, completed, EventCap)) =< EventCap
      /\ Push(half, completed, EventCap)[1] = completed
      /\ \A i \in 2 .. Len(Push(half, completed, EventCap)) :
           i - 1 \in 1 .. Len(half) /\ Push(half, completed, EventCap)[i] = half[i - 1]
  <2> HIDE DEF half
  <2> QED
    BY <1>1, PushProperties
<1> HIDE DEF half
<1>3. /\ events' \in Seq(Event)
      /\ Len(events') =< EventCap
      /\ events'[1] = completed
      /\ \A i \in 2 .. Len(events') :
           i - 1 \in 1 .. Len(half) /\ events'[i] = half[i - 1]
  BY <1>2 DEF half
<1>4. ASSUME NEW i \in 1 .. Len(events'), events'[i].type = "healing.started"
      PROVE  /\ i > 1
             /\ events'[i - 1].type = "healing.complete"
             /\ events'[i - 1].service = events'[i].service
             /\ events'[i - 1].incident = events'[i].incident
  <2>1. i \in 2 .. Len(events')
    BY <1>3, <1>4
  <2>2. CASE i = 2
    BY <1>1, <1>3, <2>1, <2>2
  <2>3. CASE i > 2
    <3>1. i - 1 \in 2 .. Len(half) /\ events'[i] = half[i - 1]
      BY <1>3, <2>1, <2>3
    <3>2. i - 2 \in 1 .. Len(events) /\ events'[i] = events[i - 2]
      BY <1>1, <3>1
    <3>3. /\ i - 2 > 1
          /\ events[i - 3].type = "healing.complete"
          /\ events[i - 3].service = events[i - 2].service
          /\ events[i - 3].incident = events[i - 2].incident
      BY <1>4, <3>2 DEF History, IncidentsComplete
    <3>4. i - 2 \in 2 .. Len(half) /\ half[i - 2] = events[i - 3]
      BY <1>1, <3>1, <3>3
    <3>5. i - 1 \in 2 .. Len(events') /\ events'[i - 1] = half[i - 2]
      BY <1>3, <2>1, <2>3
    <3> QED
      BY <3>2, <3>3, <3>4, <3>5, <2>1
  <2> QED
    BY <2>1, <2>2, <2>3
<1> QED
  BY <1>3, <1>4 DEF History, IncidentsComplete

\* Every handler keeps the history's incidents complete.
LEMMA HistoryStep ==
  ASSUME History, [Next]_vars
  PROVE  History'
<1>1. ASSUME NEW s \in Services, NEW severity \in Severity,
             NEW recommended \in Recommendation, NEW incident \in Incidents,
             HandleAnomaly(s, severity, recommended, incident)
      PROVE  History'
  <2> DEFINE started == [type |-> "healing.started", service |-> s, incident |-> incident]
  <2> DEFINE completed == [type |-> "healing.complete", service |-> s, incident |-> incident,
                           action |-> Chosen(severity, recommended)]
  <2>1. Chosen(severity, recommended) \in Action
    BY DEF Chosen, Action, Severity, Recommendation
  <2>2. started \in Event /\ completed \in Event
    BY <2>1 DEF Event
  <2>3. events' = Push(Push(events, started, EventCap), completed, EventCap)
    BY <1>1 DEF HandleAnomaly
  <2>4. /\ completed.type = "healing.complete"
        /\ completed.service = started.service /\ completed.incident = started.incident
    OBVIOUS
  <2> HIDE DEF started, completed
  <2> QED
    BY <2>2, <2>3, <2>4, PushPairKeepsHistory
<1>2. ASSUME NEW s \in Services, NEW incident \in Incidents, Scale(s, incident)
      PROVE  History'
  <2> DEFINE record == [type |-> "scale.event", service |-> s, incident |-> incident]
  <2>1. record \in Event /\ record.type # "healing.started"
    BY DEF Event
  <2>2. events' = Push(events, record, EventCap)
    BY <1>2 DEF Scale
  <2> HIDE DEF record
  <2> QED
    BY <2>1, <2>2, PushKeepsHistory
<1>3. ASSUME UNCHANGED events
      PROVE  History'
  BY <1>3 DEF History, IncidentsComplete
<1> QED
  BY <1>1, <1>2, <1>3 DEF Next, vars, CircuitSuccess, CircuitFailure, Circuit, Advance

Flags ==
  /\ reroute \in [Services -> (0 .. RerouteTtl + 1) \cup {None}]
  /\ gauge \in [Services -> {"closed", "open", "half_open"}]
  /\ RerouteRestartsCooldown

\* Every handler keeps a tripped circuit no older than its service's flag.
LEMMA FlagsStep ==
  ASSUME Breakers, Flags, [Next]_vars
  PROVE  Flags'
<1> USE DEF Flags, RerouteRestartsCooldown, Breakers, BreakerConsistent
<1>1. ASSUME NEW s \in Services, NEW severity \in Severity,
             NEW recommended \in Recommendation, NEW incident \in Incidents,
             HandleAnomaly(s, severity, recommended, incident)
      PROVE  Flags'
  <2>1. /\ RecordFailure(breakers[s]) \in Breaker
        /\ RecordFailure(breakers[s]).state # "closed" =>
             RecordFailure(breakers[s]).opened_at = 0
    BY RecordFailureAgrees
  <2>2. /\ breakers' = [breakers EXCEPT ![s] = RecordFailure(breakers[s])]
        /\ gauge' = [gauge EXCEPT ![s] = RecordFailure(breakers[s]).state]
    BY <1>1 DEF HandleAnomaly
  <2>3. gauge' \in [Services -> {"closed", "open", "half_open"}]
    BY <2>1, <2>2 DEF Breaker
  <2>4. /\ reroute' \in [Services -> (0 .. RerouteTtl + 1) \cup {None}]
        /\ \A t \in Services : t # s => reroute'[t] = reroute[t]
    BY <1>1 DEF HandleAnomaly, SetReroute, ReadReroute
  <2>5. ASSUME NEW t \in Services, breakers'[t].state # "closed", reroute'[t] # None
        PROVE  breakers'[t].opened_at =< reroute'[t]
    <3>1. CASE t = s
      <4>1. breakers'[t].opened_at = 0
        BY <2>1, <2>2, <2>5, <3>1
      <4>2. reroute'[t] \in 0 .. RerouteTtl + 1
        BY <2>4, <2>5
      <4> QED
        BY <4>1, <4>2
    <3>2. CASE t # s
      BY <2>2, <2>4, <2>5, <3>2
    <3> QED
      BY <3>1, <3>2
  <2> QED
    BY <2>3, <2>4, <2>5
<1>2. ASSUME NEW s \in Services, NEW incident \in Incidents, Scale(s, incident)
      PROVE  Flags'
  BY <1>2 DEF Scale
<1>3. ASSUME NEW s \in Services, CircuitSuccess(s)
      PROVE  Flags'
  <2>1. /\ Tick(breakers[s]) \in Breaker /\ Agrees(Tick(breakers[s]))
        /\ Tick(breakers[s]).opened_at = breakers[s].opened_at
        /\ Tick(breakers[s]).state = "closed" <=> breakers[s].state = "closed"
    BY TickAgrees
  <2> DEFINE new == RecordSuccess(Tick(breakers[s]))
  <2>2. /\ new.state # "closed" => breakers[s].state # "closed"
        /\ new.state # "closed" => new.opened_at = breakers[s].opened_at
    BY <2>1, RecordSuccessAgrees
  <2>3. breakers' = [breakers EXCEPT ![s] = new] /\ UNCHANGED <<reroute, gauge>>
    BY <1>3 DEF CircuitSuccess
  <2> HIDE DEF new
  <2> QED
    BY <2>2, <2>3
<1>4. ASSUME NEW s \in Services, CircuitFailure(s)
      PROVE  Flags'
  <2>1. /\ RecordFailure(breakers[s]).state # "closed" =>
             RecordFailure(breakers[s]).opened_at = 0
    BY RecordFailureAgrees
  <2>2. /\ breakers' = [breakers EXCEPT ![s] = RecordFailure(breakers[s])]
        /\ UNCHANGED <<reroute, gauge>>
    BY <1>4 DEF CircuitFailure
  <2> QED
    BY <2>1, <2>2
<1>5. ASSUME NEW s \in Services, Circuit(s)
      PROVE  Flags'
  <2>1. /\ Tick(breakers[s]).opened_at = breakers[s].opened_at
        /\ Tick(breakers[s]).state = "closed" <=> breakers[s].state = "closed"
    BY TickAgrees
  <2>2. /\ breakers' = [breakers EXCEPT ![s] = Tick(breakers[s])]
        /\ UNCHANGED gauge
    BY <1>5 DEF Circuit
  <2>3. /\ reroute' \in [Services -> (0 .. RerouteTtl + 1) \cup {None}]
        /\ \A t \in Services : reroute'[t] # None => reroute'[t] = reroute[t]
    BY <1>5 DEF Circuit, ReadReroute
  <2> QED
    BY <2>1, <2>2, <2>3
<1>6. CASE Advance
  <2>1. ASSUME NEW t \in Services
        PROVE  reroute'[t] =
                 IF reroute[t] = None THEN None
                 ELSE IF reroute[t] =< RerouteTtl THEN reroute[t] + 1 ELSE reroute[t]
    BY <1>6 DEF Advance
  <2>2. reroute' \in [Services -> (0 .. RerouteTtl + 1) \cup {None}] /\ UNCHANGED gauge
    BY <1>6 DEF Advance
  <2>3. ASSUME NEW t \in Services, breakers'[t].state # "closed", reroute'[t] # None
        PROVE  breakers'[t].opened_at =< reroute'[t]
    <3>1. breakers'[t] = Aged(breakers[t])
      BY <1>6 DEF Advance
    <3>2. breakers[t].state # "closed" /\ breakers[t].opened_at # None
      BY <2>3, <3>1, AgedAgrees DEF Agrees
    <3>3. breakers'[t].opened_at =
            IF breakers[t].opened_at < Cooldown THEN breakers[t].opened_at + 1
                                                ELSE breakers[t].opened_at
      BY <3>1, <3>2, AgedAgrees
    <3>4. /\ breakers[t].opened_at \in 0 .. Cooldown
          /\ reroute[t] \in 0 .. RerouteTtl + 1
          /\ breakers[t].opened_at =< reroute[t]
      BY <2>1, <2>3, <3>2 DEF Breaker
    <3> QED
      BY <2>1, <3>3, <3>4
  <2> QED
    BY <2>2, <2>3
<1>7. CASE UNCHANGED vars
  BY <1>7 DEF vars
<1> QED
  BY <1>1, <1>2, <1>3, <1>4, <1>5, <1>6, <1>7 DEF Next

-----------------------------------------------------------------------------
(* The theorems about behaviours.                                          *)

\* The parts make up the inductive invariant.
LEMMA IInvParts == IInv <=> Breakers /\ History /\ Flags
  BY DEF IInv, Breakers, History, Flags, TypeOK

\* The inductive invariant holds in every reachable state.
THEOREM IInvHolds == Spec => []IInv
<1>1. Init => IInv
  <2> SUFFICES ASSUME Init PROVE IInv
    OBVIOUS
  <2>1. Breakers
    BY NewBreakerAgrees DEF Init, Breakers, BreakerConsistent
  <2>2. History
    BY DEF Init, History, IncidentsComplete
  <2>3. Flags
    BY DEF Init, Flags, RerouteRestartsCooldown
  <2> QED
    BY <2>1, <2>2, <2>3, IInvParts
<1>2. IInv /\ [Next]_vars => IInv'
  <2> SUFFICES ASSUME IInv, [Next]_vars PROVE IInv'
    OBVIOUS
  <2>1. Breakers' /\ History' /\ Flags'
    BY IInvParts, BreakersStep, HistoryStep, FlagsStep
  <2> QED
    BY <2>1 DEF IInv, Breakers, History, Flags, TypeOK
<1> QED
  BY <1>1, <1>2, PTL DEF Spec

\* Every variable of the orchestrator keeps its type.
THEOREM TypeCorrect == Spec => []TypeOK
<1>1. IInv => TypeOK
  BY DEF IInv
<1> QED
  BY <1>1, IInvHolds, PTL

\* The four fields of every breaker agree in every reachable state.
THEOREM BreakersConsistent == Spec => []BreakerConsistent
<1>1. IInv => BreakerConsistent
  BY DEF IInv
<1> QED
  BY <1>1, IInvHolds, PTL

\* The cooldown of a rerouted service starts over with its last restart.
THEOREM RestartsCooldown == Spec => []RerouteRestartsCooldown
<1>1. IInv => RerouteRestartsCooldown
  BY DEF IInv
<1> QED
  BY <1>1, IInvHolds, PTL

\* Every incident in the history that started has completed.
THEOREM StartedIncidentsComplete == Spec => []IncidentsComplete
<1>1. IInv => IncidentsComplete
  BY DEF IInv
<1> QED
  BY <1>1, IInvHolds, PTL

-----------------------------------------------------------------------------
(* The breakers implement the contract.                                    *)

\* Recording a failure is a strike against a closed circuit or a trip.
LEMMA FailureRefines ==
  ASSUME Breakers, NEW s \in Services,
         breakers' = [breakers EXCEPT ![s] = RecordFailure(@)]
  PROVE  Contract!Strike(s) \/ Contract!Trip(s)
<1> DEFINE b == breakers[s]
<1>1. b \in Breaker /\ Agrees(b)
  BY DEF Breakers, BreakerConsistent
<1>2. CASE b.failures + 1 >= Threshold
  <2>1. /\ breakers'[s].state = "open"
        /\ breakers'[s].successes = 0
        /\ breakers'[s].opened_at = 0
    BY <1>2 DEF RecordFailure, Breakers
  <2>2. \A t \in Services : t # s => breakers'[t] = breakers[t]
    BY DEF Breakers
  <2>3. b.state # "closed" \/ (b.state = "closed" /\ b.failures + 1 >= Threshold)
    BY <1>2
  <2> QED
    BY <2>1, <2>2, <2>3 DEF Contract!Trip, Breakers
<1>3. CASE b.failures + 1 < Threshold
  <2>1. b.state = "closed"
    BY <1>1, <1>3 DEF Agrees, Breaker
  <2>2. /\ breakers'[s].state = "closed"
        /\ breakers'[s].failures = b.failures + 1
    BY <1>1, <1>3, <2>1 DEF RecordFailure, Breakers, Breaker
  <2>3. \A t \in Services : t # s => breakers'[t] = breakers[t]
    BY DEF Breakers
  <2> QED
    BY <1>1, <1>3, <2>1, <2>2, <2>3 DEF Contract!Strike, Breakers, Breaker
<1> QED
  BY <1>1, <1>2, <1>3 DEF Breaker

\* A success forgives a closed circuit, is credited to one that has cooled
\* down or closes it, and leaves the others alone.
LEMMA SuccessRefines ==
  ASSUME Breakers, NEW s \in Services,
         breakers' = [breakers EXCEPT ![s] = RecordSuccess(Tick(@))]
  PROVE  Contract!Next \/ UNCHANGED Contract!vars
<1> DEFINE b == breakers[s]
<1> DEFINE t == Tick(b)
<1>1. b \in Breaker /\ Agrees(b)
  BY DEF Breakers, BreakerConsistent
<1>2. /\ t \in Breaker /\ Agrees(t)
      /\ t.state = "closed" <=> b.state = "closed"
      /\ t.opened_at = b.opened_at
      /\ t.failures = b.failures
      /\ t.state = "half_open" /\ b.state # "half_open" => t.successes = 0
      /\ b.state # "open" => t = b
  BY <1>1, TickAgrees
<1>3. breakers'[s] = RecordSuccess(t)
  BY DEF Breakers
<1>4. \A u \in Services : u # s => breakers'[u] = breakers[u]
  BY DEF Breakers
<1> HIDE DEF t
<1>5. CASE t.state = "closed"
  <2>1. b.state = "closed"
    BY <1>2, <1>5
  <2>2. breakers'[s].state = "closed" /\ breakers'[s].failures = 0
    BY <1>2, <1>3, <1>5 DEF RecordSuccess, Breaker
  <2>3. Contract!Forgive(s)
    BY <1>4, <2>1, <2>2 DEF Contract!Forgive, Breakers
  <2> QED
    BY <2>3 DEF Contract!Next
<1>6. CASE t.state = "half_open" /\ t.successes + 1 < SuccessesToClose
  <2>1. breakers'[s] = [t EXCEPT !.successes = t.successes + 1]
    BY <1>2, <1>3, <1>6 DEF RecordSuccess, Breaker
  <2>2. /\ breakers'[s].state = "half_open"
        /\ breakers'[s].successes = t.successes + 1
        /\ breakers'[s].opened_at = b.opened_at
    BY <1>2, <1>6, <2>1 DEF Breaker
  <2>3. b.state # "closed" /\ b.opened_at = Cooldown
    BY <1>2, <1>6 DEF Agrees
  <2>4. t.successes = IF b.state = "half_open" THEN b.successes ELSE 0
    BY <1>2, <1>6
  <2>5. Cooldown >= Cooldown
    OBVIOUS
  <2>6. Contract!Credit(s)
    BY <1>4, <1>6, <2>2, <2>3, <2>4, <2>5 DEF Contract!Credit, Breakers
  <2> QED
    BY <2>6 DEF Contract!Next
<1>7. CASE t.state = "half_open" /\ t.successes + 1 >= SuccessesToClose
  <2>1. breakers'[s] = NewBreaker
    BY <1>2, <1>3, <1>7 DEF RecordSuccess, Breaker
  <2>2. b.state # "closed" /\ b.opened_at = Cooldown
    BY <1>2, <1>7 DEF Agrees
  <2>3. t.successes = IF b.state = "half_open" THEN b.successes ELSE 0
    BY <1>2, <1>7
  <2>4. Cooldown >= Cooldown
    OBVIOUS
  <2>5. breakers'[s].state = "closed" /\ breakers'[s].failures = 0
    BY <2>1 DEF NewBreaker
  <2>6. Contract!Close(s)
    BY <1>4, <1>7, <2>2, <2>3, <2>4, <2>5 DEF Contract!Close, Breakers
  <2> QED
    BY <2>6 DEF Contract!Next
<1>8. CASE t.state = "open"
  <2>1. breakers'[s] = t
    BY <1>3, <1>8 DEF RecordSuccess
  <2>2. b.state = "open"
    BY <1>1, <1>2, <1>8 DEF Breaker
  <2>3. UNCHANGED Contract!vars
    BY <1>2, <1>4, <1>8, <2>1, <2>2 DEF Contract!vars, Breakers
  <2> QED
    BY <2>3
<1> QED
  BY <1>2, <1>5, <1>6, <1>7, <1>8 DEF Breaker

\* A tick alone is invisible to the contract.
LEMMA TickRefines ==
  ASSUME Breakers, NEW s \in Services, breakers' = [breakers EXCEPT ![s] = Tick(@)]
  PROVE  UNCHANGED Contract!vars
<1>1. breakers[s] \in Breaker /\ Agrees(breakers[s])
  BY DEF Breakers, BreakerConsistent
<1>2. /\ breakers'[s] = Tick(breakers[s])
      /\ \A u \in Services : u # s => breakers'[u] = breakers[u]
  BY DEF Breakers
<1>3. /\ breakers'[s].state = "closed" <=> breakers[s].state = "closed"
      /\ breakers'[s].opened_at = breakers[s].opened_at
      /\ breakers'[s].failures = breakers[s].failures
      /\ (IF breakers'[s].state = "half_open" THEN breakers'[s].successes ELSE 0)
           = (IF breakers[s].state = "half_open" THEN breakers[s].successes ELSE 0)
  BY <1>1, <1>2, TickAgrees
<1> QED
  BY <1>2, <1>3 DEF Contract!vars, Breakers

\* Time passes in the contract when it passes for the breakers.
LEMMA AdvanceRefines ==
  ASSUME Breakers, Advance
  PROVE  Contract!Wait
<1>1. ASSUME NEW s \in Services
      PROVE  /\ breakers'[s].state = breakers[s].state
             /\ breakers'[s].failures = breakers[s].failures
             /\ breakers'[s].successes = breakers[s].successes
             /\ breakers[s].state # "closed" =>
                  breakers'[s].opened_at =
                    IF breakers[s].opened_at < Cooldown THEN breakers[s].opened_at + 1
                                                        ELSE breakers[s].opened_at
  <2>1. breakers[s] \in Breaker /\ Agrees(breakers[s])
    BY DEF Breakers, BreakerConsistent
  <2>2. breakers'[s] = Aged(breakers[s])
    BY DEF Advance
  <2>3. breakers[s].state # "closed" => breakers[s].opened_at # None
    BY <2>1 DEF Agrees
  <2> QED
    BY <2>1, <2>2, <2>3, AgedAgrees
<1> QED
  BY <1>1 DEF Contract!Wait

\* The orchestrator's breakers keep the promise of BreakerContract, whatever
\* the callers do and whenever they do it.
THEOREM ImplementsContract == Spec => ContractSpec
<1>1. Init => Contract!Init
  <2> SUFFICES ASSUME Init PROVE Contract!Init
    OBVIOUS
  <2>1. \A s \in Services : breakers[s].state = "closed" /\ breakers[s].failures = 0
    BY DEF Init, NewBreaker
  <2> QED
    BY <2>1 DEF Contract!Init
<1>2. IInv /\ [Next]_vars => [Contract!Next]_(Contract!vars)
  <2> SUFFICES ASSUME IInv, [Next]_vars
               PROVE  Contract!Next \/ UNCHANGED Contract!vars
    OBVIOUS
  <2>1. Breakers
    BY IInvParts
  <2>2. ASSUME NEW s \in Services, NEW severity \in Severity,
               NEW recommended \in Recommendation, NEW incident \in Incidents,
               HandleAnomaly(s, severity, recommended, incident)
        PROVE  Contract!Next
    BY <2>1, <2>2, FailureRefines DEF HandleAnomaly, Contract!Next
  <2>3. ASSUME NEW s \in Services, NEW incident \in Incidents, Scale(s, incident)
        PROVE  UNCHANGED Contract!vars
    BY <2>3 DEF Scale, Contract!vars
  <2>4. ASSUME NEW s \in Services, CircuitSuccess(s)
        PROVE  Contract!Next \/ UNCHANGED Contract!vars
    BY <2>1, <2>4, SuccessRefines DEF CircuitSuccess
  <2>5. ASSUME NEW s \in Services, CircuitFailure(s)
        PROVE  Contract!Next
    BY <2>1, <2>5, FailureRefines DEF CircuitFailure, Contract!Next
  <2>6. ASSUME NEW s \in Services, Circuit(s)
        PROVE  UNCHANGED Contract!vars
    BY <2>1, <2>6, TickRefines DEF Circuit
  <2>7. CASE Advance
    BY <2>1, <2>7, AdvanceRefines DEF Contract!Next
  <2>8. CASE UNCHANGED vars
    BY <2>8 DEF vars, Contract!vars
  <2> QED
    BY <2>2, <2>3, <2>4, <2>5, <2>6, <2>7, <2>8 DEF Next
<1> QED
  BY <1>1, <1>2, IInvHolds, PTL DEF Spec, ContractSpec, Contract!Spec

=============================================================================

------------------------ MODULE HealthMonitor_proofs ------------------------
(***************************************************************************)
(* Proofs about the health monitor, for any number of services, addresses, *)
(* goroutines and clients, any length of the log and any size of the ring: *)
(* first about the events, then the lock, then the percentiles.            *)
(***************************************************************************)
EXTENDS HealthMonitor, BoundedLogLemmas, FiniteSetTheorems, FunctionTheorems,
        SequenceTheorems

-----------------------------------------------------------------------------
(* The inductive invariant.                                                *)

\* The types the events depend on.
EventTypes ==
  /\ services \in [Services -> Addresses \cup {None}]
  /\ scores = [s \in Services |-> scores[s]]
  /\ events \in Seq(EventRecord) /\ Len(events) =< EventCap
  /\ mu \in RWMutexOf(Probes \cup Registration, Clients \cup {"loop"})
  /\ flight \in [Probes -> ProbeRecord \cup {None}]
  /\ health \in [Addresses -> HealthStatus]

\* A goroutine that has the lock, or waits for it, has its answer.
WriterAnswered ==
  mu.writer \in Probes => flight[mu.writer] # None /\ flight[mu.writer].answer # None

IInv ==
  /\ EventTypes
  /\ WriterAnswered
  /\ EventsAgreeWithScores
  /\ OutagesAnnounced

-----------------------------------------------------------------------------
(* What a check adds to the events.                                        *)

\* A health event is inserted when the service is not down.
LEMMA EmittedUp ==
  ASSUME EventTypes, NEW s \in Services, NEW status \in HealthStatus, status # "down"
  PROVE  LET new == Emitted(s, status)
         IN  /\ new \in Seq(EventRecord)
             /\ Len(new) = IF Len(events) < EventCap THEN Len(events) + 1 ELSE EventCap
             /\ new[1] = HealthEvent(s, status)
             /\ \A i \in 2 .. Len(new) : i - 1 \in 1 .. Len(events) /\ new[i] = events[i - 1]
<1>1. HealthEvent(s, status) \in EventRecord
  BY DEF HealthEvent, EventRecord
<1>2. events \in Seq(EventRecord) /\ Len(events) =< EventCap /\ EventCap \in Nat \ {0}
  BY MonitorAssumption DEF EventTypes
<1> DEFINE new == Push(events, HealthEvent(s, status), EventCap)
<1>3. /\ new \in Seq(EventRecord)
      /\ Len(new) = IF Len(events) < EventCap THEN Len(events) + 1 ELSE EventCap
      /\ new[1] = HealthEvent(s, status)
      /\ \A i \in 2 .. Len(new) : i - 1 \in 1 .. Len(events) /\ new[i] = events[i - 1]
  BY <1>1, <1>2, PushProperties, PushLength
<1>4. Emitted(s, status) = new
  BY DEF Emitted, emitLocked
<1> HIDE DEF new
<1> QED
  BY <1>3, <1>4

\* The outage is inserted, and the health event in front of it.
LEMMA EmittedDown ==
  ASSUME EventTypes, NEW s \in Services
  PROVE  LET new == Emitted(s, "down")
         IN  /\ new \in Seq(EventRecord)
             /\ Len(new) = IF Len(events) + 1 < EventCap THEN Len(events) + 2 ELSE EventCap
             /\ Len(new) >= 2
             /\ new[1] = HealthEvent(s, "down") /\ new[2] = DownEvent(s)
             /\ \A i \in 3 .. Len(new) : i - 2 \in 1 .. Len(events) /\ new[i] = events[i - 2]
<1>1. HealthEvent(s, "down") \in EventRecord /\ DownEvent(s) \in EventRecord
  BY DEF HealthEvent, DownEvent, EventRecord, HealthStatus
<1>2. /\ events \in Seq(EventRecord) /\ Len(events) \in Nat /\ Len(events) =< EventCap
      /\ EventCap \in Nat \ {0} /\ EventCap # 1
  BY MonitorAssumption DEF EventTypes
<1> DEFINE mid == Push(events, DownEvent(s), EventCap)
<1> DEFINE new == Push(mid, HealthEvent(s, "down"), EventCap)
<1>3. EventCap \in Nat \ {0} /\ events \in Seq(EventRecord) /\ Len(events) =< EventCap
  BY <1>2
<1>4. Len(mid) = IF Len(events) < EventCap THEN Len(events) + 1 ELSE EventCap
  BY <1>1, <1>3, PushLength
<1>5. /\ mid \in Seq(EventRecord) /\ Len(mid) =< EventCap
      /\ mid[1] = DownEvent(s)
      /\ \A i \in 2 .. Len(mid) : i - 1 \in 1 .. Len(events) /\ mid[i] = events[i - 1]
  BY <1>1, <1>3, PushProperties
<1> HIDE DEF mid
<1>6. Len(new) = IF Len(mid) < EventCap THEN Len(mid) + 1 ELSE EventCap
  BY <1>1, <1>3, <1>5, PushLength
<1>7. /\ new \in Seq(EventRecord)
      /\ new[1] = HealthEvent(s, "down")
      /\ \A i \in 2 .. Len(new) : i - 1 \in 1 .. Len(mid) /\ new[i] = mid[i - 1]
  BY <1>1, <1>3, <1>5, PushProperties
<1>8. Emitted(s, "down") = new
  BY DEF Emitted, emitLocked, mid
<1> HIDE DEF new
<1>9. /\ Len(new) = IF Len(events) + 1 < EventCap THEN Len(events) + 2 ELSE EventCap
      /\ Len(new) >= 2 /\ Len(new) \in Nat /\ Len(mid) \in Nat
  BY <1>2, <1>5, <1>7, <1>4, <1>6
<1>10. new[2] = DownEvent(s)
  BY <1>5, <1>7, <1>9
<1>11. ASSUME NEW i \in 3 .. Len(new)
      PROVE  i - 2 \in 1 .. Len(events) /\ new[i] = events[i - 2]
  <2>1. i \in 2 .. Len(new) /\ (i - 1) - 1 = i - 2 /\ i - 1 >= 2
    BY <1>9
  <2>2. i - 1 \in 2 .. Len(mid) /\ new[i] = mid[i - 1]
    BY <1>7, <1>9, <2>1
  <2>3. (i - 1) - 1 \in 1 .. Len(events) /\ mid[i - 1] = events[(i - 1) - 1]
    BY <1>5, <2>2
  <2> QED
    BY <2>1, <2>2, <2>3
<1> QED
  BY <1>7, <1>8, <1>9, <1>10, <1>11

\* Outages stay announced when a check is recorded.
LEMMA AnnouncedKept ==
  ASSUME EventTypes, OutagesAnnounced, NEW s \in Services, NEW status \in HealthStatus,
         events' = Emitted(s, status)
  PROVE  OutagesAnnounced'
<1> DEFINE new == Emitted(s, status)
<1>0. /\ events \in Seq(EventRecord) /\ Len(events) \in Nat /\ Len(events) =< EventCap
      /\ EventCap \in Nat \ {0, 1}
  BY MonitorAssumption DEF EventTypes
<1>1. CASE status # "down"
  <2>1. /\ new \in Seq(EventRecord)
        /\ Len(new) = IF Len(events) < EventCap THEN Len(events) + 1 ELSE EventCap
        /\ new[1] = HealthEvent(s, status)
        /\ \A i \in 2 .. Len(new) : i - 1 \in 1 .. Len(events) /\ new[i] = events[i - 1]
    BY <1>1, EmittedUp
  <2> HIDE DEF new
  <2>2. ASSUME NEW i \in 1 .. Len(new)
        PROVE  /\ new[i].event_type = "service.down" =>
                    i > 1 /\ new[i - 1] = HealthEvent(new[i].service_id, "down")
               /\ new[i].event_type = "service.health" /\ new[i].status = "down" =>
                    IF i < Len(new) THEN new[i + 1] = DownEvent(new[i].service_id)
                                    ELSE i = EventCap
    <3>1. CASE i = 1
      BY <1>1, <2>1, <3>1 DEF HealthEvent
    <3>2. CASE i # 1
      <4>1. i \in 2 .. Len(new) /\ Len(new) \in Nat /\ i - 1 \in 1 .. Len(events) /\ new[i] = events[i - 1]
        BY <1>0, <2>1, <3>2
      <4>2. new[i].event_type = "service.down" =>
              i - 1 > 1 /\ events[(i - 1) - 1] = HealthEvent(new[i].service_id, "down")
        BY <4>1 DEF OutagesAnnounced
      <4>3. i - 1 > 1 => new[i - 1] = events[(i - 1) - 1]
        BY <2>1, <4>1
      <4>4. new[i].event_type = "service.health" /\ new[i].status = "down" =>
              IF i - 1 < Len(events) THEN events[(i - 1) + 1] = DownEvent(new[i].service_id)
                                     ELSE i - 1 = EventCap
        BY <4>1 DEF OutagesAnnounced
      <4>5. i < Len(new) => i + 1 \in 2 .. Len(new) /\ new[i + 1] = events[(i + 1) - 1]
                            /\ i - 1 < Len(events) /\ (i + 1) - 1 = (i - 1) + 1
        BY <1>0, <2>1, <4>1
      <4>6. i >= Len(new) => i = Len(new) /\ i - 1 # EventCap /\ (i - 1 < Len(events) => i = EventCap)
        BY <1>0, <2>1, <4>1
      <4> QED
        BY <4>1, <4>2, <4>3, <4>4, <4>5, <4>6
    <3> QED
      BY <3>1, <3>2
  <2>3. events' = new
    BY DEF new
  <2> QED
    BY <2>2, <2>3 DEF OutagesAnnounced
<1>2. CASE status = "down"
  <2>1. /\ new \in Seq(EventRecord)
        /\ Len(new) = IF Len(events) + 1 < EventCap THEN Len(events) + 2 ELSE EventCap
        /\ Len(new) >= 2
        /\ new[1] = HealthEvent(s, "down") /\ new[2] = DownEvent(s)
        /\ \A i \in 3 .. Len(new) : i - 2 \in 1 .. Len(events) /\ new[i] = events[i - 2]
    BY <1>2, EmittedDown
  <2> HIDE DEF new
  <2>2. ASSUME NEW i \in 1 .. Len(new)
        PROVE  /\ new[i].event_type = "service.down" =>
                    i > 1 /\ new[i - 1] = HealthEvent(new[i].service_id, "down")
               /\ new[i].event_type = "service.health" /\ new[i].status = "down" =>
                    IF i < Len(new) THEN new[i + 1] = DownEvent(new[i].service_id)
                                    ELSE i = EventCap
    <3>1. CASE i = 1
      BY <2>1, <3>1 DEF HealthEvent
    <3>2. CASE i = 2
      BY <2>1, <3>2 DEF DownEvent, HealthEvent
    <3>3. CASE i \notin {1, 2}
      <4>1. i \in 3 .. Len(new) /\ Len(new) \in Nat /\ i - 2 \in 1 .. Len(events) /\ new[i] = events[i - 2]
        BY <1>0, <2>1, <3>3
      <4>2. new[i].event_type = "service.down" =>
              i - 2 > 1 /\ events[(i - 2) - 1] = HealthEvent(new[i].service_id, "down")
        BY <4>1 DEF OutagesAnnounced
      <4>3. i - 2 > 1 => new[i - 1] = events[(i - 2) - 1]
        <5>1. i - 2 > 1 => i - 1 \in 3 .. Len(new) /\ (i - 1) - 2 = (i - 2) - 1
          BY <4>1
        <5> QED
          BY <2>1, <5>1
      <4>4. new[i].event_type = "service.health" /\ new[i].status = "down" =>
              IF i - 2 < Len(events) THEN events[(i - 2) + 1] = DownEvent(new[i].service_id)
                                     ELSE i - 2 = EventCap
        BY <4>1 DEF OutagesAnnounced
      <4>5. i < Len(new) => i + 1 \in 3 .. Len(new) /\ new[i + 1] = events[(i + 1) - 2]
                            /\ i - 2 < Len(events) /\ (i + 1) - 2 = (i - 2) + 1
        BY <1>0, <2>1, <4>1
      <4>6. i >= Len(new) => i = Len(new) /\ i - 2 # EventCap /\ (i - 2 < Len(events) => i = EventCap)
        BY <1>0, <2>1, <4>1
      <4>7. i > 1
        BY <4>1
      <4> QED
        BY <4>1, <4>2, <4>3, <4>4, <4>5, <4>6, <4>7
    <3> QED
      BY <3>1, <3>2, <3>3
  <2>3. events' = new
    BY DEF new
  <2> QED
    BY <2>2, <2>3 DEF OutagesAnnounced
<1> QED
  BY <1>1, <1>2

\* Events and scores stay in agreement when a check is recorded.
LEMMA AgreementKept ==
  ASSUME EventTypes, EventsAgreeWithScores, NEW s \in Services, NEW status \in HealthStatus,
         NEW values, events' = Emitted(s, status),
         scores' = [scores EXCEPT ![s] = Score(status, values)]
  PROVE  EventsAgreeWithScores' /\ scores' = [k \in Services |-> scores'[k]]
<1> DEFINE new == Emitted(s, status)
<1> DEFINE added == IF status = "down" THEN 2 ELSE 1
<1>1. /\ new \in Seq(EventRecord) /\ Len(new) \in Nat /\ Len(new) >= 1
      /\ \A i \in 1 .. Len(new) : i =< added => new[i].service_id = s
      /\ new[1].status = status
      /\ Len(new) = Len(events) + added \/ Len(new) = EventCap
      /\ Len(events) = EventCap => Len(new) = EventCap
      /\ \A i \in added + 1 .. Len(new) : i - added \in 1 .. Len(events) /\ new[i] = events[i - added]
  <2>1. CASE status = "down"
    <3>1. /\ new \in Seq(EventRecord) /\ Len(new) >= 2
          /\ Len(new) = IF Len(events) + 1 < EventCap THEN Len(events) + 2 ELSE EventCap
          /\ new[1] = HealthEvent(s, "down") /\ new[2] = DownEvent(s)
          /\ \A i \in 3 .. Len(new) : i - 2 \in 1 .. Len(events) /\ new[i] = events[i - 2]
      BY <2>1, EmittedDown
    <3> HIDE DEF new
    <3>2. \A i \in 1 .. Len(new) : i =< 2 => i = 1 \/ i = 2
      BY <3>1
    <3> QED
      BY <2>1, <3>1, <3>2 DEF HealthEvent, DownEvent
  <2>2. CASE status # "down"
    <3>1. /\ new \in Seq(EventRecord)
          /\ Len(new) = IF Len(events) < EventCap THEN Len(events) + 1 ELSE EventCap
          /\ new[1] = HealthEvent(s, status)
          /\ \A i \in 2 .. Len(new) : i - 1 \in 1 .. Len(events) /\ new[i] = events[i - 1]
      BY <2>2, EmittedUp
    <3> HIDE DEF new
    <3>2. Len(new) \in Nat /\ Len(new) >= 1
      BY <3>1, MonitorAssumption DEF EventTypes
    <3>3. \A i \in 1 .. Len(new) : i =< 1 => i = 1
      BY <3>2
    <3> QED
      BY <2>2, <3>1, <3>2, <3>3 DEF HealthEvent
  <2> QED
    BY <2>1, <2>2
<1>2. added \in {1, 2}
  OBVIOUS
<1>3. events' = new
  BY DEF new
<1> HIDE DEF new, added
<1>4. /\ scores'[s].status = status
      /\ \A u \in Services : u # s => scores'[u] = scores[u]
      /\ scores' = [k \in Services |-> scores'[k]]
  <2>1. scores'[s] = Score(status, values)
    BY DEF EventTypes
  <2>2. Score(status, values).status = status
    BY DEF Score
  <2>3. /\ \A u \in Services : u # s => scores'[u] = scores[u]
        /\ scores' = [k \in Services |-> scores'[k]]
    BY DEF EventTypes
  <2> QED
    BY <2>1, <2>2, <2>3
<1>5. ASSUME NEW u \in Services, NEW i \in 1 .. Len(new),
             new[i].service_id = u, \A k \in 1 .. i - 1 : new[k].service_id # u
      PROVE  scores'[u].status = new[i].status
  <2>1. CASE u = s
    <3>1. 1 \in 1 .. Len(new) /\ new[1].service_id = s
      BY <1>1, <1>2
    <3>2. i = 1
      BY <1>1, <1>5, <2>1, <3>1
    <3> QED
      BY <1>1, <1>4, <2>1, <3>2
  <2>2. CASE u # s
    <3>1. ~(i =< added)
      BY <1>1, <1>5, <2>2
    <3>2. /\ i \in added + 1 .. Len(new) /\ i - added \in 1 .. Len(events)
          /\ new[i] = events[i - added]
      BY <1>1, <1>2, <3>1
    <3>3. ASSUME NEW k \in 1 .. (i - added) - 1
          PROVE  events[k].service_id # u
      <4>1. /\ k + added \in 1 .. i - 1 /\ k + added \in added + 1 .. Len(new)
            /\ (k + added) - added = k
        BY <1>1, <1>2, <3>2
      <4>2. new[k + added] = events[k]
        BY <1>1, <4>1
      <4> QED
        BY <1>5, <4>1, <4>2
    <3>4. scores[u].status = events[i - added].status
      BY <1>5, <3>2, <3>3 DEF EventsAgreeWithScores
    <3> QED
      BY <1>4, <2>2, <3>2, <3>4
  <2> QED
    BY <2>1, <2>2
<1>6. ASSUME NEW u \in Services, scores'[u].status # None, Len(new) # EventCap
      PROVE  \E i \in 1 .. Len(new) : new[i].service_id = u
  <2>1. CASE u = s
    <3>1. 1 \in 1 .. Len(new) /\ new[1].service_id = s
      BY <1>1, <1>2
    <3> QED
      BY <2>1, <3>1
  <2>2. CASE u # s
    <3>1. scores[u].status # None /\ Len(events) # EventCap /\ Len(new) = Len(events) + added
      BY <1>1, <1>4, <1>6, <2>2
    <3>2. PICK i \in 1 .. Len(events) : events[i].service_id = u
      BY <3>1 DEF EventsAgreeWithScores, Scored
    <3>3. Len(events) \in Nat
      BY DEF EventTypes
    <3>4. /\ i + added \in added + 1 .. Len(new) /\ i + added \in 1 .. Len(new)
          /\ (i + added) - added = i
      BY <1>2, <3>1, <3>2, <3>3
    <3> QED
      BY <1>1, <3>2, <3>4
  <2> QED
    BY <2>1, <2>2
<1> QED
  BY <1>3, <1>4, <1>5, <1>6 DEF EventsAgreeWithScores, Scored

-----------------------------------------------------------------------------
(* Every step.                                                             *)

\* A step that records no check leaves scores and events alone.
LEMMA OthersKeep ==
  ASSUME IInv, EventTypes', WriterAnswered', UNCHANGED <<scores, events>>
  PROVE  IInv'
BY DEF IInv, EventsAgreeWithScores, OutagesAnnounced, Scored

LEMMA InitIInv ==
  ASSUME Init
  PROVE  IInv
<1>1. EventTypes
  BY MonitorAssumption DEF Init, EventTypes, RWMutexOf, Unlocked
<1>2. WriterAnswered
  BY MonitorAssumption DEF Init, WriterAnswered, Unlocked
<1>3. EventsAgreeWithScores /\ OutagesAnnounced
  BY DEF Init, EventsAgreeWithScores, OutagesAnnounced, NoScore, Scored
<1> QED
  BY <1>1, <1>2, <1>3 DEF IInv

LEMMA RegistrationKeeps ==
  ASSUME IInv, NEW s \in Services, NEW a \in Addresses,
         LockToRegister(s, a) \/ Register(s, a)
  PROVE  IInv'
<1> DEFINE reg == [service |-> s, address |-> a]
<1>1. reg \in Registration
  BY DEF Registration
<1>2. reg \notin Probes
  BY <1>1, MonitorAssumption
<1> HIDE DEF reg
<1>3. CASE LockToRegister(s, a)
  <2>1. mu' = Lock(mu, reg) /\ UNCHANGED <<services, scores, events, flight, health>>
    BY <1>3 DEF LockToRegister, reg
  <2>2. mu' \in RWMutexOf(Probes \cup Registration, Clients \cup {"loop"}) /\ mu'.writer = reg
    BY <1>1, <2>1 DEF IInv, EventTypes, RWMutexOf, Lock
  <2>3. EventTypes' /\ WriterAnswered'
    BY <1>2, <2>1, <2>2 DEF IInv, EventTypes, WriterAnswered
  <2> QED
    BY <2>1, <2>3, OthersKeep
<1>4. CASE Register(s, a)
  <2>1. /\ mu' = Unlock(mu) /\ services' = [services EXCEPT ![s] = a]
        /\ UNCHANGED <<scores, events, flight, health>>
    BY <1>4 DEF Register
  <2>2. mu' \in RWMutexOf(Probes \cup Registration, Clients \cup {"loop"}) /\ mu'.writer = None
    BY <2>1 DEF IInv, EventTypes, RWMutexOf, Unlock
  <2>3. EventTypes' /\ WriterAnswered'
    BY <2>1, <2>2, MonitorAssumption DEF IInv, EventTypes, WriterAnswered
  <2> QED
    BY <2>1, <2>3, OthersKeep
<1> QED
  BY <1>3, <1>4

\* The loop and the clients only move readers.
LEMMA ReadersKeep ==
  ASSUME IInv, NEW r \in Clients \cup {"loop"}, mu' = RLock(mu, r) \/ mu' = RUnlock(mu, r),
         UNCHANGED <<services, scores, events, flight, health>>
  PROVE  IInv'
<1>1. /\ mu' \in RWMutexOf(Probes \cup Registration, Clients \cup {"loop"})
      /\ mu'.writer = mu.writer
  BY DEF IInv, EventTypes, RWMutexOf, RLock, RUnlock
<1>2. EventTypes' /\ WriterAnswered'
  BY <1>1 DEF IInv, EventTypes, WriterAnswered
<1> QED
  BY <1>2, OthersKeep

LEMMA SnapshotKeeps ==
  ASSUME IInv, Snapshot
  PROVE  IInv'
<1>1. PICK goroutine \in [Registered -> Idle] :
        flight' = [p \in Probes |->
            IF \E s \in Registered : goroutine[s] = p
            THEN LET s == CHOOSE s \in Registered : goroutine[s] = p
                 IN  [service |-> s, address |-> services[s], answer |-> None]
            ELSE flight[p]]
  BY DEF Snapshot
<1>2. mu' = RUnlock(mu, "loop") /\ UNCHANGED <<services, scores, events, health>>
  BY DEF Snapshot
<1>3. /\ mu' \in RWMutexOf(Probes \cup Registration, Clients \cup {"loop"})
      /\ mu'.writer = mu.writer
  BY <1>2 DEF IInv, EventTypes, RWMutexOf, RUnlock
<1>4. ASSUME NEW p \in Probes
      PROVE  flight'[p] \in ProbeRecord \cup {None} /\ (flight[p] # None => flight'[p] = flight[p])
  <2>1. CASE \E s \in Registered : goroutine[s] = p
    <3>1. PICK s \in Registered : s = CHOOSE k \in Registered : goroutine[k] = p
      BY <2>1
    <3>2. flight'[p] = [service |-> s, address |-> services[s], answer |-> None]
      BY <1>1, <2>1, <3>1
    <3>3. s \in Services /\ services[s] \in Addresses
      BY DEF Registered, IInv, EventTypes
    <3>4. flight[p] = None
      BY <1>1, <2>1 DEF Idle
    <3> QED
      BY <3>2, <3>3, <3>4 DEF ProbeRecord
  <2>2. CASE ~(\E s \in Registered : goroutine[s] = p)
    BY <1>1, <2>2 DEF IInv, EventTypes
  <2> QED
    BY <2>1, <2>2
<1>5. flight' \in [Probes -> ProbeRecord \cup {None}]
  BY <1>1, <1>4
<1>6. EventTypes' /\ WriterAnswered'
  BY <1>2, <1>3, <1>4, <1>5 DEF IInv, EventTypes, WriterAnswered
<1> QED
  BY <1>2, <1>6, OthersKeep

LEMMA AnswerKeeps ==
  ASSUME IInv, NEW p \in Probes, Answer(p)
  PROVE  IInv'
<1>1. /\ flight[p] \in ProbeRecord /\ flight[p].answer = None
      /\ health[flight[p].address] \in HealthStatus
      /\ UNCHANGED <<services, scores, events, mu, health>>
  BY DEF Answer, IInv, EventTypes, ProbeRecord
<1> DEFINE answered == [flight[p] EXCEPT !.answer = health[flight[p].address]]
<1>2. answered \in ProbeRecord
  BY <1>1 DEF ProbeRecord
<1>3. flight' = [flight EXCEPT ![p] = answered]
  BY DEF Answer
<1> HIDE DEF answered
<1>4. /\ flight' \in [Probes -> ProbeRecord \cup {None}]
      /\ \A k \in Probes : k # p => flight'[k] = flight[k]
  BY <1>2, <1>3 DEF IInv, EventTypes
<1>5. mu.writer # p
  BY <1>1 DEF IInv, WriterAnswered
<1>6. EventTypes' /\ WriterAnswered'
  BY <1>1, <1>4, <1>5 DEF IInv, EventTypes, WriterAnswered
<1> QED
  BY <1>1, <1>6, OthersKeep

LEMMA LockToRecordKeeps ==
  ASSUME IInv, NEW p \in Probes, LockToRecord(p)
  PROVE  IInv'
<1>1. /\ mu' = Lock(mu, p) /\ UNCHANGED <<services, scores, events, flight, health>>
      /\ flight[p] # None /\ flight[p].answer # None
  BY DEF LockToRecord
<1>2. mu' \in RWMutexOf(Probes \cup Registration, Clients \cup {"loop"}) /\ mu'.writer = p
  BY <1>1 DEF IInv, EventTypes, RWMutexOf, Lock
<1>3. EventTypes' /\ WriterAnswered'
  BY <1>1, <1>2 DEF IInv, EventTypes, WriterAnswered
<1> QED
  BY <1>1, <1>3, OthersKeep

LEMMA RecordKeeps ==
  ASSUME IInv, NEW p \in Probes, NEW sample \in Latencies, Record(p, sample)
  PROVE  IInv'
<1>1. PICK s \in Services, status \in HealthStatus :
        s = flight[p].service /\ status = flight[p].answer
  BY DEF Record, Exclusive, IInv, EventTypes, WriterAnswered, ProbeRecord
<1>2. /\ scores' = [scores EXCEPT ![s] = Score(status, Values(latency'[s]))]
      /\ events' = Emitted(s, status)
      /\ mu' = Unlock(mu)
      /\ flight' = [flight EXCEPT ![p] = None]
      /\ UNCHANGED <<services, health>>
  BY <1>1 DEF Record, Unlocking
<1>3. EventsAgreeWithScores' /\ scores' = [k \in Services |-> scores'[k]]
  BY <1>2, AgreementKept DEF IInv
<1>4. OutagesAnnounced'
  BY <1>2, AnnouncedKept DEF IInv
<1>5. /\ mu' \in RWMutexOf(Probes \cup Registration, Clients \cup {"loop"})
      /\ mu'.writer = None
  BY <1>2 DEF IInv, EventTypes, RWMutexOf, Unlock
<1>6. events' \in Seq(EventRecord) /\ Len(events') =< EventCap
  <2>1. EventTypes /\ Len(events) \in Nat /\ EventCap \in Nat
    BY MonitorAssumption DEF IInv, EventTypes
  <2>2. CASE status = "down"
    <3>1. /\ Emitted(s, "down") \in Seq(EventRecord)
          /\ Len(Emitted(s, "down")) = IF Len(events) + 1 < EventCap THEN Len(events) + 2 ELSE EventCap
      BY <2>1, EmittedDown
    <3> QED
      BY <1>2, <2>1, <2>2, <3>1
  <2>3. CASE status # "down"
    <3>1. /\ Emitted(s, status) \in Seq(EventRecord)
          /\ Len(Emitted(s, status)) = IF Len(events) < EventCap THEN Len(events) + 1 ELSE EventCap
      BY <2>1, <2>3, EmittedUp
    <3> QED
      BY <1>2, <2>1, <3>1
  <2> QED
    BY <2>2, <2>3
<1>7. EventTypes'
  <2>1. flight' \in [Probes -> ProbeRecord \cup {None}]
    BY <1>2 DEF IInv, EventTypes
  <2> QED
    BY <1>2, <1>3, <1>5, <1>6, <2>1 DEF IInv, EventTypes
<1>8. WriterAnswered'
  BY <1>5, MonitorAssumption DEF WriterAnswered
<1> QED
  BY <1>3, <1>4, <1>7, <1>8 DEF IInv

LEMMA StepIInv ==
  ASSUME IInv, [Next]_vars
  PROVE  IInv'
<1>1. ASSUME NEW s \in Services, NEW a \in Addresses, LockToRegister(s, a) \/ Register(s, a)
      PROVE  IInv'
  BY <1>1, RegistrationKeeps
<1>2. CASE Tick
  BY <1>2, ReadersKeep DEF Tick
<1>3. CASE Snapshot
  BY <1>3, SnapshotKeeps
<1>4. ASSUME NEW p \in Probes, Answer(p) \/ LockToRecord(p)
      PROVE  IInv'
  BY <1>4, AnswerKeeps, LockToRecordKeeps
<1>5. ASSUME NEW p \in Probes, NEW sample \in Latencies, Record(p, sample)
      PROVE  IInv'
  BY <1>5, RecordKeeps
<1>6. ASSUME NEW c \in Clients, Read(c) \/ Sent(c)
      PROVE  IInv'
  BY <1>6, ReadersKeep DEF Read, Sent
<1>7. ASSUME NEW a \in Addresses, NEW status \in HealthStatus, Shift(a, status)
      PROVE  IInv'
  <2>1. EventTypes' /\ WriterAnswered'
    BY <1>7 DEF Shift, IInv, EventTypes, WriterAnswered
  <2> QED
    BY <1>7, <2>1, OthersKeep DEF Shift
<1>8. CASE UNCHANGED vars
  <2>1. EventTypes' /\ WriterAnswered'
    BY <1>8 DEF vars, IInv, EventTypes, WriterAnswered
  <2> QED
    BY <1>8, <2>1, OthersKeep DEF vars
<1> QED
  BY <1>1, <1>2, <1>3, <1>4, <1>5, <1>6, <1>7, <1>8 DEF Next

LEMMA AlwaysIInv == Spec => []IInv
BY InitIInv, StepIInv, PTL DEF Spec

-----------------------------------------------------------------------------
(* The lock.                                                               *)

\* There is an idle goroutine of its own for every service in S.
Fits(S) ==
  \E goroutine \in [S -> Idle] : \A s, t \in S : goroutine[s] = goroutine[t] => s = t

\* Nobody is stuck inside the lock or before it: readers wait for a writer
\* only, a writer whose turn it is has its answer or is a registration, and the
\* loop finds the goroutines that its snapshot takes, also when registrations
\* and checks came between its tick and its turn.
LockGoesOn ==
  /\ mu.waiting # {} => mu.writer # None
  /\ mu.writer # None /\ mu.reading = {} =>
       \/ \E s \in Services, a \in Addresses : Exclusive(mu, [service |-> s, address |-> a])
       \/ \E p \in Probes : flight[p] # None /\ flight[p].answer # None /\ Exclusive(mu, p)
  /\ "loop" \in mu.reading => Fits(Registered)

LoopInv ==
  /\ mu.reading \cap mu.waiting = {}
  /\ mu.waiting # {} => mu.writer # None
  /\ "loop" \in mu.reading => Fits(Registered)
  /\ "loop" \in mu.waiting => Fits(Expected)

\* A finite set is mapped into one that is not smaller without collisions.
LEMMA SmallerFits ==
  ASSUME NEW S, NEW T, IsFiniteSet(S), IsFiniteSet(T), Cardinality(T) >= Cardinality(S)
  PROVE  \E f \in [S -> T] : \A s, t \in S : f[s] = f[t] => s = t
<1>1. PICK m \in Nat, n \in Nat : m = Cardinality(S) /\ n = Cardinality(T) /\ m =< n
  BY FS_CardinalityType
<1>2. PICK g \in Bijection(1 .. m, S) : TRUE
  BY <1>1, FS_CardinalityType DEF ExistsBijection
<1>3. PICK h \in Bijection(1 .. n, T) : TRUE
  BY <1>1, FS_CardinalityType DEF ExistsBijection
<1>4. \A s \in S : \E i \in 1 .. m : g[i] = s
  BY <1>2 DEF Bijection, Surjection
<1>5. h \in [1 .. n -> T] /\ \A i, j \in 1 .. n : h[i] = h[j] => i = j
  BY <1>3 DEF Bijection, Injection, IsInjective
<1> DEFINE place(s) == CHOOSE i \in 1 .. m : g[i] = s
<1>6. \A s \in S : place(s) \in 1 .. n /\ g[place(s)] = s
  BY <1>1, <1>4
<1> HIDE DEF place
<1>7. [s \in S |-> h[place(s)]] \in [S -> T]
  BY <1>5, <1>6
<1>8. \A s, t \in S : h[place(s)] = h[place(t)] => s = t
  BY <1>5, <1>6
<1> QED
  BY <1>7, <1>8

\* More idle goroutines, or fewer services, fit as well.
LEMMA FitsStill ==
  ASSUME NEW S, NEW T \in SUBSET S, Fits(S), Idle \subseteq Idle'
  PROVE  Fits(T)'
<1>1. PICK f \in [S -> Idle] : \A s, t \in S : f[s] = f[t] => s = t
  BY DEF Fits
<1>2. [s \in T |-> f[s]] \in [T -> Idle']
  BY <1>1
<1>3. \A s, t \in T : [k \in T |-> f[k]][s] = [k \in T |-> f[k]][t] => s = t
  BY <1>1
<1>4. \E f2 \in [T -> Idle'] : \A s, t \in T : f2[s] = f2[t] => s = t
  BY <1>2, <1>3
<1> QED
  BY <1>4 DEF Fits

\* A reader comes or goes.
LEMMA LoopReaders ==
  ASSUME IInv, LoopInv, UNCHANGED <<services, flight>>,
         NEW r \in Clients \cup {"loop"},
         \/ mu' = RUnlock(mu, r)
         \/ Outside(mu, r) /\ mu' = RLock(mu, r) /\ (r = "loop" => Fits(Expected))
  PROVE  LoopInv'
<1>1. /\ mu.writer = mu'.writer
      /\ mu.reading \cup {r} = mu'.reading \cup {r} \/ mu.reading = mu'.reading
      /\ mu' = RUnlock(mu, r) => mu'.reading = mu.reading \ {r} /\ mu'.waiting = mu.waiting
      /\ mu' = RLock(mu, r) /\ mu.writer = None =>
           mu'.reading = mu.reading \cup {r} /\ mu'.waiting = mu.waiting
      /\ mu' = RLock(mu, r) /\ mu.writer # None =>
           mu'.reading = mu.reading /\ mu'.waiting = mu.waiting \cup {r}
  BY DEF RUnlock, RLock, IInv, EventTypes, RWMutexOf
<1>2. Registered \subseteq Expected /\ Registered' = Registered /\ Expected' = Expected /\ Idle' = Idle
  BY <1>1 DEF Registered, Expected, Idle
<1>3. /\ Fits(Registered) => Fits(Registered)'
      /\ Fits(Expected) => Fits(Expected)' /\ Fits(Registered)'
  BY <1>2, FitsStill DEF Fits
<1> QED
  BY <1>1, <1>3 DEF LoopInv, Outside

\* A writer comes.
LEMMA LoopLocks ==
  ASSUME IInv, LoopInv, UNCHANGED <<services, flight>>, NEW w,
         mu.writer = None, mu' = Lock(mu, w)
  PROVE  LoopInv'
<1>1. mu'.writer = w /\ mu'.reading = mu.reading /\ mu'.waiting = mu.waiting
  BY DEF Lock, IInv, EventTypes, RWMutexOf
<1>2. mu.waiting = {} /\ Registered' = Registered /\ Idle' = Idle
  BY DEF LoopInv, Registered, Idle
<1> QED
  BY <1>1, <1>2 DEF LoopInv, Fits

\* A writer goes, having registered no other service than its own.
LEMMA LoopUnlocks ==
  ASSUME IInv, LoopInv, Registered' \subseteq Expected, Idle \subseteq Idle', mu' = Unlock(mu)
  PROVE  LoopInv'
<1>1. mu'.writer = None /\ mu'.reading = mu.waiting /\ mu'.waiting = {}
  BY DEF Unlock
<1>2. ASSUME Fits(Expected)
      PROVE  Fits(Registered)'
  <2>1. PICK S : S = Expected /\ Registered' \subseteq S /\ Fits(S)
    BY <1>2
  <2>2. PICK T \in SUBSET S : T = Registered'
    BY <2>1
  <2>3. Fits(T)'
    BY <2>1, <2>2, FitsStill
  <2> QED
    BY <2>2, <2>3 DEF Fits
<1> QED
  BY <1>1, <1>2 DEF LoopInv

LEMMA StepLoop ==
  ASSUME IsFiniteSet(Services), IsFiniteSet(Probes), IInv, IInv', LoopInv, [Next]_vars
  PROVE  LoopInv'
<1>1. ASSUME NEW s \in Services, NEW a \in Addresses, LockToRegister(s, a)
      PROVE  LoopInv'
  <2>1. PICK w : w = [service |-> s, address |-> a]
    OBVIOUS
  <2>2. mu' = Lock(mu, w) /\ mu.writer = None /\ UNCHANGED <<services, flight>>
    BY <1>1, <2>1 DEF LockToRegister
  <2> QED
    BY <2>2, LoopLocks
<1>2. ASSUME NEW s \in Services, NEW a \in Addresses, Register(s, a)
      PROVE  LoopInv'
  <2>1. Registered' \subseteq Registered \cup {s} /\ Idle' = Idle
    BY <1>2 DEF Register, Registered, Idle, IInv, EventTypes
  <2>2. s \in Expected
    BY <1>2 DEF Register, Exclusive, Expected
  <2> QED
    BY <1>2, <2>1, <2>2, LoopUnlocks DEF Register, Expected
<1>3. CASE Tick
  <2>1. IsFiniteSet(Expected) /\ IsFiniteSet(Idle)
    BY FS_Subset DEF Expected, Registered, Idle
  <2>2. Fits(Expected)
    BY <1>3, <2>1, SmallerFits DEF Tick, Fits
  <2> QED
    BY <1>3, <2>2, LoopReaders DEF Tick
<1>4. CASE Snapshot
  <2>1. mu' = RUnlock(mu, "loop") /\ "loop" \in mu.reading /\ services' = services
    BY <1>4 DEF Snapshot
  <2>2. /\ mu'.writer = mu.writer /\ mu'.reading = mu.reading \ {"loop"}
        /\ mu'.waiting = mu.waiting
    BY <2>1 DEF RUnlock, IInv, EventTypes, RWMutexOf
  <2> QED
    BY <2>1, <2>2 DEF LoopInv
<1>5. ASSUME NEW p \in Probes, Answer(p)
      PROVE  LoopInv'
  <2>1. \A k \in Probes : flight[k] = None => flight'[k] = None
    BY <1>5 DEF Answer, IInv, EventTypes
  <2>2. Idle \subseteq Idle' /\ Registered' = Registered /\ Expected' = Expected /\ mu' = mu
    BY <1>5, <2>1 DEF Answer, Idle, Registered, Expected
  <2> QED
    BY <2>2, FitsStill DEF LoopInv, Fits
<1>6. ASSUME NEW p \in Probes, LockToRecord(p)
      PROVE  LoopInv'
  BY <1>6, LoopLocks DEF LockToRecord
<1>7. ASSUME NEW p \in Probes, NEW sample \in Latencies, Record(p, sample)
      PROVE  LoopInv'
  <2>1. \A k \in Probes : flight[k] = None => flight'[k] = None
    BY <1>7 DEF Record, IInv, EventTypes
  <2>2. Idle \subseteq Idle' /\ Registered' = Registered /\ mu' = Unlock(mu)
    BY <1>7, <2>1 DEF Record, Unlocking, Idle, Registered
  <2> QED
    BY <2>2, LoopUnlocks DEF Expected
<1>8. ASSUME NEW c \in Clients, Read(c) \/ Sent(c)
      PROVE  LoopInv'
  BY <1>8, LoopReaders, MonitorAssumption DEF Read, Sent
<1>9. ASSUME UNCHANGED <<services, flight, mu>>
      PROVE  LoopInv'
  <2>1. mu' = mu /\ services' = services /\ flight' = flight
    BY <1>9
  <2>2. Registered' = Registered /\ Expected' = Expected /\ Idle' = Idle
    BY <2>1 DEF Registered, Expected, Idle
  <2>3. Fits(Registered)' <=> Fits(Registered)
    BY <2>2 DEF Fits
  <2>4. Fits(Expected)' <=> Fits(Expected)
    BY <2>2 DEF Fits
  <2> QED
    BY <2>1, <2>3, <2>4 DEF LoopInv
<1> QED
  BY <1>1, <1>2, <1>3, <1>4, <1>5, <1>6, <1>7, <1>8, <1>9 DEF Next, Shift, vars

\* The lock always has a way on, for finitely many services and goroutines.
THEOREM LockAlwaysGoesOn ==
  ASSUME IsFiniteSet(Services), IsFiniteSet(Probes)
  PROVE  Spec => []LockGoesOn
<1>1. Init => LoopInv
  BY DEF Init, LoopInv, Unlocked
<1>2. IInv /\ IInv' /\ LoopInv /\ [Next]_vars => LoopInv'
  BY StepLoop
<1>3. ASSUME IInv, LoopInv
      PROVE  LockGoesOn
  <2>1. ASSUME mu.writer # None, mu.reading = {}
        PROVE  \/ \E s \in Services, a \in Addresses :
                    Exclusive(mu, [service |-> s, address |-> a])
               \/ \E p \in Probes :
                    flight[p] # None /\ flight[p].answer # None /\ Exclusive(mu, p)
    <3>1. mu.writer \in Probes \cup Registration
      BY <1>3, <2>1 DEF IInv, EventTypes, RWMutexOf
    <3>2. CASE mu.writer \in Probes
      BY <1>3, <2>1, <3>2 DEF IInv, WriterAnswered, Exclusive
    <3>3. CASE mu.writer \in Registration
      BY <2>1, <3>3 DEF Registration, Exclusive
    <3> QED
      BY <3>1, <3>2, <3>3
  <2> QED
    BY <1>3, <2>1 DEF LoopInv, LockGoesOn
<1> QED
  BY <1>1, <1>2, <1>3, AlwaysIInv, PTL DEF Spec

-----------------------------------------------------------------------------
(* Values in ascending order, and their percentiles.                       *)

\* A set of natural numbers that is not empty has a least element.
LEMMA LeastNat ==
  ASSUME NEW N, N \subseteq Nat, N # {}
  PROVE  \E m \in N : \A n \in N : m =< n
<1> DEFINE Segments == {1 .. n : n \in N}
<1>1. Segments \subseteq FiniteSubsetsOf(Nat)
  <2> SUFFICES ASSUME NEW n \in N
               PROVE  1 .. n \in SUBSET Nat /\ IsFiniteSet(1 .. n)
    BY DEF FiniteSubsetsOf
  <2>1. IsFiniteSet(1 .. n)
    BY FS_Interval
  <2> QED
    BY <2>1
<1>2. Segments # {}
  OBVIOUS
<1>3. IsWellFoundedOn(StrictSubsetOrdering(Nat), FiniteSubsetsOf(Nat))
  BY FS_StrictSubsetOrderingWellFounded
<1> HIDE DEF Segments
<1>4. PICK S \in Segments : \A T \in Segments : <<T, S>> \notin StrictSubsetOrdering(Nat)
  BY <1>1, <1>2, <1>3, WFMin
<1>5. PICK m \in N : S = 1 .. m
  BY <1>4 DEF Segments
<1>6. ASSUME NEW n \in N, n < m
      PROVE  FALSE
  <2>1. 1 .. n \in Segments
    BY DEF Segments
  <2>2. 1 .. n \subseteq 1 .. m /\ m \in 1 .. m /\ m \notin 1 .. n
    BY <1>6
  <2>3. <<1 .. n, S>> \in StrictSubsetOrdering(Nat)
    BY <1>5, <2>2 DEF StrictSubsetOrdering
  <2> QED
    BY <1>4, <2>1, <2>3
<1> QED
  BY <1>6

\* order puts the values in ascending order.
Sorts(order, values) ==
  LET places == DOMAIN values
  IN  /\ order \in Bijection(places, places)
      /\ \A i, j \in places : i < j => values[order[i]] =< values[order[j]]

\* One more value is inserted in front of the first that is greater.
LEMMA InsertionSorts ==
  ASSUME NEW n \in Nat, NEW values \in [1 .. n + 1 -> Int], NEW before,
         Sorts(before, [i \in 1 .. n |-> values[i]])
  PROVE  \E order : Sorts(order, values)
<1> DEFINE first == [i \in 1 .. n |-> values[i]]
<1>1. /\ before \in [1 .. n -> 1 .. n]
      /\ \A i, j \in 1 .. n : before[i] = before[j] => i = j
      /\ \A k \in 1 .. n : \E i \in 1 .. n : before[i] = k
      /\ \A i, j \in 1 .. n : i < j => values[before[i]] =< values[before[j]]
  <2>1. DOMAIN first = 1 .. n /\ before \in Bijection(1 .. n, 1 .. n)
    BY DEF Sorts
  <2>2. /\ before \in [1 .. n -> 1 .. n]
        /\ \A i, j \in 1 .. n : before[i] = before[j] => i = j
        /\ \A k \in 1 .. n : \E i \in 1 .. n : before[i] = k
    BY <2>1 DEF Bijection, Injection, Surjection, IsInjective
  <2>3. \A i, j \in 1 .. n : i < j => first[before[i]] =< first[before[j]]
    BY <2>1 DEF Sorts
  <2> QED
    BY <2>2, <2>3
<1>2. \A i \in 1 .. n : before[i] \in 1 .. n + 1 /\ before[i] # n + 1
  BY <1>1
<1>3. /\ \A i \in 1 .. n : values[before[i]] \in Int
       /\ values[n + 1] \in Int
  BY <1>2
<1> DEFINE greater == {i \in 1 .. n : values[n + 1] < values[before[i]]} \cup {n + 1}
<1>4. PICK k \in greater : \A i \in greater : k =< i
  <2>1. greater \subseteq Nat /\ greater # {}
    OBVIOUS
  <2> HIDE DEF greater
  <2> QED
    BY <2>1, LeastNat
<1>5. /\ k \in 1 .. n + 1
      /\ \A i \in 1 .. n : i < k => values[before[i]] =< values[n + 1]
      /\ \A i \in 1 .. n : k =< i => values[n + 1] =< values[before[i]]
  <2>1. k \in 1 .. n + 1
    BY <1>4
  <2>2. ASSUME NEW i \in 1 .. n, i < k
        PROVE  values[before[i]] =< values[n + 1]
    <3>1. i \notin greater
      BY <1>4, <2>1, <2>2
    <3>2. values[before[i]] \in Int /\ values[n + 1] \in Int
      BY <1>1
    <3> QED
      BY <3>1, <3>2
  <2>3. ASSUME NEW i \in 1 .. n, k =< i
        PROVE  values[n + 1] =< values[before[i]]
    <3>1. k \in 1 .. n /\ values[n + 1] < values[before[k]]
      BY <1>4, <2>1, <2>3
    <3>2. values[before[i]] \in Int /\ values[before[k]] \in Int /\ values[n + 1] \in Int
      BY <1>3, <3>1
    <3>3. k = i \/ values[before[k]] =< values[before[i]]
      <4>1. k = i \/ k < i
        BY <2>3, <3>1
      <4> QED
        BY <1>1, <3>1, <4>1
    <3> QED
      BY <3>1, <3>2, <3>3
  <2> QED
    BY <2>1, <2>2, <2>3
<1> HIDE DEF greater
<1> DEFINE order == [i \in 1 .. n + 1 |->
                      IF i < k THEN before[i] ELSE IF i = k THEN n + 1 ELSE before[i - 1]]
<1>6. /\ \A i \in 1 .. n + 1 : i < k => i \in 1 .. n /\ order[i] = before[i]
      /\ order[k] = n + 1
      /\ \A i \in 1 .. n + 1 : i > k => i - 1 \in 1 .. n /\ order[i] = before[i - 1]
  BY <1>5
<1>7. order \in [1 .. n + 1 -> 1 .. n + 1]
  <2>1. \A i \in 1 .. n + 1 : order[i] \in 1 .. n + 1
    <3> HIDE DEF order
    <3>1. \A i \in 1 .. n + 1 : i < k \/ i = k \/ i > k
      BY <1>5
    <3>2. n + 1 \in 1 .. n + 1
      OBVIOUS
    <3> QED
      BY <1>6, <1>2, <3>1, <3>2
  <2> QED
    BY <2>1
<1> HIDE DEF order
<1>8. ASSUME NEW i \in 1 .. n + 1, NEW j \in 1 .. n + 1, order[i] = order[j]
      PROVE  i = j
  <2>1. CASE i < k /\ j > k
    BY <1>1, <1>5, <1>6, <1>8, <2>1
  <2>2. CASE i > k /\ j < k
    BY <1>1, <1>5, <1>6, <1>8, <2>2
  <2>3. CASE i < k /\ j < k
    BY <1>1, <1>6, <1>8, <2>3
  <2>4. CASE i > k /\ j > k
    <3>1. i - 1 = j - 1
      BY <1>1, <1>6, <1>8, <2>4
    <3> QED
      BY <3>1
  <2>5. CASE i = k
    <3>1. order[j] = n + 1
      BY <1>6, <1>8, <2>5
    <3> QED
      BY <1>5, <1>6, <1>2, <2>5, <3>1
  <2>6. CASE j = k
    <3>1. order[i] = n + 1
      BY <1>6, <1>8, <2>6
    <3> QED
      BY <1>5, <1>6, <1>2, <2>6, <3>1
  <2> QED
    BY <1>5, <2>1, <2>2, <2>3, <2>4, <2>5, <2>6
<1>9. ASSUME NEW t \in 1 .. n + 1
      PROVE  \E i \in 1 .. n + 1 : order[i] = t
  <2>1. CASE t = n + 1
    BY <1>5, <1>6, <2>1
  <2>2. CASE t # n + 1
    <3>1. PICK i \in 1 .. n : before[i] = t
      BY <1>1, <2>2
    <3>2. CASE i < k
      BY <1>6, <3>1, <3>2
    <3>3. CASE ~(i < k)
      <4>1. i + 1 \in 1 .. n + 1 /\ i + 1 > k /\ (i + 1) - 1 = i
        BY <1>5, <3>3
      <4> QED
        BY <1>6, <3>1, <4>1
    <3> QED
      BY <3>2, <3>3
  <2> QED
    BY <2>1, <2>2
<1>10. ASSUME NEW i \in 1 .. n + 1, NEW j \in 1 .. n + 1, i < j
      PROVE  values[order[i]] =< values[order[j]]
  <2>1. CASE j < k
    <3>1. /\ i \in 1 .. n /\ j \in 1 .. n
          /\ order[i] = before[i] /\ order[j] = before[j]
      BY <1>5, <1>6, <1>10, <2>1
    <3> QED
      BY <1>1, <1>10, <3>1
  <2>2. CASE j = k
    BY <1>5, <1>6, <1>10, <2>2
  <2>3. CASE j > k /\ i = k
    <3>1. j - 1 \in 1 .. n /\ k =< j - 1 /\ order[j] = before[j - 1] /\ order[i] = n + 1
      BY <1>5, <1>6, <2>3
    <3> QED
      BY <1>5, <3>1
  <2>4. CASE j > k /\ i < k
    <3>1. /\ i \in 1 .. n /\ j - 1 \in 1 .. n
          /\ order[i] = before[i] /\ order[j] = before[j - 1]
      BY <1>5, <1>6, <2>4
    <3>2. i < k /\ k =< j - 1
      BY <1>5, <2>4
    <3>3. /\ values[before[i]] =< values[n + 1] /\ values[n + 1] =< values[before[j - 1]]
          /\ values[before[i]] \in Int /\ values[n + 1] \in Int /\ values[before[j - 1]] \in Int
      BY <1>5, <1>3, <3>1, <3>2
    <3> QED
      BY <3>1, <3>3
  <2>5. CASE j > k /\ i > k
    <3>1. /\ i - 1 \in 1 .. n /\ j - 1 \in 1 .. n /\ i - 1 < j - 1
          /\ order[i] = before[i - 1] /\ order[j] = before[j - 1]
      BY <1>5, <1>6, <1>10, <2>5
    <3> QED
      BY <1>1, <3>1
  <2> QED
    BY <1>5, <2>1, <2>2, <2>3, <2>4, <2>5
<1>11. order \in Bijection(1 .. n + 1, 1 .. n + 1)
  BY <1>7, <1>8, <1>9 DEF Bijection, Injection, Surjection, IsInjective
<1> QED
  BY <1>10, <1>11 DEF Sorts

\* Any values can be put in order: a shortest sequence that cannot would have
\* an order without its last value, and that one can be inserted.
LEMMA SomeOrderSorts ==
  ASSUME NEW n \in Nat, NEW values \in [1 .. n -> Int]
  PROVE  \E order : Sorts(order, values)
<1> DEFINE Unsortable == {m \in Nat : \E v \in [1 .. m -> Int] : ~ \E order : Sorts(order, v)}
<1> SUFFICES ASSUME n \in Unsortable
             PROVE  FALSE
  OBVIOUS
<1>1. Unsortable \subseteq Nat /\ Unsortable # {}
  OBVIOUS
<1> HIDE DEF Unsortable
<1>2. PICK m \in Unsortable : \A k \in Unsortable : m =< k
  BY <1>1, LeastNat
<1>3. m \in Nat
  BY <1>1
<1>4. PICK v \in [1 .. m -> Int] : ~ \E order : Sorts(order, v)
  BY DEF Unsortable
<1>5. CASE m = 0
  <2>1. DOMAIN v = {}
    BY <1>5
  <2>2. v \in Bijection({}, {})
    BY <2>1, <1>5 DEF Bijection, Injection, Surjection, IsInjective
  <2>3. Sorts(v, v)
    BY <2>1, <2>2 DEF Sorts
  <2> QED
    BY <1>4, <2>3
<1>6. CASE m # 0
  <2>1. PICK k \in Nat : m = k + 1
    <3>1. m - 1 \in Nat /\ m = (m - 1) + 1
      BY <1>3, <1>6
    <3> QED
      BY <3>1
  <2>2. k \notin Unsortable
    BY <1>2, <2>1
  <2>3. [i \in 1 .. k |-> v[i]] \in [1 .. k -> Int]
    BY <2>1
  <2>4. PICK before : Sorts(before, [i \in 1 .. k |-> v[i]])
    BY <2>2, <2>3 DEF Unsortable
  <2> QED
    BY <1>4, <2>1, <2>4, InsertionSorts
<1> QED
  BY <1>5, <1>6

\* What Ascending returns.
LEMMA AscendingSorts ==
  ASSUME NEW n \in Nat, NEW values \in [1 .. n -> Int]
  PROVE  \E order : Sorts(order, values)
                    /\ Ascending(values) = [i \in 1 .. n |-> values[order[i]]]
<1> DEFINE order == CHOOSE o \in Bijection(1 .. n, 1 .. n) :
                      \A i, j \in 1 .. n : i < j => values[o[i]] =< values[o[j]]
<1>1. DOMAIN values = 1 .. n
  OBVIOUS
<1>2. \E o \in Bijection(1 .. n, 1 .. n) :
        \A i, j \in 1 .. n : i < j => values[o[i]] =< values[o[j]]
  BY <1>1, SomeOrderSorts DEF Sorts
<1>3. /\ order \in Bijection(1 .. n, 1 .. n)
      /\ \A i, j \in 1 .. n : i < j => values[order[i]] =< values[order[j]]
  BY <1>2
<1>4. Ascending(values) = [i \in 1 .. n |-> values[order[i]]]
  BY <1>1 DEF Ascending
<1> HIDE DEF order
<1> QED
  BY <1>1, <1>3, <1>4 DEF Sorts

\* The rank ceil(p * n / 100), without the fraction.
LEMMA Rank ==
  ASSUME NEW n \in Nat \ {0}, NEW p \in 1 .. 100
  PROVE  LET rank == (p * n + 99) \div 100
         IN  /\ p * n \in Nat /\ rank \in 1 .. n
             /\ 100 * (rank - 1) < p * n /\ p * n =< 100 * rank
<1>1. \A k \in Nat : 1 =< k /\ k =< 100 * n =>
        LET rank == (k + 99) \div 100
        IN  rank \in 1 .. n /\ 100 * (rank - 1) < k /\ k =< 100 * rank
  OBVIOUS
<1>2. p * n \in Nat /\ 1 =< p * n /\ p * n =< 100 * n
  <2>1. n \in Nat /\ n >= 1 /\ p \in Nat /\ p >= 1 /\ p =< 100
    OBVIOUS
  <2> QED
    BY <2>1
<1> QED
  BY <1>1, <1>2

\* The value at that rank of the ascending order is the percentile.
LEMMA RankIsPercentile ==
  ASSUME NEW n \in Nat \ {0}, NEW window \in Seq(Int), Len(window) = n,
         NEW order \in Bijection(1 .. n, 1 .. n),
         \A i, j \in 1 .. n : i < j => window[order[i]] =< window[order[j]],
         NEW p \in 1 .. 100, NEW rank \in 1 .. n,
         100 * (rank - 1) < p * n, p * n =< 100 * rank
  PROVE  IsPercentile(window[order[rank]], window, p)
<1> DEFINE v == window[order[rank]]
<1> DEFINE Below == {i \in 1 .. n : window[i] < v}
<1> DEFINE NotAbove == {i \in 1 .. n : window[i] =< v}
<1>1. /\ order \in [1 .. n -> 1 .. n]
      /\ \A i, j \in 1 .. n : order[i] = order[j] => i = j
      /\ \A k \in 1 .. n : \E i \in 1 .. n : order[i] = k
  BY DEF Bijection, Injection, Surjection, IsInjective
<1>2. \A i \in 1 .. n : window[i] \in Int
  OBVIOUS
<1>3. v \in Int /\ order[rank] \in 1 .. n /\ \A i \in 1 .. n : window[order[i]] \in Int
  BY <1>1, <1>2
<1>4. \A i \in 1 .. n : i =< rank => window[order[i]] =< v
  <2>1. \A i \in 1 .. n : i =< rank => i < rank \/ i = rank
    OBVIOUS
  <2> QED
    BY <1>3, <2>1
<1>5. \A i \in 1 .. n : rank =< i => v =< window[order[i]]
  <2>1. \A i \in 1 .. n : rank =< i => rank < i \/ i = rank
    OBVIOUS
  <2> QED
    BY <1>3, <2>1
<1> HIDE DEF v
<1>6. IsFiniteSet(Below) /\ IsFiniteSet(NotAbove)
  <2>1. IsFiniteSet(1 .. n) /\ Below \in SUBSET (1 .. n) /\ NotAbove \in SUBSET (1 .. n)
    BY FS_Interval
  <2> QED
    BY <2>1, FS_Subset
<1>7. Cardinality(Below) \in Nat /\ Cardinality(Below) =< rank - 1
  <2> DEFINE inverse == [k \in Below |-> CHOOSE i \in 1 .. n : order[i] = k]
  <2>1. \A k \in Below : inverse[k] \in 1 .. n /\ order[inverse[k]] = k
    BY <1>1
  <2> HIDE DEF inverse
  <2>2. \A k \in Below : inverse[k] \in 1 .. rank - 1
    <3> SUFFICES ASSUME NEW k \in Below
                 PROVE  inverse[k] \in 1 .. rank - 1
      OBVIOUS
    <3>1. window[k] < v /\ window[k] \in Int
      BY <1>2
    <3>2. inverse[k] \in 1 .. n /\ window[order[inverse[k]]] = window[k]
      BY <2>1
    <3>3. ~(rank =< inverse[k])
      BY <1>3, <1>5, <3>1, <3>2
    <3> QED
      BY <3>2, <3>3
  <2>3. inverse \in Injection(Below, 1 .. rank - 1)
    <3>1. inverse \in [Below -> 1 .. rank - 1]
      BY <2>2 DEF inverse
    <3>2. \A k, l \in Below : inverse[k] = inverse[l] => k = l
      BY <2>1
    <3> QED
      BY <3>1, <3>2, Fun_IsInj
  <2>4. IsFiniteSet(1 .. rank - 1) /\ Cardinality(1 .. rank - 1) = rank - 1
    <3>1. rank - 1 \in Int
      OBVIOUS
    <3> QED
      BY <3>1, FS_Interval
  <2>5. Cardinality(Below) =< Cardinality(1 .. rank - 1)
    BY <2>3, <2>4, FS_Injection
  <2> QED
    BY <1>6, <2>4, <2>5, FS_CardinalityType
<1>8. Cardinality(NotAbove) \in Nat /\ rank =< Cardinality(NotAbove)
  <2> DEFINE upto == [i \in 1 .. rank |-> order[i]]
  <2>1. ASSUME NEW i \in 1 .. rank
        PROVE  i \in 1 .. n /\ upto[i] = order[i] /\ upto[i] \in NotAbove
    <3>1. i \in 1 .. n /\ i =< rank
      OBVIOUS
    <3>2. order[i] \in 1 .. n /\ window[order[i]] =< v
      BY <1>1, <1>4, <3>1
    <3> QED
      BY <3>1, <3>2
  <2>2. upto \in Injection(1 .. rank, NotAbove)
    <3>1. upto \in [1 .. rank -> NotAbove]
      BY <2>1
    <3> HIDE DEF upto
    <3>2. \A i, j \in 1 .. rank : upto[i] = upto[j] => i = j
      BY <1>1, <2>1
    <3> QED
      BY <3>1, <3>2, Fun_IsInj
  <2> HIDE DEF upto
  <2>3. Cardinality(1 .. rank) = rank
    BY FS_Interval
  <2>4. Cardinality(1 .. rank) =< Cardinality(NotAbove)
    BY <1>6, <2>2, FS_Injection
  <2> QED
    BY <1>6, <2>3, <2>4, FS_CardinalityType
<1>9. \E i \in 1 .. n : window[i] = v
  BY <1>3 DEF v
<1>10. p * n \in Int
  OBVIOUS
<1>11. 100 * Cardinality(Below) < p * n /\ 100 * Cardinality(NotAbove) >= p * n
  <2> HIDE DEF Below, NotAbove
  <2>1. \A k, b, a \in Int : b =< rank - 1 /\ rank =< a /\ 100 * (rank - 1) < k /\ k =< 100 * rank
                          => 100 * b < k /\ 100 * a >= k
    OBVIOUS
  <2> QED
    BY <1>7, <1>8, <1>10, <2>1
<1> QED
  BY <1>9, <1>11 DEF IsPercentile, v

-----------------------------------------------------------------------------
(* The ring and the window of the last samples.                            *)

\* Where the ring has the k-th of the samples it holds, oldest first.
Slot(ring, k) ==
  IF ~ring.filled THEN k - 1
  ELSE IF ring.next + k - 1 < RingSize THEN ring.next + k - 1 ELSE ring.next + k - 1 - RingSize

\* The ring holds the samples of the window.
HoldsWindow(ring, window) ==
  /\ ring \in Ring /\ window \in Seq(Latencies)
  /\ Len(window) = IF ring.filled THEN RingSize ELSE ring.next
  /\ \A k \in 1 .. Len(window) : window[k] = ring.values[Slot(ring, k)]

\* The next slot, without the modulo.
LEMMA NextSlot ==
  ASSUME NEW i \in 0 .. RingSize - 1
  PROVE  (i + 1) % RingSize = IF i + 1 = RingSize THEN 0 ELSE i + 1
<1>1. RingSize \in Nat \ {0}
  BY MonitorAssumption
<1>2. \A n \in Nat \ {0} : \A k \in 0 .. n : k % n = IF k = n THEN 0 ELSE k
  OBVIOUS
<1>3. i + 1 \in 0 .. RingSize
  BY <1>1
<1> QED
  BY <1>1, <1>2, <1>3

\* A new ring holds nothing.
LEMMA NewRingHolds == HoldsWindow(NewRingBuffer(RingSize), <<>>)
BY MonitorAssumption DEF HoldsWindow, NewRingBuffer, Ring, Latency

\* Add, field by field.
LEMMA AddFields ==
  ASSUME NEW ring \in Ring, NEW sample \in Latencies
  PROVE  LET new == Add(ring, sample)
         IN  /\ new \in Ring
             /\ new.next = IF ring.next + 1 = RingSize THEN 0 ELSE ring.next + 1
             /\ new.filled = (ring.filled \/ ring.next + 1 = RingSize)
             /\ new.values = [ring.values EXCEPT ![ring.next] = sample]
<1> DEFINE next == (ring.next + 1) % ring.size
<1>1. /\ ring.size = RingSize /\ ring.next \in 0 .. RingSize - 1 /\ RingSize \in Nat \ {0}
      /\ ring.filled \in BOOLEAN /\ ring.values \in [0 .. RingSize - 1 -> Latency]
  BY MonitorAssumption DEF Ring
<1>2. next = IF ring.next + 1 = RingSize THEN 0 ELSE ring.next + 1
  BY <1>1, NextSlot
<1>3. next \in 0 .. RingSize - 1
  BY <1>1, <1>2
<1>4. (ring.filled \/ next = 0) = (ring.filled \/ ring.next + 1 = RingSize)
  BY <1>1, <1>2
<1>5. sample \in Latency
  BY DEF Latency
<1>6. [ring.values EXCEPT ![ring.next] = sample] \in [0 .. RingSize - 1 -> Latency]
  BY <1>1, <1>5
<1>7. Add(ring, sample) = [ring EXCEPT !.values[ring.next] = sample, !.next = next,
                                      !.filled = ring.filled \/ next = 0]
  BY DEF Add
<1> HIDE DEF next
<1>8. /\ Add(ring, sample).values = [ring.values EXCEPT ![ring.next] = sample]
      /\ Add(ring, sample).next = next
      /\ Add(ring, sample).filled = (ring.filled \/ next = 0)
      /\ Add(ring, sample) \in Ring
  BY <1>1, <1>3, <1>6, <1>7 DEF Ring
<1> QED
  BY <1>2, <1>4, <1>8

\* After Add it holds one sample more, and no more than the last RingSize.
LEMMA AddHolds ==
  ASSUME NEW ring, NEW window, HoldsWindow(ring, window), NEW sample \in Latencies
  PROVE  LET longer == Append(window, sample)
             shown == IF Len(longer) > RingSize THEN Tail(longer) ELSE longer
         IN  HoldsWindow(Add(ring, sample), shown) /\ Len(shown) \in Nat \ {0}
<1> DEFINE longer == Append(window, sample)
<1> DEFINE shown == IF Len(longer) > RingSize THEN Tail(longer) ELSE longer
<1> DEFINE new == Add(ring, sample)
<1>1. /\ ring \in Ring /\ window \in Seq(Latencies) /\ RingSize \in Nat \ {0}
      /\ ring.next \in 0 .. RingSize - 1 /\ ring.filled \in BOOLEAN
      /\ ring.values \in [0 .. RingSize - 1 -> Latency]
      /\ Len(window) = IF ring.filled THEN RingSize ELSE ring.next
      /\ \A k \in 1 .. Len(window) : window[k] = ring.values[Slot(ring, k)]
  BY MonitorAssumption DEF HoldsWindow, Ring
<1>2. /\ new \in Ring
      /\ new.next = IF ring.next + 1 = RingSize THEN 0 ELSE ring.next + 1
      /\ new.filled = (ring.filled \/ ring.next + 1 = RingSize)
      /\ new.values = [ring.values EXCEPT ![ring.next] = sample]
  BY <1>1, AddFields
<1> HIDE DEF new
<1>3. /\ longer \in Seq(Latencies) /\ Len(longer) = Len(window) + 1
      /\ \A k \in 1 .. Len(window) : longer[k] = window[k]
      /\ longer[Len(window) + 1] = sample
  BY <1>1
<1> HIDE DEF longer
<1>4. \A i \in 0 .. RingSize - 1 : new.values[i] = IF i = ring.next THEN sample ELSE ring.values[i]
  BY <1>1, <1>2
<1>5. CASE ring.filled
  <2>1. Len(window) = RingSize /\ new.filled
    BY <1>1, <1>2, <1>5
  <2>2. shown = Tail(longer)
    BY <1>1, <1>3, <2>1
  <2>3. /\ shown \in Seq(Latencies) /\ Len(shown) = RingSize
        /\ \A k \in 1 .. RingSize : shown[k] = longer[k + 1]
    <3>1. longer # <<>>
      BY <1>1, <1>3, <2>1
    <3>2. /\ Tail(longer) \in Seq(Latencies) /\ Len(Tail(longer)) = Len(longer) - 1
          /\ \A k \in 1 .. Len(longer) - 1 : Tail(longer)[k] = longer[k + 1]
      BY <1>3, <3>1, HeadTailProperties
    <3> QED
      BY <1>1, <1>3, <2>1, <2>2, <3>2
  <2> HIDE DEF shown
  <2>4. ASSUME NEW k \in 1 .. RingSize
        PROVE  shown[k] = new.values[Slot(new, k)]
    <3>1. CASE k = RingSize
      <4>1. Slot(new, k) = ring.next
        BY <1>1, <1>2, <2>1, <3>1 DEF Slot
      <4>2. shown[k] = sample
        BY <1>3, <2>1, <2>3, <3>1
      <4> QED
        BY <1>1, <1>4, <4>1, <4>2
    <3>2. CASE k # RingSize
      <4>1. /\ k + 1 \in 1 .. RingSize
            /\ Slot(new, k) = Slot(ring, k + 1)
            /\ Slot(new, k) \in 0 .. RingSize - 1 /\ Slot(new, k) # ring.next
        <5>1. CASE ring.next + 1 = RingSize
          <6>1. new.next = 0 /\ Slot(new, k) = k - 1 /\ Slot(ring, k + 1) = k - 1
            BY <1>1, <1>2, <1>5, <2>1, <3>2, <5>1 DEF Slot
          <6> QED
            BY <1>1, <3>2, <5>1, <6>1
        <5>2. CASE ring.next + 1 # RingSize
          <6>1. new.next = ring.next + 1
            BY <1>2, <5>2
          <6> DEFINE slot == IF ring.next + k < RingSize THEN ring.next + k
                                                         ELSE ring.next + k - RingSize
          <6>2. Slot(new, k) = slot
            BY <1>1, <2>1, <6>1 DEF Slot
          <6>3. Slot(ring, k + 1) = slot
            BY <1>1, <1>5 DEF Slot
          <6> QED
            BY <1>1, <3>2, <5>2, <6>2, <6>3
        <5> QED
          BY <5>1, <5>2
      <4>2. shown[k] = ring.values[Slot(ring, k + 1)]
        BY <1>1, <1>3, <2>1, <2>3, <4>1
      <4> QED
        BY <1>4, <4>1, <4>2
    <3> QED
      BY <3>1, <3>2
  <2>5. HoldsWindow(new, shown)
    BY <1>2, <2>1, <2>3, <2>4 DEF HoldsWindow
  <2> QED
    BY <1>1, <2>3, <2>5 DEF new, shown, longer
<1>6. CASE ~ring.filled
  <2>1. Len(window) = ring.next /\ Len(longer) = ring.next + 1
    BY <1>1, <1>3, <1>6
  <2>2. shown = longer
    BY <1>1, <2>1
  <2> HIDE DEF shown
  <2>3. Len(longer) = IF new.filled THEN RingSize ELSE new.next
    BY <1>1, <1>2, <1>6, <2>1
  <2>4. ASSUME NEW k \in 1 .. Len(longer)
        PROVE  longer[k] = new.values[Slot(new, k)]
    <3>1. Slot(new, k) = k - 1 /\ k - 1 \in 0 .. RingSize - 1
      BY <1>1, <1>2, <1>6, <2>1 DEF Slot
    <3>2. CASE k = ring.next + 1
      BY <1>1, <1>3, <1>4, <2>1, <3>1, <3>2
    <3>3. CASE k # ring.next + 1
      <4>1. k \in 1 .. Len(window) /\ Slot(ring, k) = k - 1 /\ k - 1 # ring.next
        BY <1>1, <1>6, <2>1, <3>3 DEF Slot
      <4> QED
        BY <1>1, <1>3, <1>4, <3>1, <4>1
    <3> QED
      BY <3>2, <3>3
  <2>5. HoldsWindow(new, longer)
    BY <1>2, <1>3, <2>3, <2>4 DEF HoldsWindow
  <2> QED
    BY <1>1, <2>1, <2>2, <2>5 DEF new, shown, longer
<1> QED
  BY <1>1, <1>5, <1>6

\* Values returns the samples of the window, turned by the place of next.
LEMMA ValuesTurnWindow ==
  ASSUME NEW ring, NEW window, HoldsWindow(ring, window)
  PROVE  LET n == Len(window)
         IN  /\ Values(ring) \in [1 .. n -> Latencies]
             /\ \E turn \in Bijection(1 .. n, 1 .. n) :
                  \A i \in 1 .. n : Values(ring)[i] = window[turn[i]]
<1> DEFINE n == Len(window)
<1>1. /\ window \in Seq(Latencies) /\ RingSize \in Nat \ {0} /\ ring.size = RingSize
      /\ ring.next \in 0 .. RingSize - 1 /\ ring.filled \in BOOLEAN
      /\ n = IF ring.filled THEN RingSize ELSE ring.next
      /\ \A k \in 1 .. n : window[k] = ring.values[Slot(ring, k)]
  BY MonitorAssumption DEF HoldsWindow, Ring
<1>2. n \in Nat /\ \A k \in 1 .. n : window[k] \in Latencies
  BY <1>1
<1>3. Values(ring) = [i \in 1 .. n |-> ring.values[i - 1]]
  BY <1>1 DEF Values
<1> HIDE DEF n
<1> DEFINE turn == [i \in 1 .. n |->
                     IF ~ring.filled THEN i
                     ELSE IF i > ring.next THEN i - ring.next ELSE i - ring.next + RingSize]
<1>4. turn \in [1 .. n -> 1 .. n]
  BY <1>1, <1>2
<1>5. ASSUME NEW i \in 1 .. n
      PROVE  turn[i] \in 1 .. n /\ Slot(ring, turn[i]) = i - 1
  <2>1. CASE ~ring.filled
    <3>1. turn[i] = i
      BY <2>1
    <3> QED
      BY <1>1, <2>1, <3>1 DEF Slot
  <2>2. CASE ring.filled /\ i > ring.next
    <3>1. turn[i] = i - ring.next
      BY <2>2
    <3> HIDE DEF turn
    <3> QED
      BY <1>1, <2>2, <3>1 DEF Slot
  <2>3. CASE ring.filled /\ ~(i > ring.next)
    <3>1. turn[i] = i - ring.next + RingSize
      BY <2>3
    <3> HIDE DEF turn
    <3> QED
      BY <1>1, <2>3, <3>1 DEF Slot
  <2> QED
    BY <1>1, <2>1, <2>2, <2>3
<1>6. \A i, j \in 1 .. n : turn[i] = turn[j] => i = j
  BY <1>1, <1>2
<1>7. ASSUME NEW k \in 1 .. n
      PROVE  \E i \in 1 .. n : turn[i] = k
  <2>1. CASE ~ring.filled
    BY <2>1
  <2>2. CASE ring.filled /\ ring.next + k =< RingSize
    <3>1. ring.next + k \in 1 .. n /\ ring.next + k > ring.next /\ (ring.next + k) - ring.next = k
      BY <1>1, <2>2
    <3> QED
      BY <2>2, <3>1
  <2>3. CASE ring.filled /\ ring.next + k > RingSize
    <3> DEFINE i == ring.next + k - RingSize
    <3>1. i \in 1 .. n /\ ~(i > ring.next) /\ i - ring.next + RingSize = k
      BY <1>1, <2>3
    <3> HIDE DEF i
    <3> QED
      BY <2>3, <3>1
  <2>4. ~(ring.next + k =< RingSize) => ring.next + k > RingSize
    BY <1>1
  <2> QED
    BY <1>1, <2>1, <2>2, <2>3, <2>4
<1> HIDE DEF turn
<1>8. turn \in Bijection(1 .. n, 1 .. n)
  BY <1>4, <1>6, <1>7 DEF Bijection, Injection, Surjection, IsInjective
<1>9. \A i \in 1 .. n : Values(ring)[i] = window[turn[i]]
  BY <1>1, <1>3, <1>5
<1>10. Values(ring) \in [1 .. n -> Latencies]
  BY <1>2, <1>3, <1>5, <1>9
<1> QED
  BY <1>8, <1>9, <1>10 DEF n

\* The percentiles of what a ring returns are those of the window it holds.
LEMMA PercentileOfWindow ==
  ASSUME NEW ring, NEW window, HoldsWindow(ring, window), Len(window) # 0,
         NEW p \in 1 .. 100
  PROVE  /\ IsPercentile(Percentile(Values(ring), p), window, p)
         /\ Percentile(Values(ring), p) \in Latencies
<1> DEFINE n == Len(window)
<1> DEFINE values == Values(ring)
<1>1. window \in Seq(Int) /\ n \in Nat \ {0}
  <2>1. window \in Seq(Latencies) /\ Latencies \subseteq Int
    BY MonitorAssumption DEF HoldsWindow
  <2>2. window \in [1 .. Len(window) -> Int] /\ Len(window) \in Nat
    <3>1. window \in [1 .. Len(window) -> Latencies] /\ Len(window) \in Nat
      BY <2>1
    <3> QED
      BY <2>1, <3>1
  <2>3. window \in Seq(Int)
    BY <2>2
  <2> QED
    BY <2>2, <2>3
<1>2. values \in [1 .. n -> Latencies] /\ values \in [1 .. n -> Int]
  <2>1. values \in [1 .. n -> Latencies]
    BY ValuesTurnWindow
  <2>2. Latencies \subseteq Int
    BY MonitorAssumption
  <2> HIDE DEF values, n
  <2> QED
    BY <2>1, <2>2
<1>3. PICK turn \in Bijection(1 .. n, 1 .. n) : \A i \in 1 .. n : values[i] = window[turn[i]]
  BY ValuesTurnWindow
<1> HIDE DEF values, n
<1>4. PICK sorting : Sorts(sorting, values)
                     /\ Ascending(values) = [i \in 1 .. n |-> values[sorting[i]]]
  BY <1>1, <1>2, AscendingSorts
<1>5. /\ sorting \in Bijection(1 .. n, 1 .. n)
      /\ \A i, j \in 1 .. n : i < j => values[sorting[i]] =< values[sorting[j]]
  <2>1. DOMAIN values = 1 .. n
    BY <1>2
  <2> QED
    BY <1>4, <2>1 DEF Sorts
<1>6. \A i \in 1 .. n : sorting[i] \in 1 .. n
  BY <1>5 DEF Bijection, Injection
<1> DEFINE order == [i \in 1 .. n |-> turn[sorting[i]]]
<1>7. order \in Bijection(1 .. n, 1 .. n)
  BY <1>5, Fun_BijTransitive
<1>8. \A i \in 1 .. n : window[order[i]] = values[sorting[i]]
  BY <1>3, <1>6
<1> HIDE DEF order
<1>9. \A i, j \in 1 .. n : i < j => window[order[i]] =< window[order[j]]
  BY <1>5, <1>8
<1> DEFINE rank == (p * n + 99) \div 100
<1>10. rank \in 1 .. n /\ 100 * (rank - 1) < p * n /\ p * n =< 100 * rank
  BY <1>1, Rank
<1>11. Percentile(values, p) = values[sorting[rank]]
  <2>1. values # <<>> /\ Len(values) = n
    BY <1>1, <1>2
  <2>2. Percentile(values, p) = Ascending(values)[CASE rank < 1 -> 1 [] rank > n -> n [] OTHER -> rank]
    BY <2>1 DEF Percentile
  <2> HIDE DEF rank
  <2>3. (CASE rank < 1 -> 1 [] rank > n -> n [] OTHER -> rank) = rank
    BY <1>1, <1>10
  <2> QED
    BY <1>4, <1>10, <2>2, <2>3
<1> HIDE DEF rank
<1>12. IsPercentile(window[order[rank]], window, p)
  BY <1>1, <1>7, <1>9, <1>10, RankIsPercentile DEF n
<1>13. values[sorting[rank]] \in Latencies
  BY <1>2, <1>6, <1>10
<1> QED
  BY <1>8, <1>10, <1>11, <1>12, <1>13 DEF values

-----------------------------------------------------------------------------
(* The inductive invariant of the percentiles.                             *)

\* The ring of a service holds the last samples of it; a service without a
\* ring was never checked.
RingsHoldSamples ==
  \A s \in Services :
    IF latency[s] = None THEN samples[s] = <<>> ELSE HoldsWindow(latency[s], samples[s])

\* Whoever is checked was registered, and has a ring from then on.
CheckedHaveRings ==
  /\ \A s \in Services : services[s] # None => latency[s] # None
  /\ \A p \in Probes : flight[p] # None => services[flight[p].service] # None

WindowInv ==
  /\ TypeOK
  /\ RingsHoldSamples
  /\ CheckedHaveRings
  /\ ScoreShowsLastSamples

\* The types of TypeOK are those of the events and three more.
LEMMA TypesOfWindow ==
  TypeOK <=> /\ EventTypes
             /\ latency \in [Services -> Ring \cup {None}]
             /\ scores \in [Services -> ScoreRecord]
             /\ samples \in [Services -> Seq(Latencies)]
BY DEF TypeOK, EventTypes

LEMMA InitWindow ==
  ASSUME Init
  PROVE  WindowInv
<1>1. EventTypes
  BY InitIInv DEF IInv
<1>2. NoScore \in ScoreRecord
  BY DEF NoScore, ScoreRecord, Latency
<1>3. TypeOK
  BY <1>1, <1>2, TypesOfWindow DEF Init
<1>4. RingsHoldSamples /\ CheckedHaveRings
  BY DEF Init, RingsHoldSamples, CheckedHaveRings
<1>5. ScoreShowsLastSamples
  BY DEF Init, ScoreShowsLastSamples, Scored, NoScore
<1> QED
  BY <1>3, <1>4, <1>5 DEF WindowInv

\* A step that records no check and registers nobody.
LEMMA WindowKept ==
  ASSUME WindowInv, EventTypes', UNCHANGED <<services, latency, scores, samples>>,
         \A p \in Probes : flight'[p] # None => services[flight'[p].service] # None
  PROVE  WindowInv'
<1>1. TypeOK'
  BY TypesOfWindow DEF WindowInv, TypeOK, EventTypes
<1>2. RingsHoldSamples' /\ CheckedHaveRings'
  BY DEF WindowInv, RingsHoldSamples, CheckedHaveRings
<1>3. ScoreShowsLastSamples'
  BY DEF WindowInv, ScoreShowsLastSamples, Scored
<1> QED
  BY <1>1, <1>2, <1>3 DEF WindowInv

LEMMA RegisterKeepsWindow ==
  ASSUME WindowInv, EventTypes', NEW s \in Services, NEW a \in Addresses, Register(s, a)
  PROVE  WindowInv'
<1> DEFINE fresh == NewRingBuffer(RingSize)
<1>1. /\ services' = [services EXCEPT ![s] = a]
      /\ latency' = [latency EXCEPT ![s] = IF latency[s] = None THEN fresh ELSE latency[s]]
      /\ UNCHANGED <<scores, samples, flight>>
  BY DEF Register
<1>2. HoldsWindow(fresh, <<>>) /\ fresh \in Ring /\ fresh # None
  BY NewRingHolds, MonitorAssumption DEF HoldsWindow
<1> HIDE DEF fresh
<1>3. /\ \A u \in Services : u # s => latency'[u] = latency[u] /\ services'[u] = services[u]
      /\ latency'[s] = IF latency[s] = None THEN fresh ELSE latency[s]
      /\ services'[s] = a
  BY <1>1 DEF WindowInv, TypeOK
<1>4. latency' \in [Services -> Ring \cup {None}]
  BY <1>1, <1>2 DEF WindowInv, TypeOK
<1>5. TypeOK'
  BY <1>1, <1>4 DEF WindowInv, TypeOK, EventTypes
<1>6. RingsHoldSamples'
  BY <1>1, <1>2, <1>3 DEF WindowInv, RingsHoldSamples
<1>7. CheckedHaveRings'
  <2>1. \A u \in Services : services'[u] # None => latency'[u] # None
    BY <1>2, <1>3 DEF WindowInv, CheckedHaveRings
  <2>2. \A p \in Probes : flight'[p] # None => services'[flight'[p].service] # None
    <3>1. a # None
      BY MonitorAssumption
    <3>2. \A p \in Probes : flight[p] # None => flight[p].service \in Services
      BY DEF WindowInv, TypeOK, ProbeRecord
    <3> QED
      BY <1>1, <1>3, <3>1, <3>2 DEF WindowInv, CheckedHaveRings
  <2> QED
    BY <2>1, <2>2 DEF CheckedHaveRings
<1>8. ScoreShowsLastSamples'
  BY <1>1 DEF WindowInv, ScoreShowsLastSamples, Scored
<1> QED
  BY <1>5, <1>6, <1>7, <1>8 DEF WindowInv

LEMMA RecordKeepsWindow ==
  ASSUME WindowInv, WriterAnswered, EventTypes', NEW p \in Probes, NEW sample \in Latencies,
         Record(p, sample)
  PROVE  WindowInv'
<1>1. PICK s \in Services, status \in HealthStatus :
        s = flight[p].service /\ status = flight[p].answer
  BY DEF Record, Exclusive, WindowInv, TypeOK, WriterAnswered, ProbeRecord
<1> DEFINE longer == Append(samples[s], sample)
<1>2. PICK ring, window :
        ring = Add(latency[s], sample)
        /\ window = IF Len(longer) > RingSize THEN Tail(longer) ELSE longer
  OBVIOUS
<1>3. HoldsWindow(latency[s], samples[s])
  <2>1. latency[s] # None
    BY <1>1 DEF Record, WindowInv, CheckedHaveRings
  <2> QED
    BY <2>1 DEF WindowInv, RingsHoldSamples
<1>4. HoldsWindow(ring, window) /\ Len(window) # 0
  BY <1>2, <1>3, AddHolds
<1>5. /\ latency' = [latency EXCEPT ![s] = ring]
      /\ samples' = [samples EXCEPT ![s] = window]
      /\ flight' = [flight EXCEPT ![p] = None]
      /\ UNCHANGED services
  BY <1>1, <1>2 DEF Record
<1>6. latency'[s] = ring /\ ring \in Ring /\ ring # None /\ window \in Seq(Latencies)
  BY <1>4, <1>5, MonitorAssumption DEF WindowInv, TypeOK, HoldsWindow
<1>7. scores' = [scores EXCEPT ![s] = Score(status, Values(ring))]
  BY <1>1, <1>6 DEF Record
<1>8. /\ \A q \in {50, 95, 99} :
           /\ IsPercentile(Percentile(Values(ring), q), window, q)
           /\ Percentile(Values(ring), q) \in Latency
  BY <1>4, PercentileOfWindow DEF Latency
<1>9. PICK score \in ScoreRecord :
         /\ score = Score(status, Values(ring))
         /\ IsPercentile(score.p50, window, 50)
         /\ IsPercentile(score.p95, window, 95)
         /\ IsPercentile(score.p99, window, 99)
  <2> DEFINE score == Score(status, Values(ring))
  <2>1. score = [status |-> status,
                 p50 |-> Percentile(Values(ring), 50), p95 |-> Percentile(Values(ring), 95),
                 p99 |-> Percentile(Values(ring), 99)]
    BY DEF Score
  <2> HIDE DEF score
  <2>2. score \in ScoreRecord
    BY <1>8, <2>1 DEF ScoreRecord
  <2>3. /\ score.p50 = Percentile(Values(ring), 50) /\ score.p95 = Percentile(Values(ring), 95)
        /\ score.p99 = Percentile(Values(ring), 99)
    BY <2>1
  <2> QED
    BY <1>8, <2>2, <2>3 DEF score
<1>10. /\ latency' \in [Services -> Ring \cup {None}]
       /\ samples' \in [Services -> Seq(Latencies)]
       /\ scores' \in [Services -> ScoreRecord]
  BY <1>5, <1>6, <1>7, <1>9 DEF WindowInv, TypeOK
<1>11. TypeOK'
  BY <1>10 DEF TypeOK, EventTypes
<1>12. RingsHoldSamples'
  BY <1>4, <1>5, <1>6 DEF WindowInv, RingsHoldSamples, TypeOK
<1>13. CheckedHaveRings'
  BY <1>5, <1>6 DEF WindowInv, CheckedHaveRings, TypeOK
<1>14. ScoreShowsLastSamples'
  <2>1. scores'[s] = score /\ samples'[s] = window
    BY <1>5, <1>7, <1>9 DEF WindowInv, TypeOK
  <2>2. \A u \in Services : u # s => scores'[u] = scores[u] /\ samples'[u] = samples[u]
    BY <1>5, <1>7 DEF WindowInv, TypeOK
  <2> QED
    BY <1>9, <2>1, <2>2 DEF WindowInv, ScoreShowsLastSamples, Scored
<1> QED
  BY <1>11, <1>12, <1>13, <1>14 DEF WindowInv

\* A check is started for services that are registered.
LEMMA SnapshotKeepsWindow ==
  ASSUME WindowInv, EventTypes', Snapshot
  PROVE  WindowInv'
<1>1. PICK goroutine \in [Registered -> Idle] :
        flight' = [p \in Probes |->
            IF \E s \in Registered : goroutine[s] = p
            THEN LET s == CHOOSE s \in Registered : goroutine[s] = p
                 IN  [service |-> s, address |-> services[s], answer |-> None]
            ELSE flight[p]]
  BY DEF Snapshot
<1>2. ASSUME NEW p \in Probes, flight'[p] # None
      PROVE  services[flight'[p].service] # None
  <2>1. CASE \E s \in Registered : goroutine[s] = p
    <3>1. PICK s \in Registered : s = CHOOSE k \in Registered : goroutine[k] = p
      BY <2>1
    <3>2. flight'[p] = [service |-> s, address |-> services[s], answer |-> None]
      BY <1>1, <2>1, <3>1
    <3> QED
      BY <3>2 DEF Registered
  <2>2. CASE ~(\E s \in Registered : goroutine[s] = p)
    BY <1>1, <1>2, <2>2 DEF WindowInv, CheckedHaveRings
  <2> QED
    BY <2>1, <2>2
<1> QED
  BY <1>2, WindowKept DEF Snapshot

LEMMA StepWindow ==
  ASSUME WindowInv, IInv, EventTypes', [Next]_vars
  PROVE  WindowInv'
<1>1. ASSUME UNCHANGED <<services, latency, scores, samples, flight>>
      PROVE  WindowInv'
  BY <1>1, WindowKept DEF WindowInv, CheckedHaveRings
<1>2. ASSUME NEW s \in Services, NEW a \in Addresses, LockToRegister(s, a) \/ Register(s, a)
      PROVE  WindowInv'
  BY <1>1, <1>2, RegisterKeepsWindow DEF LockToRegister
<1>3. CASE Tick
  BY <1>1, <1>3 DEF Tick
<1>4. CASE Snapshot
  BY <1>4, SnapshotKeepsWindow
<1>5. ASSUME NEW p \in Probes, Answer(p)
      PROVE  WindowInv'
  <2>1. \A q \in Probes : flight'[q] # None => flight[q] # None /\ flight'[q].service = flight[q].service
    <3>1. flight[p] # None /\ flight[p] \in ProbeRecord
      BY <1>5 DEF Answer, WindowInv, TypeOK
    <3>2. flight' = [flight EXCEPT ![p] = [flight[p] EXCEPT !.answer = health[flight[p].address]]]
      BY <1>5 DEF Answer
    <3> QED
      BY <3>1, <3>2 DEF WindowInv, TypeOK, ProbeRecord
  <2> QED
    BY <1>5, <2>1, WindowKept DEF Answer, WindowInv, CheckedHaveRings
<1>6. ASSUME NEW p \in Probes, LockToRecord(p)
      PROVE  WindowInv'
  BY <1>1, <1>6 DEF LockToRecord
<1>7. ASSUME NEW p \in Probes, NEW sample \in Latencies, Record(p, sample)
      PROVE  WindowInv'
  BY <1>7, RecordKeepsWindow DEF IInv
<1>8. ASSUME NEW c \in Clients, Read(c) \/ Sent(c)
      PROVE  WindowInv'
  BY <1>1, <1>8 DEF Read, Sent
<1>9. ASSUME NEW a \in Addresses, NEW status \in HealthStatus, Shift(a, status)
      PROVE  WindowInv'
  BY <1>1, <1>9 DEF Shift
<1>10. CASE UNCHANGED vars
  BY <1>1, <1>10 DEF vars
<1> QED
  BY <1>2, <1>3, <1>4, <1>5, <1>6, <1>7, <1>8, <1>9, <1>10 DEF Next

LEMMA AlwaysWindow == Spec => []WindowInv
<1>1. IInv => EventTypes
  BY DEF IInv
<1>2. WindowInv /\ IInv /\ EventTypes' /\ [Next]_vars => WindowInv'
  BY StepWindow
<1>3. Init => WindowInv
  BY InitWindow
<1> QED
  BY <1>1, <1>2, <1>3, AlwaysIInv, PTL DEF Spec

-----------------------------------------------------------------------------
(* Theorems.                                                               *)

\* Every variable keeps its type, and the events their bound.
THEOREM TypeCorrect == Spec => []TypeOK
<1>1. WindowInv => TypeOK
  BY DEF WindowInv
<1> QED
  BY <1>1, AlwaysWindow, PTL

\* The latencies of a score are percentiles of the last samples of its service,
\* for a ring of any size: what the ring returns is the window, turned by the
\* place where the next sample goes, and Percentile puts it in order.
THEOREM ScoresShowLastSamples == Spec => []ScoreShowsLastSamples
<1>1. WindowInv => ScoreShowsLastSamples
  BY DEF WindowInv
<1> QED
  BY <1>1, AlwaysWindow, PTL

\* The newest event of a service carries the status of its score, and a score
\* has its event for as long as the log has room: Check changes events and
\* scores in one critical section.
THEOREM EventsAndScoresAgree == Spec => []EventsAgreeWithScores
<1>1. IInv => EventsAgreeWithScores
  BY DEF IInv
<1> QED
  BY <1>1, AlwaysIInv, PTL

\* An outage and the health event of the same check stand side by side in the
\* events, whatever other goroutines record, until the cut takes the outage.
THEOREM OutagesStayAnnounced == Spec => []OutagesAnnounced
<1>1. IInv => OutagesAnnounced
  BY DEF IInv
<1> QED
  BY <1>1, AlwaysIInv, PTL

=============================================================================

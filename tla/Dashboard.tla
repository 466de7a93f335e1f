----------------------------- MODULE Dashboard -----------------------------
(***************************************************************************)
(* The way of an event from Kafka to the dashboards.  Every gateway runs a *)
(* hub, and all hubs are members of one consumer group: a partition, of    *)
(* which a topic has one here, is read by one hub at a time, which emits   *)
(* its messages to the browsers connected to that gateway.  A browser puts *)
(* what it receives into a buffer per kind of event, newest first, and     *)
(* merges the health events into a snapshot that holds fixed figures.      *)
(***************************************************************************)
EXTENDS BoundedLog, FiniteSets

CONSTANTS
  Hubs, Browsers,
  Topics,     \* some of DASHBOARD_TOPICS, without their prefix
  Services,   \* services that events are about
  Scores,     \* the health scores events carry
  Missing,    \* no score
  Malformed,  \* a message that is not JSON
  Nobody,
  BufferCap,  \* 100 in the code
  TopicCap,   \* bound on the messages of all topics
  HubKills    \* bound on the crashes

DASHBOARD_TOPICS ==
  {"anomaly.detected", "healing.started", "healing.complete", "scale.event",
   "service.health", "chaos.started", "chaos.completed", "notification.sent"}

ASSUME DashboardAssumption ==
  /\ Topics \subseteq DASHBOARD_TOPICS
  /\ Scores \subseteq 0 .. 100 /\ Missing \notin Scores
  /\ Nobody \notin Hubs
  /\ BufferCap \in Nat \ {0} /\ TopicCap \in Nat /\ HubKills \in Nat

Event == [service : Services, score : Scores \cup {Missing}]

ASSUME MalformedAssumption == Malformed \notin Event

VARIABLES
  messages,   \* the messages of each topic (Kafka)
  owner,      \* the hub each topic is assigned to, or Nobody (Kafka)
  offset,     \* the offset committed for the group, 0 for none (Kafka)
  next,       \* the message of each topic its owner gets next
  resolved,   \* the offset of each topic its owner commits next, 0 for none
  hub,        \* "down", "deaf" (its consumer was given up) or "consuming"
  socket,     \* the hub each browser is connected to, or Nobody
  buffers,    \* the store of useRealtime
  snapshot,   \* what getSnapshot returned last
  hubKills,
  emitted,    \* the messages of each topic emitted or left out (history)
  received    \* the messages of each topic pushed in each browser (history)

kafka == <<messages, owner, offset>>
consuming == <<next, resolved>>
dashboardVars == <<kafka, consuming, hub, socket, buffers, snapshot, hubKills, emitted,
                   received>>

\* The buffer the events of a topic are pushed to.  Slip: the client listens
\* to an event the hub does not emit.
BufferOfCompleted == [t \in {"healing.started", "healing.completed"} |-> "healing"]

Buffer ==
  [t \in DASHBOARD_TOPICS \ {"notification.sent"} |->
    CASE t = "anomaly.detected" -> "anomalies"
      [] t \in {"healing.started", "healing.complete"} -> "healing"
      [] t = "scale.event" -> "scaling"
      [] t = "service.health" -> "health"
      [] t \in {"chaos.started", "chaos.completed"} -> "chaos"]

Buffers == {"anomalies", "healing", "scaling", "health", "chaos"}

DashboardInit ==
  /\ messages = [t \in Topics |-> <<>>]
  /\ owner = [t \in Topics |-> Nobody]
  /\ offset = [t \in Topics |-> 0]
  /\ next = [t \in Topics |-> 1]
  /\ resolved = [t \in Topics |-> 0]
  /\ hub = [h \in Hubs |-> "down"]
  /\ socket = [b \in Browsers |-> Nobody]
  /\ buffers = [b \in Browsers |-> [k \in Buffers |-> <<>>]]
  /\ snapshot = [b \in Browsers |-> "fallback"]
  /\ hubKills = 0
  /\ emitted = [t \in Topics |-> {}]
  /\ received = [b \in Browsers |-> [t \in Topics |-> {}]]

-----------------------------------------------------------------------------
(* Kafka and the gateways.                                                 *)

Size == Cardinality({m \in Topics \X (1 .. TopicCap) : m[2] =< Len(messages[m[1]])})

Publish(t, m) ==
  /\ Size < TopicCap
  /\ messages' = [messages EXCEPT ![t] = Append(@, m)]
  /\ UNCHANGED <<owner, offset, consuming, hub, socket, buffers, snapshot, hubKills, emitted,
                 received>>

\* attachSocketHub.  When Kafka cannot be reached the hub goes without it for
\* as long as the process lives.
HubStarts(h, connected) ==
  /\ hub[h] = "down"
  /\ hub' = [hub EXCEPT ![h] = IF connected THEN "consuming" ELSE "deaf"]
  /\ UNCHANGED <<kafka, consuming, socket, buffers, snapshot, hubKills, emitted, received>>

\* The gateway crashes: its browsers lose their connections, the group a member.
HubStops(h) ==
  /\ hub[h] # "down" /\ hubKills < HubKills
  /\ hubKills' = hubKills + 1
  /\ hub' = [hub EXCEPT ![h] = "down"]
  /\ socket' = [b \in Browsers |-> IF socket[b] = h THEN Nobody ELSE socket[b]]
  /\ owner' = [t \in Topics |-> IF owner[t] = h THEN Nobody ELSE owner[t]]
  /\ UNCHANGED <<messages, offset, consuming, buffers, snapshot, emitted, received>>

\* The group is rebalanced.  The new owner begins at the committed offset, at
\* the end of the topic if there is none (fromBeginning: false).
Rebalance(t, h) ==
  /\ hub[h] = "consuming" /\ owner[t] # h
  /\ owner' = [owner EXCEPT ![t] = h]
  /\ LET start == IF offset[t] = 0 THEN Len(messages[t]) + 1 ELSE offset[t]
     IN  /\ next' = [next EXCEPT ![t] = start]
         /\ emitted' = [emitted EXCEPT ![t] = @ \cup 1 .. start - 1]
  /\ resolved' = [resolved EXCEPT ![t] = 0]
  /\ UNCHANGED <<messages, offset, hub, socket, buffers, snapshot, hubKills, received>>

\* push.
Pushed(b, t, m) ==
  [buffers[b] EXCEPT ![Buffer[t]] = Push(@, m, BufferCap)]

\* Whether browser b has a listener for what hub h emits of topic t.
Hears(b, h, t) == socket[b] = h /\ t \in DOMAIN Buffer

\* Slip: the message behind the one that was emitted is resolved with it.
ResolvedBehind(t) == next[t] + 2

\* eachMessage has returned.
Resolved(t) == next[t] + 1

\* eachMessage: emitted to whoever is connected now.  A message that is not
\* JSON makes it raise, and is fetched again and again.
Emit(t) ==
  /\ owner[t] # Nobody
  /\ next[t] =< Len(messages[t])
  /\ messages[t][next[t]] # Malformed
  /\ buffers' = [b \in Browsers |->
       IF Hears(b, owner[t], t) THEN Pushed(b, t, messages[t][next[t]]) ELSE buffers[b]]
  /\ received' = [b \in Browsers |->
       IF Hears(b, owner[t], t) THEN [received[b] EXCEPT ![t] = @ \cup {next[t]}]
                                ELSE received[b]]
  /\ emitted' = [emitted EXCEPT ![t] = @ \cup {next[t]}]
  /\ next' = [next EXCEPT ![t] = @ + 1]
  /\ resolved' = [resolved EXCEPT ![t] = Resolved(t)]
  /\ UNCHANGED <<kafka, hub, socket, snapshot, hubKills>>

\* The owner commits what it has resolved, in its own time.
CommitOffset(t) ==
  /\ owner[t] # Nobody /\ resolved[t] # 0
  /\ offset' = [offset EXCEPT ![t] = resolved[t]]
  /\ resolved' = [resolved EXCEPT ![t] = 0]
  /\ UNCHANGED <<messages, owner, next, hub, socket, buffers, snapshot, hubKills, emitted,
                 received>>

-----------------------------------------------------------------------------
(* The browser.                                                            *)

\* The socket connects, to whichever gateway answers.  The snapshot it is sent
\* has no listener.
Connect(b, h) ==
  /\ socket[b] = Nobody /\ hub[h] # "down"
  /\ socket' = [socket EXCEPT ![b] = h]
  /\ UNCHANGED <<kafka, consuming, hub, buffers, snapshot, hubKills, emitted, received>>

Disconnect(b) ==
  /\ socket[b] # Nobody
  /\ socket' = [socket EXCEPT ![b] = Nobody]
  /\ UNCHANGED <<kafka, consuming, hub, buffers, snapshot, hubKills, emitted, received>>

\* getSnapshot, every ten seconds, with the fallback for any failure.
Refetch(b, from) ==
  /\ from = "fallback" \/ \E h \in Hubs : hub[h] # "down"
  /\ snapshot' = [snapshot EXCEPT ![b] = from]
  /\ UNCHANGED <<kafka, consuming, hub, socket, buffers, hubKills, emitted, received>>

\* The page is loaded again and its store is empty.
Reload(b) ==
  /\ socket' = [socket EXCEPT ![b] = Nobody]
  /\ buffers' = [buffers EXCEPT ![b] = [k \in Buffers |-> <<>>]]
  /\ snapshot' = [snapshot EXCEPT ![b] = "fallback"]
  /\ UNCHANGED <<kafka, consuming, hub, hubKills, emitted, received>>

-----------------------------------------------------------------------------

DashboardNext ==
  \/ \E t \in Topics :
       \/ \E m \in Event \cup {Malformed} : Publish(t, m)
       \/ \E h \in Hubs : Rebalance(t, h)
       \/ Emit(t) \/ CommitOffset(t)
  \/ \E h \in Hubs : HubStops(h) \/ \E connected \in BOOLEAN : HubStarts(h, connected)
  \/ \E b \in Browsers :
       \/ Disconnect(b) \/ Reload(b)
       \/ \E h \in Hubs : Connect(b, h)
       \/ \E from \in {"gateway", "fallback"} : Refetch(b, from)

DashboardSpec == DashboardInit /\ [][DashboardNext]_dashboardVars

-----------------------------------------------------------------------------
(* What App shows of it.                                                   *)

ServiceNames ==
  <<"api-gateway", "auth-service", "user-service", "data-service", "worker-service",
    "ai-service", "metrics-aggregator", "healing-orchestrator", "notification-service",
    "chaos-service", "health-monitor">>

\* The health scores of a snapshot, the same whatever happens.
syntheticSnapshot ==
  [s \in {ServiceNames[i] : i \in 1 .. 11} |->
    LET score == 101 - 2 * CHOOSE i \in 1 .. 11 : ServiceNames[i] = s
    IN  IF score < 72 THEN 72 ELSE score]

\* It lacks the health monitor.
fallbackSnapshot ==
  [s \in {ServiceNames[i] : i \in 1 .. 10} |->
    LET scores == <<98, 96, 94, 78, 87, 91, 89, 92, 84, 99>>
    IN  scores[CHOOSE i \in 1 .. 10 : ServiceNames[i] = s]]

Snapshot(b) == IF snapshot[b] = "gateway" THEN syntheticSnapshot ELSE fallbackSnapshot

EventsOf(b, s) ==
  {i \in 1 .. Len(buffers[b]["health"]) : buffers[b]["health"][i].service = s}

\* The Map takes one entry after the other of a buffer that is newest first.
HealthByService(b, s) ==
  LET last == CHOOSE i \in EventsOf(b, s) : \A k \in EventsOf(b, s) : k =< i
  IN  buffers[b]["health"][last].score

\* The score a node of the map shows.
Shown(b, s) ==
  IF EventsOf(b, s) = {} \/ HealthByService(b, s) = Missing
  THEN Snapshot(b)[s]
  ELSE HealthByService(b, s)

colorFor(score) == IF score >= 90 THEN "green" ELSE IF score >= 75 THEN "amber" ELSE "red"

-----------------------------------------------------------------------------
(* Properties.                                                             *)

\* Every variable has its type, the buffers within their bound.
DashboardTypeOK ==
  /\ messages \in [Topics -> Seq(Event \cup {Malformed})]
  /\ owner \in [Topics -> Hubs \cup {Nobody}]
  /\ offset \in [Topics -> Nat] /\ next \in [Topics -> Nat \ {0}]
  /\ resolved \in [Topics -> Nat]
  /\ hub \in [Hubs -> {"down", "deaf", "consuming"}]
  /\ socket \in [Browsers -> Hubs \cup {Nobody}]
  /\ buffers \in [Browsers -> [Buffers -> Seq(Event)]]
  /\ \A b \in Browsers, k \in Buffers : Len(buffers[b][k]) =< BufferCap
  /\ snapshot \in [Browsers -> {"gateway", "fallback"}]
  /\ hubKills \in 0 .. HubKills
  /\ emitted \in [Topics -> SUBSET Nat]
  /\ received \in [Browsers -> [Topics -> SUBSET Nat]]

\* Rebalances and crashes at any moment cost no message of a group that has an
\* offset its emission: what the offset has left behind was emitted by some
\* hub, or published before the group had one.
EmittedBeforeCommitted ==
  \A t \in Topics : \A i \in 1 .. offset[t] - 1 : i \in emitted[t]

\* The message i of topic t is ahead, with no malformed one in its way.
Ahead(t, i) ==
  /\ i \in next[t] .. Len(messages[t])
  /\ \A k \in next[t] .. i : messages[t][k] # Malformed

\* The browser is connected to the gateway that reads the topic.
Linked(b, t) == socket[b] # Nobody /\ socket[b] = owner[t]

\* A browser that stays connected to the very gateway the topic is assigned to
\* receives whatever is ahead in it, of every topic but the one the dashboard
\* does not show.
EventsArrive ==
  \A b \in Browsers, t \in Topics \ {"notification.sent"}, i \in 1 .. TopicCap :
    Ahead(t, i) /\ []Linked(b, t) ~> i \in received[b][t]

\* Claimed by docs/source-documentation.md: "Dashboard shows the node turning
\* red in real time".  A service whose newest event in a browser is of a score
\* below 75 is red there.
NodeTurnsRed ==
  \A b \in Browsers, s \in Services : EventsOf(b, s) # {} =>
    LET newest == CHOOSE i \in EventsOf(b, s) : \A k \in EventsOf(b, s) : i =< k
        score == buffers[b]["health"][newest].score
    IN  score # Missing /\ score < 75 => colorFor(Shown(b, s)) = "red"

=============================================================================

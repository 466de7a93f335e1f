------------------------ MODULE NotificationService ------------------------
(***************************************************************************)
(* The notification service.  Alerts come in as HTTP requests and as Kafka *)
(* messages; deliver suppresses an alert whose key was seen within five    *)
(* minutes, and otherwise marks the key, awaits the channel, and puts a    *)
(* record into the history.  Everything between two awaits is one action.  *)
(* All of it lives in memory: a crash loses it, except for the offset the  *)
(* Kafka consumer committed.                                               *)
(***************************************************************************)
EXTENDS BoundedLog

CONSTANTS
  Alerts,      \* alerts, by the key deliver builds of service, severity, message
  Malformed,   \* a message that is not JSON
  Requests,    \* the HTTP requests that may come
  HistoryCap,  \* 200 in the code
  TopicCap,    \* bound on the messages published
  Kills,       \* bound on the crashes that come from outside
  None

ASSUME NotificationAssumption ==
  /\ HistoryCap \in Nat \ {0} /\ TopicCap \in Nat /\ Kills \in Nat
  /\ None \notin Alerts \cup {Malformed} /\ None \notin Nat
  /\ Malformed \notin Alerts
  /\ None \notin {"sent", "deduped", "failed", "skipped"}

VARIABLES
  running,     \* the process is up
  subscribed,  \* its Kafka consumer runs (the try block has not failed)
  dedupe,      \* the keys of dedupe younger than five minutes, oldest first
  history,     \* history: alerts, newest first
  requests,    \* the HTTP requests: the alert being sent, and the state
  sending,     \* the alert eachMessage is awaiting the channel for, or None
  position,    \* the message eachMessage gets next
  resolved,    \* the offset the consumer will commit next, or None
  topic,       \* the messages of the topics, one partition (Kafka)
  committed,   \* the offset committed for the consumer group, or None (Kafka)
  kills,
  outcome,     \* what became of each message (history)
  begun        \* the sends of each alert begun in its window (history)

consumer == <<sending, position, resolved>>
kafka == <<topic, committed>>
vars == <<running, subscribed, dedupe, history, requests, consumer, kafka,
          kills, outcome, begun>>

NoRequest == [alert |-> None, state |-> "idle"]

Init ==
  /\ running = FALSE
  /\ subscribed = FALSE
  /\ dedupe = <<>>
  /\ history = <<>>
  /\ requests = [r \in Requests |-> NoRequest]
  /\ sending = None
  /\ position = 1
  /\ resolved = None
  /\ topic = <<>>
  /\ committed = None
  /\ kills = 0
  /\ outcome = <<>>
  /\ begun = [a \in Alerts |-> 0]

-----------------------------------------------------------------------------
(* The process.                                                            *)

\* Where the consumer starts: at the offset its group committed, and at the
\* end of the topic when it has none (subscribe without fromBeginning).
Start == IF committed = None THEN Len(topic) + 1 ELSE committed

\* The process comes up.  When Kafka cannot be reached then, the consumer is
\* given up and the rest of the service runs without it.
Boot(connected) ==
  /\ ~running
  /\ running' = TRUE
  /\ subscribed' = connected
  /\ IF connected
     THEN /\ position' = Start
          /\ outcome' = [i \in 1 .. Len(topic) |->
               IF i < Start /\ outcome[i] = None THEN "skipped" ELSE outcome[i]]
     ELSE UNCHANGED <<position, outcome>>
  /\ UNCHANGED <<dedupe, history, requests, sending, resolved, kafka, kills, begun>>

\* The process dies, and everything it had in memory with it.
Die ==
  /\ running' = FALSE
  /\ subscribed' = FALSE
  /\ dedupe' = <<>>
  /\ history' = <<>>
  /\ requests' = [r \in Requests |->
       IF requests[r].state = "sending" THEN [alert |-> None, state |-> "broken"]
                                        ELSE requests[r]]
  /\ sending' = None
  /\ resolved' = None
  /\ begun' = [a \in Alerts |-> 0]
  /\ UNCHANGED <<position, kafka, outcome>>

Kill == running /\ kills < Kills /\ Die /\ kills' = kills + 1

-----------------------------------------------------------------------------
(* deliver.                                                                *)

Fresh(a) == \E i \in 1 .. Len(dedupe) : dedupe[i] = a

\* Slip: the key is not marked before the send.
DedupeLater(a) == dedupe

\* isDuplicate marks the key of an alert that is none.
Marked(a) == Append(dedupe, a)

\* An alert that is no duplicate: mark it and go on to the channel.
Begin(a) ==
  /\ dedupe' = Marked(a)
  /\ begun' = [begun EXCEPT ![a] = @ + 1]

\* The channel took the alert (or there is no such channel, or it answered
\* with an error status that fetch does not reject): it goes on record.
Recorded(a) == Push(history, a, HistoryCap)

\* Five minutes after it was marked the oldest key is fresh no more.
Expire ==
  /\ dedupe # <<>>
  /\ dedupe' = Tail(dedupe)
  /\ begun' = [begun EXCEPT ![Head(dedupe)] = 0]
  /\ UNCHANGED <<running, subscribed, history, requests, consumer, kafka, kills, outcome>>

-----------------------------------------------------------------------------
(* POST /notifications and POST /notifications/test.                       *)

Awaits(r, a) == requests' = [requests EXCEPT ![r] = [alert |-> a, state |-> "sending"]]

Answered(r, state) == requests' = [requests EXCEPT ![r] = [alert |-> None, state |-> state]]

\* The request comes in.  It is answered at once when it is a duplicate (202)
\* or names a channel that is not routed anywhere (201).
Post(r, a) ==
  /\ running
  /\ requests[r].state = "idle"
  /\ \/ /\ Fresh(a)
        /\ Answered(r, "deduped")
        /\ UNCHANGED <<dedupe, begun, history>>
     \/ /\ ~Fresh(a)
        /\ Begin(a)
        /\ \/ Awaits(r, a) /\ UNCHANGED history
           \/ Answered(r, "sent") /\ history' = Recorded(a)
  /\ UNCHANGED <<running, subscribed, consumer, kafka, kills, outcome>>

\* The channel takes the alert: 201.
PostSent(r) ==
  /\ requests[r].state = "sending"
  /\ Answered(r, "sent")
  /\ history' = Recorded(requests[r].alert)
  /\ UNCHANGED <<running, subscribed, dedupe, consumer, kafka, kills, outcome, begun>>

\* The channel fails: the handler rejects, nobody handles the rejection, and
\* node ends the process.
PostFailed(r) ==
  /\ requests[r].state = "sending"
  /\ Die
  /\ UNCHANGED kills

-----------------------------------------------------------------------------
(* eachMessage: one message at a time.                                     *)

\* Slip: the message may be committed while it is being delivered.
CommittableEarly == position + 1

\* What may be committed while a message is being delivered: what could be
\* before, since eachMessage awaits deliver.
Committable == resolved

\* Slip: a message that was given up is fetched again.
SettleOnlyDelivered(what) ==
  /\ outcome' = [outcome EXCEPT ![position] = IF @ = "sent" THEN @ ELSE what]
  /\ position' = IF what = "failed" THEN position ELSE position + 1
  /\ resolved' = IF what = "failed" THEN resolved ELSE position + 1

\* deliver is done with a message, well or not: the consumer moves past it.
Settle(what) ==
  /\ outcome' = [outcome EXCEPT ![position] = IF @ = "sent" THEN @ ELSE what]
  /\ position' = position + 1
  /\ resolved' = position + 1

\* The next message.  A message that cannot be parsed makes eachMessage raise,
\* and is fetched again and again: no step leads past it.
Consume ==
  /\ running /\ subscribed
  /\ sending = None
  /\ position =< Len(topic)
  /\ topic[position] # Malformed
  /\ LET a == topic[position]
     IN  \/ /\ Fresh(a)
            /\ Settle("deduped")
            /\ UNCHANGED <<dedupe, begun, history, sending>>
         \/ /\ ~Fresh(a)
            /\ Begin(a)
            /\ \/ /\ sending' = a
                  /\ resolved' = Committable
                  /\ UNCHANGED <<history, outcome, position>>
               \/ /\ history' = Recorded(a)
                  /\ Settle("sent")
                  /\ UNCHANGED sending
  /\ UNCHANGED <<running, subscribed, requests, kafka, kills>>

ConsumeSent ==
  /\ sending # None
  /\ history' = Recorded(sending)
  /\ Settle("sent")
  /\ sending' = None
  /\ UNCHANGED <<running, subscribed, dedupe, requests, kafka, kills, begun>>

\* The channel fails and .catch(() => undefined) hides it.
ConsumeFailed ==
  /\ sending # None
  /\ Settle("failed")
  /\ sending' = None
  /\ UNCHANGED <<running, subscribed, dedupe, history, requests, kafka, kills, begun>>

\* The consumer commits the offsets it has resolved, in its own time.
Commit ==
  /\ running /\ subscribed
  /\ resolved # None
  /\ committed' = resolved
  /\ resolved' = None
  /\ UNCHANGED <<running, subscribed, dedupe, history, requests, sending, position,
                 topic, kills, outcome, begun>>

\* A producer publishes a message.
Publish(m) ==
  /\ Len(topic) < TopicCap
  /\ topic' = Append(topic, m)
  /\ outcome' = Append(outcome, None)
  /\ UNCHANGED <<running, subscribed, dedupe, history, requests, consumer, committed,
                 kills, begun>>

-----------------------------------------------------------------------------

Next ==
  \/ \E connected \in BOOLEAN : Boot(connected)
  \/ Kill
  \/ Expire
  \/ \E r \in Requests : (\E a \in Alerts : Post(r, a)) \/ PostSent(r) \/ PostFailed(r)
  \/ Consume
  \/ ConsumeSent
  \/ ConsumeFailed
  \/ Commit
  \/ \E m \in Alerts \cup {Malformed} : Publish(m)

Spec == Init /\ [][Next]_vars

\* The consumer polls, and a channel answers or fails (fetch and nodemailer
\* time out in the end).
FairSpec ==
  /\ Spec
  /\ WF_vars(Consume)
  /\ WF_vars(ConsumeSent \/ ConsumeFailed)

-----------------------------------------------------------------------------
(* Properties.                                                             *)

Offset == 1 .. TopicCap + 1

RequestState == {"idle", "sending", "sent", "deduped", "broken"}

Outcome == {"sent", "deduped", "failed", "skipped"}

\* Every variable has its type, the history within its bound.
TypeOK ==
  /\ running \in BOOLEAN /\ subscribed \in BOOLEAN
  /\ dedupe \in Seq(Alerts)
  /\ history \in Seq(Alerts) /\ Len(history) =< HistoryCap
  /\ requests \in [Requests -> [alert : Alerts \cup {None}, state : RequestState]]
  /\ sending \in Alerts \cup {None}
  /\ position \in Offset
  /\ resolved \in Offset \cup {None} /\ committed \in Offset \cup {None}
  /\ topic \in Seq(Alerts \cup {Malformed})
  /\ outcome \in Seq(Outcome \cup {None}) /\ Len(outcome) = Len(topic)
  /\ kills \in 0 .. Kills
  /\ begun \in [Alerts -> Nat]

\* The same alert goes out at most once within five minutes, although HTTP
\* requests and the consumer deliver it concurrently and a send may still be
\* awaited when its duplicate comes in.  (A crash forgets the window.)
SentOncePerWindow == \A a \in Alerts : begun[a] =< 1

\* A crash at any moment costs no message of a group that has an offset: what
\* the committed offset has left behind was delivered, found a duplicate,
\* given up, or published before the group existed.
CrashKeepsMessages ==
  committed # None => \A i \in 1 .. committed - 1 : outcome[i] # None

\* While the service stays up and subscribed the consumer gets to every
\* message, up to the first it cannot parse.
Due(i) ==
  /\ i \in position .. Len(topic)
  /\ \A k \in position .. i : topic[k] # Malformed

EveryMessageHandled ==
  <>[](running /\ subscribed) =>
    \A i \in 1 .. TopicCap :
      running /\ subscribed /\ Due(i) ~> i =< Len(topic) /\ outcome[i] # None

\* Claimed by docs/demo-guide.md: "Kafka keeps events durable when
\* notification delivery is offline."  No message the group has moved past for
\* good is one whose delivery failed.
AlertsDurable ==
  committed # None => \A i \in 1 .. committed - 1 : outcome[i] # "failed"

=============================================================================

--------------------- MODULE NotificationService_proofs ---------------------
(***************************************************************************)
(* Proofs about the notification service, for any number of alerts,        *)
(* requests, messages and crashes.                                         *)
(***************************************************************************)
EXTENDS NotificationService, BoundedLogLemmas, SequenceTheorems

USE NotificationAssumption DEF consumer, kafka

-----------------------------------------------------------------------------
(* Types.                                                                  *)

\* A request waits for the channel with the alert it is sending.
SendingNamesAlert ==
  \A r \in Requests : requests[r].state = "sending" => requests[r].alert \in Alerts

\* The consumer is nowhere beyond the end of the topic, and what it has
\* resolved or committed not beyond where it is.
WithinTopic ==
  /\ Len(topic) =< TopicCap
  /\ position =< Len(topic) + 1
  /\ sending # None => position =< Len(topic)
  /\ ~running => sending = None
  /\ resolved # None => resolved =< Len(topic) + 1
  /\ committed # None => committed =< Len(topic) + 1

TInv == TypeOK /\ SendingNamesAlert /\ WithinTopic

\* An alert goes on record, and the record keeps its bound.
LEMMA RecordedKeepsTypes ==
  ASSUME TypeOK, NEW a \in Alerts
  PROVE  Recorded(a) \in Seq(Alerts) /\ Len(Recorded(a)) =< HistoryCap
BY PushProperties DEF TypeOK, Recorded

\* An alert that is begun is marked.
LEMMA BeginKeepsTypes ==
  ASSUME TypeOK, NEW a \in Alerts, Begin(a)
  PROVE  dedupe' \in Seq(Alerts) /\ begun' \in [Alerts -> Nat]
<1>1. dedupe' \in Seq(Alerts)
  BY DEF Begin, Marked, TypeOK
<1>2. begun' \in [Alerts -> Nat]
  BY DEF Begin, TypeOK
<1> QED
  BY <1>1, <1>2

\* A message that is settled has an outcome, and no other one changes its own.
LEMMA SettleProperties ==
  ASSUME TypeOK, WithinTopic, position =< Len(topic), NEW what \in Outcome, Settle(what)
  PROVE  /\ outcome' \in Seq(Outcome \cup {None}) /\ Len(outcome') = Len(outcome)
         /\ outcome'[position] # None
         /\ \A i \in 1 .. Len(outcome) : i # position => outcome'[i] = outcome[i]
         /\ position' = position + 1 /\ resolved' = position + 1
         /\ position + 1 \in Offset
<1> DEFINE new == IF outcome[position] = "sent" THEN outcome[position] ELSE what
<1>1. position \in 1 .. Len(outcome) /\ new \in Outcome \cup {None} /\ new # None
  BY DEF TypeOK, Offset, Outcome
<1>2. outcome' = [outcome EXCEPT ![position] = new]
  BY DEF Settle
<1>3. outcome \in Seq(Outcome \cup {None})
  BY DEF TypeOK
<1> HIDE DEF new
<1>4. /\ outcome' \in Seq(Outcome \cup {None}) /\ Len(outcome') = Len(outcome)
      /\ \A i \in 1 .. Len(outcome) : outcome'[i] = IF i = position THEN new ELSE outcome[i]
  BY <1>1, <1>2, <1>3, ExceptSeq
<1>5. position + 1 \in Offset
  BY DEF TypeOK, WithinTopic, Offset
<1>6. position' = position + 1 /\ resolved' = position + 1
  BY DEF Settle
<1> QED
  BY <1>1, <1>4, <1>5, <1>6

\* The process that dies leaves the topic, its offset and the outcomes.
LEMMA DieKeepsTypes ==
  ASSUME TInv, Die, kills' \in 0 .. Kills
  PROVE  TInv'
<1>1. /\ \A r \in Requests : requests'[r] \in [alert : Alerts \cup {None}, state : RequestState]
                             /\ requests'[r].state # "sending"
      /\ requests' \in [Requests -> [alert : Alerts \cup {None}, state : RequestState]]
  BY DEF TInv, TypeOK, Die, RequestState
<1>2. <<>> \in Seq(Alerts) /\ Len(<<>>) = 0
  OBVIOUS
<1>3. /\ dedupe' = <<>> /\ history' = <<>> /\ sending' = None /\ resolved' = None
      /\ running' = FALSE /\ subscribed' = FALSE /\ begun' \in [Alerts -> Nat]
      /\ UNCHANGED <<position, topic, committed, outcome>>
  BY DEF Die
<1>4. TypeOK'
  <2>1. /\ dedupe' \in Seq(Alerts) /\ history' \in Seq(Alerts) /\ Len(history') =< HistoryCap
    BY <1>2, <1>3
  <2>2. /\ topic' \in Seq(Alerts \cup {Malformed}) /\ outcome' \in Seq(Outcome \cup {None})
        /\ Len(outcome') = Len(topic') /\ position' \in Offset /\ committed' \in Offset \cup {None}
    BY <1>3 DEF TInv, TypeOK
  <2>3. running' \in BOOLEAN /\ subscribed' \in BOOLEAN /\ sending' \in Alerts \cup {None}
        /\ resolved' \in Offset \cup {None}
    BY <1>3
  <2> QED
    BY <1>1, <1>3, <2>1, <2>2, <2>3 DEF TypeOK
<1>5. SendingNamesAlert' /\ WithinTopic'
  BY <1>1, <1>3 DEF TInv, SendingNamesAlert, WithinTopic
<1> QED
  BY <1>4, <1>5 DEF TInv

\* What a step does to the types.
LEMMA TypeStep ==
  ASSUME TInv, [Next]_vars
  PROVE  TInv'
<1> USE DEF TInv
<1>1. ASSUME NEW connected \in BOOLEAN, Boot(connected)
      PROVE  TInv'
  <2>1. Start \in Offset /\ Start =< Len(topic) + 1
    BY DEF Start, TypeOK, WithinTopic, Offset
  <2>2. CASE connected
    <3>1. /\ position' = Start
          /\ outcome' = [i \in 1 .. Len(topic) |->
               IF i < Start /\ outcome[i] = None THEN "skipped" ELSE outcome[i]]
      BY <1>1, <2>2 DEF Boot
    <3>2. Len(topic) \in Nat
      BY DEF TypeOK
    <3>3. \A i \in 1 .. Len(topic) :
            (IF i < Start /\ outcome[i] = None THEN "skipped" ELSE outcome[i]) \in Outcome \cup {None}
      BY DEF TypeOK, Outcome
    <3>4. outcome' \in Seq(Outcome \cup {None})
      BY <3>1, <3>2, <3>3, IsASeq
    <3>5. Len(outcome') = Len(topic)
      BY <3>1, <3>2, <3>4
    <3> QED
      BY <1>1, <2>1, <3>1, <3>4, <3>5 DEF Boot, TypeOK, SendingNamesAlert, WithinTopic
  <2>3. CASE ~connected
    BY <1>1, <2>3 DEF Boot, TypeOK, SendingNamesAlert, WithinTopic
  <2> QED
    BY <2>2, <2>3
<1>2. CASE Kill
  BY <1>2, DieKeepsTypes DEF Kill, TypeOK
<1>3. CASE Expire
  BY <1>3 DEF Expire, TypeOK, SendingNamesAlert, WithinTopic
<1>4. ASSUME NEW r \in Requests, NEW a \in Alerts, Post(r, a)
      PROVE  TInv'
  <2>1. /\ \A k \in Requests : k # r => requests'[k] = requests[k]
        /\ \/ requests'[r] = [alert |-> None, state |-> "deduped"]
           \/ requests'[r] = [alert |-> a, state |-> "sending"]
           \/ requests'[r] = [alert |-> None, state |-> "sent"]
        /\ DOMAIN requests' = Requests
    BY <1>4 DEF Post, Answered, Awaits, TypeOK
  <2>2. /\ requests' \in [Requests -> [alert : Alerts \cup {None}, state : RequestState]]
        /\ SendingNamesAlert'
    <3>1. requests'[r] \in [alert : Alerts \cup {None}, state : RequestState]
          /\ (requests'[r].state = "sending" => requests'[r].alert \in Alerts)
      BY <2>1 DEF RequestState
    <3>2. \A k \in Requests :
            requests[k] \in [alert : Alerts \cup {None}, state : RequestState]
      BY DEF TypeOK
    <3>3. requests' \in [Requests -> [alert : Alerts \cup {None}, state : RequestState]]
      BY <1>4, <2>1, <3>1, <3>2 DEF Post, Answered, Awaits, TypeOK
    <3> QED
      BY <2>1, <3>1, <3>3 DEF SendingNamesAlert
  <2>3. dedupe' \in Seq(Alerts) /\ begun' \in [Alerts -> Nat]
    BY <1>4, BeginKeepsTypes DEF Post, TypeOK
  <2>4. history' \in Seq(Alerts) /\ Len(history') =< HistoryCap
    BY <1>4, RecordedKeepsTypes DEF Post, TypeOK
  <2> QED
    BY <1>4, <2>2, <2>3, <2>4 DEF Post, TypeOK, WithinTopic
<1>5. ASSUME NEW r \in Requests, PostSent(r)
      PROVE  TInv'
  <2>1. history' \in Seq(Alerts) /\ Len(history') =< HistoryCap
    BY <1>5, RecordedKeepsTypes DEF PostSent, SendingNamesAlert
  <2>2. /\ requests' \in [Requests -> [alert : Alerts \cup {None}, state : RequestState]]
        /\ SendingNamesAlert'
    BY <1>5 DEF PostSent, Answered, TypeOK, SendingNamesAlert, RequestState
  <2> QED
    BY <1>5, <2>1, <2>2 DEF PostSent, TypeOK, WithinTopic
<1>6. ASSUME NEW r \in Requests, PostFailed(r)
      PROVE  TInv'
  BY <1>6, DieKeepsTypes DEF PostFailed, TypeOK
<1>7. CASE Consume
  <2>1. topic[position] \in Alerts /\ position =< Len(topic)
    BY <1>7 DEF Consume, TypeOK, Offset
  <2>2. dedupe' \in Seq(Alerts) /\ begun' \in [Alerts -> Nat]
    BY <1>7, <2>1, BeginKeepsTypes DEF Consume, TypeOK
  <2>3. history' \in Seq(Alerts) /\ Len(history') =< HistoryCap
    BY <1>7, <2>1, RecordedKeepsTypes DEF Consume, TypeOK
  <2>4. CASE Settle("deduped") \/ Settle("sent")
    <3>1. sending' = None
      BY <1>7, <2>4 DEF Consume, Settle, TypeOK, Offset
    <3>2. "deduped" \in Outcome /\ "sent" \in Outcome
      BY DEF Outcome
    <3>3. /\ outcome' \in Seq(Outcome \cup {None}) /\ Len(outcome') = Len(outcome)
          /\ position' = position + 1 /\ resolved' = position + 1 /\ position + 1 \in Offset
      BY <2>1, <2>4, <3>2, SettleProperties
    <3>4. UNCHANGED <<running, subscribed, requests, topic, committed, kills>>
      BY <1>7 DEF Consume
    <3>5. TypeOK'
      BY <2>2, <2>3, <3>1, <3>3, <3>4 DEF TypeOK
    <3>6. SendingNamesAlert' /\ WithinTopic'
      BY <2>1, <3>1, <3>3, <3>4 DEF SendingNamesAlert, WithinTopic, TypeOK, Offset
    <3> QED
      BY <3>5, <3>6
  <2>5. CASE sending' = topic[position] /\ resolved' = Committable /\ UNCHANGED <<outcome, position>>
    BY <1>7, <2>1, <2>2, <2>3, <2>5
       DEF Consume, Committable, TypeOK, SendingNamesAlert, WithinTopic
  <2> QED
    BY <1>7, <2>4, <2>5 DEF Consume
<1>8. ASSUME NEW what \in {"sent", "failed"}, sending # None, Settle(what), sending' = None,
             history' \in {history, Recorded(sending)},
             UNCHANGED <<running, subscribed, dedupe, requests, topic, committed, kills, begun>>
      PROVE  TInv'
  <2>1. what \in Outcome /\ position =< Len(topic) /\ sending \in Alerts
    BY <1>8 DEF Outcome, WithinTopic, TypeOK
  <2>2. /\ outcome' \in Seq(Outcome \cup {None}) /\ Len(outcome') = Len(outcome)
        /\ position' = position + 1 /\ resolved' = position + 1 /\ position + 1 \in Offset
    BY <1>8, <2>1, SettleProperties
  <2>3. history' \in Seq(Alerts) /\ Len(history') =< HistoryCap
    BY <1>8, <2>1, RecordedKeepsTypes DEF TypeOK
  <2>4. TypeOK'
    BY <1>8, <2>2, <2>3 DEF TypeOK
  <2>5. SendingNamesAlert' /\ WithinTopic'
    BY <1>8, <2>1, <2>2 DEF SendingNamesAlert, WithinTopic, TypeOK, Offset
  <2> QED
    BY <2>4, <2>5
<1>9. CASE ConsumeSent \/ ConsumeFailed
  BY <1>8, <1>9 DEF ConsumeSent, ConsumeFailed
<1>10. CASE Commit
  BY <1>10 DEF Commit, TypeOK, SendingNamesAlert, WithinTopic
<1>11. ASSUME NEW m \in Alerts \cup {Malformed}, Publish(m)
       PROVE  TInv'
  <2>1. /\ topic' \in Seq(Alerts \cup {Malformed}) /\ Len(topic') = Len(topic) + 1
        /\ Len(topic) < TopicCap
    BY <1>11 DEF Publish, TypeOK
  <2>2. outcome' \in Seq(Outcome \cup {None}) /\ Len(outcome') = Len(outcome) + 1
    BY <1>11 DEF Publish, TypeOK
  <2>3. TypeOK'
    BY <1>11, <2>1, <2>2 DEF Publish, TypeOK
  <2>4. SendingNamesAlert' /\ WithinTopic'
    BY <1>11, <2>1 DEF Publish, SendingNamesAlert, WithinTopic, TypeOK, Offset
  <2> QED
    BY <2>3, <2>4
<1>12. CASE UNCHANGED vars
  BY <1>12 DEF vars, TypeOK, SendingNamesAlert, WithinTopic
<1> QED
  BY <1>1, <1>2, <1>3, <1>4, <1>5, <1>6, <1>7, <1>9, <1>10, <1>11, <1>12 DEF Next

THEOREM TInvHolds == Spec => []TInv
<1>1. Init => TInv
  <2> SUFFICES ASSUME Init
               PROVE  TInv
    OBVIOUS
  <2>1. /\ NoRequest \in [alert : Alerts \cup {None}, state : RequestState]
        /\ NoRequest.state # "sending"
    BY DEF NoRequest, RequestState
  <2>2. <<>> \in Seq(Alerts) /\ <<>> \in Seq(Alerts \cup {Malformed})
        /\ <<>> \in Seq(Outcome \cup {None}) /\ Len(<<>>) = 0
    OBVIOUS
  <2>3. TypeOK
    <3>1. dedupe \in Seq(Alerts) /\ history \in Seq(Alerts) /\ Len(history) =< HistoryCap
      BY <2>2 DEF Init
    <3>2. topic \in Seq(Alerts \cup {Malformed}) /\ outcome \in Seq(Outcome \cup {None})
          /\ Len(outcome) = Len(topic)
      BY <2>2 DEF Init
    <3>3. position \in Offset /\ kills \in 0 .. Kills /\ begun \in [Alerts -> Nat]
      BY DEF Init, Offset
    <3> QED
      BY <2>1, <3>1, <3>2, <3>3 DEF Init, TypeOK
  <2>4. SendingNamesAlert /\ WithinTopic
    BY <2>1, <2>2 DEF Init, SendingNamesAlert, WithinTopic
  <2> QED
    BY <2>3, <2>4 DEF TInv
<1> QED
  BY <1>1, TypeStep, PTL DEF Spec

\* Every variable of the notification service keeps its type, the history its
\* bound.
THEOREM TypeCorrect == Spec => []TypeOK
BY TInvHolds, PTL DEF TInv

-----------------------------------------------------------------------------
(* Deduplication.                                                          *)

\* A key is marked once, and the sends begun in its window are counted by it.
OnceMarked ==
  /\ \A i, k \in 1 .. Len(dedupe) : dedupe[i] = dedupe[k] => i = k
  /\ \A a \in Alerts : begun[a] = IF Fresh(a) THEN 1 ELSE 0

LEMMA BeginMarksOnce ==
  ASSUME TypeOK, OnceMarked, NEW a \in Alerts, ~Fresh(a), Begin(a)
  PROVE  OnceMarked'
<1>1. /\ Len(dedupe') = Len(dedupe) + 1 /\ dedupe'[Len(dedupe) + 1] = a
      /\ \A i \in 1 .. Len(dedupe) : dedupe'[i] = dedupe[i]
      /\ Len(dedupe) \in Nat
  BY AppendProperties DEF TypeOK, Begin, Marked
<1>2. \A i \in 1 .. Len(dedupe) : dedupe[i] # a
  BY DEF Fresh
<1>3. \A b \in Alerts : Fresh(b)' <=> (Fresh(b) \/ b = a)
  BY <1>1 DEF Fresh
<1>4. \A b \in Alerts : begun'[b] = IF b = a THEN begun[a] + 1 ELSE begun[b]
  BY DEF Begin, TypeOK
<1>5. \A i, k \in 1 .. Len(dedupe') : dedupe'[i] = dedupe'[k] => i = k
  BY <1>1, <1>2 DEF OnceMarked
<1> QED
  BY <1>3, <1>4, <1>5 DEF OnceMarked

LEMMA ExpireUnmarks ==
  ASSUME TypeOK, OnceMarked, Expire
  PROVE  OnceMarked'
<1>1. dedupe # <<>> /\ dedupe' = Tail(dedupe) /\ begun' = [begun EXCEPT ![Head(dedupe)] = 0]
      /\ dedupe \in Seq(Alerts)
  BY DEF Expire, TypeOK
<1>2. /\ Head(dedupe) = dedupe[1] /\ Len(dedupe) \in Nat \ {0}
      /\ Len(dedupe') = Len(dedupe) - 1
      /\ \A i \in 1 .. Len(dedupe') : dedupe'[i] = dedupe[i + 1]
  BY <1>1, HeadTailProperties
<1>3. \A i, k \in 1 .. Len(dedupe') : dedupe'[i] = dedupe'[k] => i = k
  BY <1>2 DEF OnceMarked
<1>4. \A b \in Alerts : Fresh(b)' <=> (Fresh(b) /\ b # dedupe[1])
  <2> SUFFICES ASSUME NEW b \in Alerts
               PROVE  Fresh(b)' <=> (Fresh(b) /\ b # dedupe[1])
    OBVIOUS
  <2>1. ASSUME Fresh(b)'
        PROVE  Fresh(b) /\ b # dedupe[1]
    <3>1. PICK i \in 1 .. Len(dedupe') : dedupe'[i] = b
      BY <2>1 DEF Fresh
    <3>2. dedupe[i + 1] = b /\ i + 1 \in 1 .. Len(dedupe) /\ i + 1 # 1
      BY <1>2, <3>1
    <3> QED
      BY <1>2, <3>2 DEF Fresh, OnceMarked
  <2>2. ASSUME Fresh(b), b # dedupe[1]
        PROVE  Fresh(b)'
    <3>1. PICK i \in 1 .. Len(dedupe) : dedupe[i] = b
      BY <2>2 DEF Fresh
    <3>2. i - 1 \in 1 .. Len(dedupe') /\ dedupe'[i - 1] = b
      BY <1>2, <2>2, <3>1
    <3> QED
      BY <3>2 DEF Fresh
  <2> QED
    BY <2>1, <2>2
<1>5. \A b \in Alerts : begun'[b] = IF b = dedupe[1] THEN 0 ELSE begun[b]
  BY <1>1, <1>2 DEF TypeOK
<1> QED
  BY <1>3, <1>4, <1>5 DEF OnceMarked

\* No alert is sent twice within its window, however requests and consumer
\* interleave: isDuplicate marks before anything is awaited.
THEOREM SentOnce == Spec => []SentOncePerWindow
<1>1. Init => OnceMarked
  BY DEF Init, OnceMarked, Fresh
<1>2. ASSUME TInv, OnceMarked, [Next]_vars
      PROVE  OnceMarked'
  <2> USE <1>2
  <2>1. ASSUME NEW a \in Alerts, ~Fresh(a), Begin(a)
        PROVE  OnceMarked'
    BY <2>1, BeginMarksOnce DEF TInv
  <2>2. CASE Expire
    BY <2>2, ExpireUnmarks DEF TInv
  <2>3. CASE Die
    BY <2>3 DEF Die, OnceMarked, Fresh
  <2>4. CASE UNCHANGED <<dedupe, begun>>
    BY <2>4 DEF OnceMarked, Fresh
  <2>5. ASSUME NEW r \in Requests, NEW a \in Alerts, Post(r, a)
        PROVE  OnceMarked'
    BY <2>1, <2>4, <2>5 DEF Post
  <2>6. CASE Consume
    <3>1. topic[position] \in Alerts
      BY <2>6 DEF Consume, TInv, TypeOK, Offset
    <3> QED
      BY <2>1, <2>4, <2>6, <3>1 DEF Consume
  <2>7. ASSUME NEW r \in Requests, PostSent(r) \/ PostFailed(r)
        PROVE  OnceMarked'
    BY <2>3, <2>4, <2>7 DEF PostSent, PostFailed
  <2>8. CASE \/ \E connected \in BOOLEAN : Boot(connected)
             \/ Kill \/ ConsumeSent \/ ConsumeFailed \/ Commit
             \/ \E m \in Alerts \cup {Malformed} : Publish(m)
             \/ UNCHANGED vars
    BY <2>3, <2>4, <2>8 DEF Boot, Kill, ConsumeSent, ConsumeFailed, Commit, Publish, vars
  <2> QED
    BY <2>2, <2>5, <2>6, <2>7, <2>8 DEF Next
<1>3. TypeOK /\ OnceMarked => SentOncePerWindow
  BY DEF OnceMarked, SentOncePerWindow
<1>4. TInv => TypeOK
  BY DEF TInv
<1> QED
  BY <1>1, <1>2, <1>3, <1>4, TInvHolds, PTL DEF Spec

-----------------------------------------------------------------------------
(* Crashes.                                                                *)

\* Everything before the message the consumer gets next has an outcome, and no
\* more than that is resolved.
HandledBehind ==
  /\ \A i \in 1 .. position - 1 : outcome[i] # None
  /\ resolved # None => resolved =< position
  /\ ~running => resolved = None

\* An outcome is never taken back.
LEMMA OutcomesStay ==
  ASSUME HandledBehind, CrashKeepsMessages, TInv,
         \A i \in 1 .. Len(topic) : outcome[i] # None => outcome'[i] # None,
         UNCHANGED committed
  PROVE  CrashKeepsMessages'
BY DEF CrashKeepsMessages, TInv, TypeOK, WithinTopic, Offset

\* The offset never passes over a message that nothing became of.
THEOREM CrashesKeepMessages == Spec => []CrashKeepsMessages
<1> DEFINE Inv == HandledBehind /\ CrashKeepsMessages
<1>1. Init => Inv
  BY DEF Init, HandledBehind, CrashKeepsMessages
<1>2. ASSUME TInv, Inv, [Next]_vars
      PROVE  Inv'
  <2> USE <1>2
  <2>1. ASSUME NEW connected \in BOOLEAN, Boot(connected)
        PROVE  Inv'
    <3>1. CASE connected
      <4>1. Start \in 1 .. Len(topic) + 1 /\ Len(topic) \in Nat
        BY DEF Start, TInv, TypeOK, WithinTopic, Offset
      <4>2. /\ position' = Start
            /\ \A i \in 1 .. Len(topic) :
                 outcome'[i] = IF i < Start /\ outcome[i] = None THEN "skipped" ELSE outcome[i]
            /\ UNCHANGED <<resolved, committed>> /\ ~running /\ running'
        BY <2>1, <3>1 DEF Boot
      <4>3. HandledBehind'
        BY <4>1, <4>2 DEF HandledBehind
      <4>4. \A i \in 1 .. Len(topic) : outcome[i] # None => outcome'[i] # None
        BY <4>2
      <4> QED
        BY <4>2, <4>3, <4>4, OutcomesStay
    <3>2. CASE ~connected
      BY <2>1, <3>2 DEF Boot, HandledBehind, CrashKeepsMessages
    <3> QED
      BY <3>1, <3>2
  <2>2. CASE Die
    BY <2>2 DEF Die, HandledBehind, CrashKeepsMessages
  <2>3. ASSUME NEW what \in Outcome, Settle(what), position =< Len(topic), running,
               UNCHANGED <<running, committed>>
        PROVE  Inv'
    <3>1. /\ outcome'[position] # None
          /\ \A i \in 1 .. Len(outcome) : i # position => outcome'[i] = outcome[i]
          /\ position' = position + 1 /\ resolved' = position + 1
      BY <2>3, SettleProperties DEF TInv
    <3>2. position \in 1 .. Len(topic) /\ Len(topic) = Len(outcome) /\ Len(topic) \in Nat
      BY <2>3 DEF TInv, TypeOK, Offset
    <3>3. HandledBehind'
      BY <2>3, <3>1, <3>2 DEF HandledBehind
    <3>4. \A i \in 1 .. Len(topic) : outcome[i] # None => outcome'[i] # None
      BY <3>1, <3>2
    <3> QED
      BY <2>3, <3>3, <3>4, OutcomesStay
  <2>4. CASE Commit
    <3>1. resolved' = None /\ UNCHANGED <<running, position, outcome>>
      BY <2>4 DEF Commit
    <3>2. committed' \in Nat /\ position \in Nat /\ committed' =< position
      BY <2>4 DEF Commit, HandledBehind, TInv, TypeOK, Offset
    <3> DEFINE new == committed'
    <3>3. new \in Nat /\ new =< position
      BY <3>2
    <3> HIDE DEF new
    <3>4. \A i \in 1 .. new - 1 : outcome'[i] # None
      BY <3>1, <3>2, <3>3 DEF HandledBehind
    <3>5. HandledBehind'
      BY <3>1 DEF HandledBehind
    <3> QED
      BY <3>5, <3>4 DEF CrashKeepsMessages, new
  <2>5. ASSUME NEW m \in Alerts \cup {Malformed}, Publish(m)
        PROVE  Inv'
    <3>1. \A i \in 1 .. Len(outcome) : outcome'[i] = outcome[i]
      BY <2>5 DEF Publish, TInv, TypeOK
    <3>2. Len(outcome) = Len(topic) /\ Len(topic) \in Nat /\ position - 1 =< Len(topic)
          /\ position \in Nat
      BY DEF TInv, TypeOK, WithinTopic, Offset
    <3>3. HandledBehind'
      BY <2>5, <3>1, <3>2 DEF Publish, HandledBehind
    <3> QED
      BY <2>5, <3>1, <3>2, <3>3, OutcomesStay DEF Publish
  <2>6. CASE UNCHANGED <<position, outcome, resolved, committed, running>>
    BY <2>6 DEF HandledBehind, CrashKeepsMessages
  <2>7. CASE Consume
    <3>1. running /\ position =< Len(topic) /\ UNCHANGED <<running, committed>>
      BY <2>7 DEF Consume
    <3>2. "deduped" \in Outcome /\ "sent" \in Outcome
      BY DEF Outcome
    <3>3. \/ Settle("deduped") \/ Settle("sent")
          \/ UNCHANGED <<position, outcome, resolved, committed, running>>
      BY <2>7 DEF Consume, Committable
    <3> HIDE DEF Inv
    <3> QED
      BY <2>3, <2>6, <3>1, <3>2, <3>3
  <2>8. CASE ConsumeSent \/ ConsumeFailed
    <3>1. running /\ position =< Len(topic) /\ UNCHANGED <<running, committed>>
      BY <2>8 DEF ConsumeSent, ConsumeFailed, TInv, WithinTopic, TypeOK
    <3>2. "failed" \in Outcome /\ "sent" \in Outcome
      BY DEF Outcome
    <3>3. Settle("sent") \/ Settle("failed")
      BY <2>8 DEF ConsumeSent, ConsumeFailed
    <3> HIDE DEF Inv
    <3> QED
      BY <2>3, <3>1, <3>2, <3>3
  <2>9. CASE Expire \/ UNCHANGED vars \/ \E r \in Requests :
               (\E a \in Alerts : Post(r, a)) \/ PostSent(r)
    BY <2>6, <2>9 DEF Expire, vars, Post, PostSent
  <2>10. CASE Kill \/ \E r \in Requests : PostFailed(r)
    BY <2>2, <2>10 DEF Kill, PostFailed
  <2> HIDE DEF Inv
  <2> QED
    BY <2>1, <2>4, <2>5, <2>7, <2>8, <2>9, <2>10 DEF Next
<1>3. Inv => CrashKeepsMessages
  OBVIOUS
<1> QED
  BY <1>1, <1>2, <1>3, TInvHolds, PTL DEF Spec

=============================================================================

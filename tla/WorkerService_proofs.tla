----------------------- MODULE WorkerService_proofs -----------------------
(***************************************************************************)
(* Proofs about the worker service for every set of jobs and every set of  *)
(* retry limits.  Those that say a job can always be found assume limits   *)
(* below the one whose backoff overflows a datetime (NoOverflow).          *)
(*                                                                         *)
(* What has to be carried along is where every job is.  PlacedAtMostOnce   *)
(* alone is not inductive: that a new job is nowhere yet comes from its    *)
(* status (PlacedByStatus), and that a retried one is nowhere else from    *)
(* both.                                                                   *)
(***************************************************************************)
EXTENDS WorkerService, TLAPS

\* The queues qs hold no id twice, the list l holds no id twice, and no id of
\* qs, or of the list m, is in l.
QueuesApart(qs) ==
  \A p, q \in Priority :
    \A i \in 1 .. Len(qs[p]), k \in 1 .. Len(qs[q]) : qs[p][i] = qs[q][k] => p = q /\ i = k

ListApart(l) == \A i, k \in 1 .. Len(l) : l[i] = l[k] => i = k

OutOfQueues(qs, l) ==
  \A p \in Priority : \A i \in 1 .. Len(qs[p]), k \in 1 .. Len(l) : qs[p][i] # l[k]

OutOfList(m, l) == \A i \in 1 .. Len(m), k \in 1 .. Len(l) : m[i] # l[k]

\* PlacedAtMostOnce for the queues qs and the lists f and c.
Apart(qs, f, c) ==
  /\ QueuesApart(qs)
  /\ OutOfQueues(qs, c) /\ OutOfQueues(qs, f)
  /\ OutOfList(c, f)
  /\ ListApart(c) /\ ListApart(f)

\* They do not hold j.
Absent(j, qs, f, c) ==
  /\ \A p \in Priority : \A i \in 1 .. Len(qs[p]) : qs[p][i] # j
  /\ \A i \in 1 .. Len(c) : c[i] # j
  /\ \A i \in 1 .. Len(f) : f[i] # j

\* A job whose backoff no datetime could hold.
Overflown(job) == job.status = "retry_scheduled" /\ job.attempts >= DateLimit

\* A job that may be in the queue p.
Waits(job, p) ==
  job.status \in {"queued", "retry_scheduled"} /\ job.priority = p /\ ~Overflown(job)

\* PlacedByStatus from the lists to the dictionaries js ...
Labelled(js, qs, f, c) ==
  /\ \A p \in Priority : \A i \in 1 .. Len(qs[p]) : Waits(js[qs[p][i]], p)
  /\ \A i \in 1 .. Len(c) : js[c[i]].status = "completed"
  /\ \A i \in 1 .. Len(f) : js[f[i]].status = "dead_lettered"

\* ... and from the dictionaries to the lists, which an overflow breaks.
In(l, j) == \E i \in 1 .. Len(l) : l[i] = j

PlaceOfStatus ==
  \A j \in Jobs :
    /\ jobs[j].status \in {"queued", "retry_scheduled"} =>
         Overflown(jobs[j]) \/ In(queues[jobs[j].priority], j)
    /\ jobs[j].status = "completed" => In(completed, j)
    /\ jobs[j].status = "dead_lettered" => In(failed, j)

\* The limits of submitted jobs are limits some request carried.
LimitsKnown ==
  \A j \in Jobs : jobs[j].status # "unsubmitted" => jobs[j].max_retries \in Retries

\* Every reachable state, also when a backoff overflows.
IInv ==
  /\ TypeOK
  /\ Apart(queues, failed, completed)
  /\ Labelled(jobs, queues, failed, completed)
  /\ DepthExact
  /\ AttemptsTell
  /\ LimitsKnown

\* No job is retried so often that its backoff has no datetime.
NoOverflow == \A r \in Retries : r < DateLimit

USE WorkerAssumption

-----------------------------------------------------------------------------
(* Sequences.                                                              *)

\* What popleft leaves of a queue that is not empty.
LEMMA TailProperties ==
  ASSUME NEW S, NEW s \in Seq(S), s # <<>>
  PROVE  /\ Head(s) \in S /\ Head(s) = s[1] /\ Len(s) >= 1
         /\ Tail(s) \in Seq(S)
         /\ Len(Tail(s)) = Len(s) - 1
         /\ \A i \in 1 .. Len(Tail(s)) : Tail(s)[i] = s[i + 1]
  OBVIOUS

\* What append adds to a queue.
LEMMA AppendProperties ==
  ASSUME NEW S, NEW s \in Seq(S), NEW e \in S
  PROVE  /\ Append(s, e) \in Seq(S)
         /\ Len(Append(s, e)) = Len(s) + 1
         /\ Append(s, e)[Len(s) + 1] = e
         /\ \A i \in 1 .. Len(s) : Append(s, e)[i] = s[i]
  OBVIOUS

\* What insert(0, _) does to a list.
LEMMA InsertProperties ==
  ASSUME NEW S, NEW s \in Seq(S), NEW e \in S
  PROVE  /\ <<e>> \o s \in Seq(S)
         /\ Len(<<e>> \o s) = Len(s) + 1
         /\ (<<e>> \o s)[1] = e
         /\ \A i \in 2 .. Len(s) + 1 : (<<e>> \o s)[i] = s[i - 1]
  OBVIOUS

\* What stays in a queue when its head leaves it.
LEMMA TailKeeps ==
  ASSUME NEW S, NEW s \in Seq(S), s # <<>>, NEW k, In(s, k), k # Head(s)
  PROVE  In(Tail(s), k)
<1>1. PICK i \in 1 .. Len(s) : s[i] = k
  BY DEF In
<1>2. i # 1
  BY <1>1, TailProperties
<1>3. i - 1 \in 1 .. Len(Tail(s)) /\ Tail(s)[i - 1] = s[i]
  BY <1>2, TailProperties
<1> QED
  BY <1>1, <1>3 DEF In

\* What is in a queue after append.
LEMMA AppendKeeps ==
  ASSUME NEW S, NEW s \in Seq(S), NEW e \in S
  PROVE  In(Append(s, e), e) /\ \A k : In(s, k) => In(Append(s, e), k)
<1>1. Len(s) + 1 \in 1 .. Len(Append(s, e)) /\ Append(s, e)[Len(s) + 1] = e
  BY AppendProperties
<1>2. ASSUME NEW i \in 1 .. Len(s)
      PROVE  i \in 1 .. Len(Append(s, e)) /\ Append(s, e)[i] = s[i]
  BY AppendProperties
<1> QED
  BY <1>1, <1>2 DEF In

\* What is in a list after insert(0, _).
LEMMA InsertKeeps ==
  ASSUME NEW S, NEW s \in Seq(S), NEW e \in S
  PROVE  In(<<e>> \o s, e) /\ \A k : In(s, k) => In(<<e>> \o s, k)
<1>1. 1 \in 1 .. Len(<<e>> \o s) /\ (<<e>> \o s)[1] = e
  BY InsertProperties
<1>2. ASSUME NEW i \in 1 .. Len(s)
      PROVE  i + 1 \in 1 .. Len(<<e>> \o s) /\ (<<e>> \o s)[i + 1] = s[i]
  BY InsertProperties
<1> QED
  BY <1>1, <1>2 DEF In

-----------------------------------------------------------------------------
(* The lists, by name.                                                     *)

\* What the lists hold, shelf by shelf.
LEMMA ShelfByName ==
  /\ \A p \in Priority : OnShelf(p) = queues[p] /\ p # "failed" /\ p # "completed"
  /\ OnShelf("failed") = failed
  /\ OnShelf("completed") = completed
  BY DEF OnShelf, Priority

\* Apart says what PlacedAtMostOnce says.
LEMMA ApartIsAtMostOnce == Apart(queues, failed, completed) => PlacedAtMostOnce
<1> SUFFICES ASSUME Apart(queues, failed, completed),
                    NEW a \in Shelf, NEW b \in Shelf,
                    NEW i \in 1 .. Len(OnShelf(a)), NEW k \in 1 .. Len(OnShelf(b)),
                    OnShelf(a)[i] = OnShelf(b)[k]
             PROVE  a = b /\ i = k
  BY DEF PlacedAtMostOnce
<1>1. CASE a \in Priority
  BY <1>1, ShelfByName DEF Apart, QueuesApart, ListApart, OutOfQueues, OutOfList, Shelf
<1>2. CASE a = "completed"
  BY <1>2, ShelfByName DEF Apart, QueuesApart, ListApart, OutOfQueues, OutOfList, Shelf
<1>3. CASE a = "failed"
  BY <1>3, ShelfByName DEF Apart, QueuesApart, ListApart, OutOfQueues, OutOfList, Shelf
<1> QED
  BY <1>1, <1>2, <1>3 DEF Shelf

\* The two directions of PlacedByStatus.
LEMMA PlacedBothWays ==
  ASSUME TypeOK, Labelled(jobs, queues, failed, completed), PlaceOfStatus,
         \A j \in Jobs : ~Overflown(jobs[j])
  PROVE  PlacedByStatus
<1> SUFFICES ASSUME NEW j \in Jobs
             PROVE  /\ \A p \in Priority :
                         On(p, j) <=> jobs[j].status \in {"queued", "retry_scheduled"}
                                      /\ jobs[j].priority = p
                    /\ On("completed", j) <=> jobs[j].status = "completed"
                    /\ On("failed", j) <=> jobs[j].status = "dead_lettered"
  BY DEF PlacedByStatus
<1>1. jobs[j].priority \in Priority
  BY DEF TypeOK, Job
<1> QED
  BY <1>1, ShelfByName DEF On, In, Labelled, Waits, PlaceOfStatus

-----------------------------------------------------------------------------
(* Moving one id.                                                          *)

\* popleft takes an id out of the lists altogether.
LEMMA PopSeparates ==
  ASSUME NEW qs \in [Priority -> Seq(Jobs)], NEW f \in Seq(Jobs), NEW c \in Seq(Jobs),
         NEW js, NEW p \in Priority, qs[p] # <<>>,
         Apart(qs, f, c), Labelled(js, qs, f, c)
  PROVE  LET popped == [qs EXCEPT ![p] = Tail(qs[p])]
         IN  /\ popped \in [Priority -> Seq(Jobs)]
             /\ Apart(popped, f, c)
             /\ Absent(Head(qs[p]), popped, f, c)
             /\ Labelled(js, popped, f, c)
<1> DEFINE popped == [qs EXCEPT ![p] = Tail(qs[p])]
<1> DEFINE old(q, i) == IF q = p THEN i + 1 ELSE i
<1>1. /\ qs[p] \in Seq(Jobs) /\ Len(qs[p]) >= 1 /\ Head(qs[p]) = qs[p][1]
      /\ Tail(qs[p]) \in Seq(Jobs)
      /\ Len(Tail(qs[p])) = Len(qs[p]) - 1
      /\ \A i \in 1 .. Len(Tail(qs[p])) : Tail(qs[p])[i] = qs[p][i + 1]
  BY TailProperties
<1>2. popped \in [Priority -> Seq(Jobs)]
  BY <1>1
<1>3. ASSUME NEW q \in Priority, NEW i \in 1 .. Len(popped[q])
      PROVE  /\ i \in Int
             /\ old(q, i) \in 1 .. Len(qs[q])
             /\ popped[q][i] = qs[q][old(q, i)]
             /\ q = p => old(q, i) # 1
  BY <1>1
<1>4. ASSUME NEW q \in Priority, NEW i \in Int, NEW k \in Int, old(q, i) = old(q, k)
      PROVE  i = k
  BY <1>4
<1> HIDE DEF popped, old
<1>5. QueuesApart(popped)
  <2>1. ASSUME NEW q \in Priority, NEW r \in Priority,
               NEW i \in 1 .. Len(popped[q]), NEW k \in 1 .. Len(popped[r]),
               popped[q][i] = popped[r][k]
        PROVE  q = r /\ i = k
    <3>1. qs[q][old(q, i)] = qs[r][old(r, k)]
      BY <1>3, <2>1
    <3>2. old(q, i) \in 1 .. Len(qs[q]) /\ old(r, k) \in 1 .. Len(qs[r])
      BY <1>3
    <3>3. q = r /\ old(q, i) = old(r, k)
      BY <3>1, <3>2 DEF Apart, QueuesApart
    <3> QED
      BY <1>3, <1>4, <3>3
  <2> QED
    BY <2>1 DEF QueuesApart
<1>6. OutOfQueues(popped, c) /\ OutOfQueues(popped, f)
  <2>1. ASSUME NEW q \in Priority, NEW i \in 1 .. Len(popped[q])
        PROVE  /\ \A k \in 1 .. Len(c) : popped[q][i] # c[k]
               /\ \A k \in 1 .. Len(f) : popped[q][i] # f[k]
    <3>1. old(q, i) \in 1 .. Len(qs[q]) /\ popped[q][i] = qs[q][old(q, i)]
      BY <1>3
    <3> QED
      BY <3>1 DEF Apart, OutOfQueues
  <2> QED
    BY <2>1 DEF OutOfQueues
<1>7. Absent(Head(qs[p]), popped, f, c)
  <2>1. ASSUME NEW q \in Priority, NEW i \in 1 .. Len(popped[q])
        PROVE  popped[q][i] # Head(qs[p])
    <3>1. /\ old(q, i) \in 1 .. Len(qs[q])
          /\ popped[q][i] = qs[q][old(q, i)]
          /\ q = p => old(q, i) # 1
      BY <1>3
    <3>2. 1 \in 1 .. Len(qs[p])
      BY <1>1
    <3>3. qs[q][old(q, i)] # qs[p][1]
      BY <3>1, <3>2 DEF Apart, QueuesApart
    <3> QED
      BY <1>1, <3>1, <3>3
  <2>2. 1 \in 1 .. Len(qs[p]) /\ Head(qs[p]) = qs[p][1]
    BY <1>1
  <2>3. /\ \A k \in 1 .. Len(c) : c[k] # Head(qs[p])
        /\ \A k \in 1 .. Len(f) : f[k] # Head(qs[p])
    BY <2>2 DEF Apart, OutOfQueues
  <2> QED
    BY <2>1, <2>3 DEF Absent
<1>8. Labelled(js, popped, f, c)
  <2>1. ASSUME NEW q \in Priority, NEW i \in 1 .. Len(popped[q])
        PROVE  Waits(js[popped[q][i]], q)
    <3>1. old(q, i) \in 1 .. Len(qs[q]) /\ popped[q][i] = qs[q][old(q, i)]
      BY <1>3
    <3> QED
      BY <3>1 DEF Labelled
  <2> QED
    BY <2>1 DEF Labelled
<1> QED
  BY <1>2, <1>5, <1>6, <1>7, <1>8 DEF popped, Apart

\* append puts an id that is nowhere into one queue.
LEMMA AppendPlaces ==
  ASSUME NEW qs \in [Priority -> Seq(Jobs)], NEW f \in Seq(Jobs), NEW c \in Seq(Jobs),
         NEW js, NEW p \in Priority, NEW j \in Jobs,
         Apart(qs, f, c), Absent(j, qs, f, c), Labelled(js, qs, f, c),
         Waits(js[j], p)
  PROVE  LET longer == [qs EXCEPT ![p] = Append(qs[p], j)]
         IN  /\ longer \in [Priority -> Seq(Jobs)]
             /\ Apart(longer, f, c)
             /\ Labelled(js, longer, f, c)
<1> DEFINE longer == [qs EXCEPT ![p] = Append(qs[p], j)]
<1>1. /\ qs[p] \in Seq(Jobs)
      /\ Append(qs[p], j) \in Seq(Jobs)
      /\ Len(Append(qs[p], j)) = Len(qs[p]) + 1
      /\ Append(qs[p], j)[Len(qs[p]) + 1] = j
      /\ \A i \in 1 .. Len(qs[p]) : Append(qs[p], j)[i] = qs[p][i]
  BY AppendProperties
<1>2. longer \in [Priority -> Seq(Jobs)]
  BY <1>1
<1>3. ASSUME NEW q \in Priority, NEW i \in 1 .. Len(longer[q])
      PROVE  \/ i \in 1 .. Len(qs[q]) /\ longer[q][i] = qs[q][i]
             \/ q = p /\ i = Len(qs[p]) + 1 /\ longer[q][i] = j
  BY <1>1
<1> HIDE DEF longer
<1>4. QueuesApart(longer)
  <2>1. ASSUME NEW q \in Priority, NEW r \in Priority,
               NEW i \in 1 .. Len(longer[q]), NEW k \in 1 .. Len(longer[r]),
               longer[q][i] = longer[r][k]
        PROVE  q = r /\ i = k
    <3>1. CASE i \in 1 .. Len(qs[q]) /\ longer[q][i] = qs[q][i]
      <4>1. CASE k \in 1 .. Len(qs[r]) /\ longer[r][k] = qs[r][k]
        <5>1. qs[q][i] = qs[r][k]
          BY <2>1, <3>1, <4>1
        <5>2. QueuesApart(qs)
          BY DEF Apart
        <5> QED
          BY <3>1, <4>1, <5>1, <5>2 DEF QueuesApart
      <4>2. CASE longer[r][k] = j
        BY <2>1, <3>1, <4>2 DEF Absent
      <4> QED
        BY <4>1, <4>2, <1>3
    <3>2. CASE q = p /\ i = Len(qs[p]) + 1 /\ longer[q][i] = j
      <4>1. CASE k \in 1 .. Len(qs[r]) /\ longer[r][k] = qs[r][k]
        BY <2>1, <3>2, <4>1 DEF Absent
      <4>2. CASE r = p /\ k = Len(qs[p]) + 1
        BY <3>2, <4>2
      <4> QED
        BY <4>1, <4>2, <1>3
    <3> QED
      BY <3>1, <3>2, <1>3
  <2> QED
    BY <2>1 DEF QueuesApart
<1>5. OutOfQueues(longer, c) /\ OutOfQueues(longer, f)
  <2>1. ASSUME NEW q \in Priority, NEW i \in 1 .. Len(longer[q])
        PROVE  /\ \A k \in 1 .. Len(c) : longer[q][i] # c[k]
               /\ \A k \in 1 .. Len(f) : longer[q][i] # f[k]
    <3>1. CASE i \in 1 .. Len(qs[q]) /\ longer[q][i] = qs[q][i]
      BY <3>1 DEF Apart, OutOfQueues
    <3>2. CASE longer[q][i] = j
      BY <3>2 DEF Absent
    <3> QED
      BY <3>1, <3>2, <1>3
  <2> QED
    BY <2>1 DEF OutOfQueues
<1>6. Labelled(js, longer, f, c)
  <2>1. ASSUME NEW q \in Priority, NEW i \in 1 .. Len(longer[q])
        PROVE  Waits(js[longer[q][i]], q)
    <3>1. CASE i \in 1 .. Len(qs[q]) /\ longer[q][i] = qs[q][i]
      BY <3>1 DEF Labelled
    <3>2. CASE q = p /\ longer[q][i] = j
      BY <3>2
    <3> QED
      BY <3>1, <3>2, <1>3
  <2> QED
    BY <2>1 DEF Labelled
<1> QED
  BY <1>2, <1>4, <1>5, <1>6 DEF longer, Apart

\* insert(0, _) puts an id that is nowhere into the completed jobs ...
LEMMA CompletedPlaces ==
  ASSUME NEW qs \in [Priority -> Seq(Jobs)], NEW f \in Seq(Jobs), NEW c \in Seq(Jobs),
         NEW js, NEW j \in Jobs,
         Apart(qs, f, c), Absent(j, qs, f, c), Labelled(js, qs, f, c),
         js[j].status = "completed"
  PROVE  /\ <<j>> \o c \in Seq(Jobs)
         /\ Apart(qs, f, <<j>> \o c)
         /\ Labelled(js, qs, f, <<j>> \o c)
<1> DEFINE longer == <<j>> \o c
<1>1. longer \in Seq(Jobs) /\ Len(longer) = Len(c) + 1
  BY InsertProperties
<1>2. ASSUME NEW i \in 1 .. Len(longer)
      PROVE  \/ i - 1 \in 1 .. Len(c) /\ longer[i] = c[i - 1]
             \/ i = 1 /\ longer[i] = j
  BY <1>1, InsertProperties
<1> HIDE DEF longer
<1>3. ListApart(longer)
  <2>1. ASSUME NEW i \in 1 .. Len(longer), NEW k \in 1 .. Len(longer), longer[i] = longer[k]
        PROVE  i = k
    <3>1. CASE i - 1 \in 1 .. Len(c) /\ longer[i] = c[i - 1]
      <4>1. CASE k - 1 \in 1 .. Len(c) /\ longer[k] = c[k - 1]
        <5>1. i - 1 = k - 1
          BY <2>1, <3>1, <4>1 DEF Apart, ListApart
        <5> QED
          BY <5>1
      <4>2. CASE longer[k] = j
        BY <2>1, <3>1, <4>2 DEF Absent
      <4> QED
        BY <4>1, <4>2, <1>2
    <3>2. CASE i = 1 /\ longer[i] = j
      <4>1. CASE k - 1 \in 1 .. Len(c) /\ longer[k] = c[k - 1]
        BY <2>1, <3>2, <4>1 DEF Absent
      <4>2. CASE k = 1
        BY <3>2, <4>2
      <4> QED
        BY <4>1, <4>2, <1>2
    <3> QED
      BY <3>1, <3>2, <1>2
  <2> QED
    BY <2>1 DEF ListApart
<1>4. OutOfQueues(qs, longer) /\ OutOfList(longer, f)
  <2>1. ASSUME NEW i \in 1 .. Len(longer)
        PROVE  /\ \A p \in Priority : \A k \in 1 .. Len(qs[p]) : qs[p][k] # longer[i]
               /\ \A k \in 1 .. Len(f) : f[k] # longer[i]
    <3>1. CASE i - 1 \in 1 .. Len(c) /\ longer[i] = c[i - 1]
      BY <3>1 DEF Apart, OutOfQueues, OutOfList
    <3>2. CASE longer[i] = j
      BY <3>2 DEF Absent
    <3> QED
      BY <3>1, <3>2, <1>2
  <2> QED
    BY <2>1 DEF OutOfQueues, OutOfList
<1>5. Labelled(js, qs, f, longer)
  BY <1>2 DEF Labelled
<1> QED
  BY <1>1, <1>3, <1>4, <1>5 DEF longer, Apart

\* ... or into the dead-lettered ones.
LEMMA FailedPlaces ==
  ASSUME NEW qs \in [Priority -> Seq(Jobs)], NEW f \in Seq(Jobs), NEW c \in Seq(Jobs),
         NEW js, NEW j \in Jobs,
         Apart(qs, f, c), Absent(j, qs, f, c), Labelled(js, qs, f, c),
         js[j].status = "dead_lettered"
  PROVE  /\ <<j>> \o f \in Seq(Jobs)
         /\ Apart(qs, <<j>> \o f, c)
         /\ Labelled(js, qs, <<j>> \o f, c)
<1> DEFINE longer == <<j>> \o f
<1>1. longer \in Seq(Jobs) /\ Len(longer) = Len(f) + 1
  BY InsertProperties
<1>2. ASSUME NEW i \in 1 .. Len(longer)
      PROVE  \/ i - 1 \in 1 .. Len(f) /\ longer[i] = f[i - 1]
             \/ i = 1 /\ longer[i] = j
  BY <1>1, InsertProperties
<1> HIDE DEF longer
<1>3. ListApart(longer)
  <2>1. ASSUME NEW i \in 1 .. Len(longer), NEW k \in 1 .. Len(longer), longer[i] = longer[k]
        PROVE  i = k
    <3>1. CASE i - 1 \in 1 .. Len(f) /\ longer[i] = f[i - 1]
      <4>1. CASE k - 1 \in 1 .. Len(f) /\ longer[k] = f[k - 1]
        <5>1. i - 1 = k - 1
          BY <2>1, <3>1, <4>1 DEF Apart, ListApart
        <5> QED
          BY <5>1
      <4>2. CASE longer[k] = j
        BY <2>1, <3>1, <4>2 DEF Absent
      <4> QED
        BY <4>1, <4>2, <1>2
    <3>2. CASE i = 1 /\ longer[i] = j
      <4>1. CASE k - 1 \in 1 .. Len(f) /\ longer[k] = f[k - 1]
        BY <2>1, <3>2, <4>1 DEF Absent
      <4>2. CASE k = 1
        BY <3>2, <4>2
      <4> QED
        BY <4>1, <4>2, <1>2
    <3> QED
      BY <3>1, <3>2, <1>2
  <2> QED
    BY <2>1 DEF ListApart
<1>4. OutOfQueues(qs, longer) /\ OutOfList(c, longer)
  <2>1. ASSUME NEW i \in 1 .. Len(longer)
        PROVE  /\ \A p \in Priority : \A k \in 1 .. Len(qs[p]) : qs[p][k] # longer[i]
               /\ \A k \in 1 .. Len(c) : c[k] # longer[i]
    <3>1. CASE i - 1 \in 1 .. Len(f) /\ longer[i] = f[i - 1]
      BY <3>1 DEF Apart, OutOfQueues, OutOfList
    <3>2. CASE longer[i] = j
      BY <3>2 DEF Absent
    <3> QED
      BY <3>1, <3>2, <1>2
  <2> QED
    BY <2>1 DEF OutOfQueues, OutOfList
<1>5. Labelled(js, qs, longer, c)
  BY <1>2 DEF Labelled
<1> QED
  BY <1>1, <1>3, <1>4, <1>5 DEF longer, Apart

\* Writing the dictionary of a job that is nowhere leaves the others labelled.
LEMMA RelabelAbsent ==
  ASSUME NEW qs \in [Priority -> Seq(Jobs)], NEW f \in Seq(Jobs), NEW c \in Seq(Jobs),
         NEW js, NEW new, NEW j \in Jobs,
         Absent(j, qs, f, c), Labelled(js, qs, f, c),
         \A k \in Jobs : k # j => new[k] = js[k]
  PROVE  Labelled(new, qs, f, c)
<1>1. ASSUME NEW p \in Priority, NEW i \in 1 .. Len(qs[p])
      PROVE  Waits(new[qs[p][i]], p)
  <2>1. qs[p] \in Seq(Jobs) /\ qs[p][i] \in Jobs
    OBVIOUS
  <2>2. new[qs[p][i]] = js[qs[p][i]]
    BY <2>1 DEF Absent
  <2> QED
    BY <2>2 DEF Labelled
<1>2. ASSUME NEW i \in 1 .. Len(c)
      PROVE  new[c[i]].status = "completed"
  <2>1. c[i] \in Jobs
    OBVIOUS
  <2>2. new[c[i]] = js[c[i]]
    BY <2>1 DEF Absent
  <2> QED
    BY <2>2 DEF Labelled
<1>3. ASSUME NEW i \in 1 .. Len(f)
      PROVE  new[f[i]].status = "dead_lettered"
  <2>1. f[i] \in Jobs
    OBVIOUS
  <2>2. new[f[i]] = js[f[i]]
    BY <2>1 DEF Absent
  <2> QED
    BY <2>2 DEF Labelled
<1> QED
  BY <1>1, <1>2, <1>3 DEF Labelled

-----------------------------------------------------------------------------
(* One attempt.                                                            *)

\* What an attempt does to the dictionaries.
LEMMA AttemptedProperties ==
  ASSUME jobs \in [Jobs -> Job], NEW j \in Jobs, NEW status \in Status,
         Attempted(j, status)
  PROVE  /\ jobs' \in [Jobs -> Job]
         /\ \A k \in Jobs : k # j => jobs'[k] = jobs[k]
         /\ jobs'[j].attempts = jobs[j].attempts + 1
         /\ jobs'[j].status = status
         /\ jobs'[j].priority = jobs[j].priority
         /\ jobs'[j].max_retries = jobs[j].max_retries
         /\ jobs'[j].force_fail = jobs[j].force_fail
<1> DEFINE counted == [jobs EXCEPT ![j].attempts = jobs[j].attempts + 1]
<1>1. /\ counted \in [Jobs -> Job]
      /\ \A k \in Jobs : k # j => counted[k] = jobs[k]
      /\ counted[j].attempts = jobs[j].attempts + 1
      /\ counted[j].status = jobs[j].status
      /\ counted[j].priority = jobs[j].priority
      /\ counted[j].max_retries = jobs[j].max_retries
      /\ counted[j].force_fail = jobs[j].force_fail
  BY DEF Job
<1>2. jobs' = [counted EXCEPT ![j].status = status]
  BY DEF Attempted, Job
<1> HIDE DEF counted
<1> QED
  BY <1>1, <1>2 DEF Job

\* The part of the invariant that does not speak of the gauge.
Placement ==
  /\ jobs \in [Jobs -> Job]
  /\ queues \in [Priority -> Seq(Jobs)]
  /\ failed \in Seq(Jobs)
  /\ completed \in Seq(Jobs)
  /\ delayed \in SUBSET Jobs
  /\ Apart(queues, failed, completed)
  /\ Labelled(jobs, queues, failed, completed)
  /\ AttemptsTell
  /\ LimitsKnown

\* A new job is nowhere, so it can be queued.
LEMMA SubmitStep ==
  ASSUME Placement, NEW j \in Jobs, NEW priority \in Priority, NEW force_fail \in BOOLEAN,
         NEW max_retries \in Retries, submit_job(j, priority, force_fail, max_retries)
  PROVE  Placement' /\ (PlaceOfStatus => PlaceOfStatus')
<1> DEFINE new == [priority |-> priority, force_fail |-> force_fail,
                   max_retries |-> max_retries, attempts |-> 0, status |-> "queued"]
<1>1. /\ jobs[j].status = "unsubmitted"
      /\ jobs' = [jobs EXCEPT ![j] = new]
      /\ queues' = [queues EXCEPT ![priority] = Append(queues[priority], j)]
      /\ UNCHANGED <<failed, completed, delayed>>
  BY DEF submit_job, Placement
<1>2. new \in Job
  BY DEF Job, Status
<1>3. /\ jobs' \in [Jobs -> Job]
      /\ jobs'[j] = new
      /\ \A k \in Jobs : k # j => jobs'[k] = jobs[k]
  BY <1>1, <1>2 DEF Placement
<1>4. Absent(j, queues, failed, completed)
  BY <1>1 DEF Placement, Labelled, Waits, Absent
<1>5. Labelled(jobs', queues, failed, completed) /\ Waits(jobs'[j], priority)
  BY <1>3, <1>4, RelabelAbsent DEF Placement, Waits, Overflown
<1>6. /\ queues' \in [Priority -> Seq(Jobs)]
      /\ Apart(queues', failed, completed)
      /\ Labelled(jobs', queues', failed, completed)
  BY <1>1, <1>3, <1>4, <1>5, AppendPlaces DEF Placement
<1>7. AttemptsTell'
  <2>1. Tells(new)
    BY DEF Tells
  <2> HIDE DEF new
  <2> QED
    BY <1>3, <2>1 DEF Placement, AttemptsTell
<1>8. LimitsKnown'
  BY <1>3 DEF Placement, LimitsKnown
<1>9. Placement'
  BY <1>1, <1>3, <1>6, <1>7, <1>8 DEF Placement
<1>10. ASSUME PlaceOfStatus
       PROVE  PlaceOfStatus'
  <2>1. ASSUME NEW q \in Priority, NEW k, In(queues[q], k)
        PROVE  In(queues'[q], k)
    BY <1>1, <2>1, AppendKeeps DEF Placement
  <2>2. In(queues'[priority], j)
    BY <1>1, AppendKeeps DEF Placement
  <2>3. \A k \in Jobs : jobs[k].priority \in Priority
    BY DEF Placement, Job
  <2> HIDE DEF new
  <2>4. jobs'[j].priority = priority /\ jobs'[j].status = "queued"
    BY <1>3 DEF new
  <2> QED
    BY <1>1, <1>3, <1>10, <2>1, <2>2, <2>3, <2>4 DEF PlaceOfStatus
<1> QED
  BY <1>9, <1>10

\* Whatever an attempt leads to, it starts by taking the job out of the lists.
LEMMA PoppedByAttempt ==
  ASSUME Placement, NEW p \in Priority, Selected(p)
  PROVE  LET j == Head(queues[p])
             popped == [queues EXCEPT ![p] = Tail(queues[p])]
         IN  /\ j \in Jobs
             /\ jobs[j].status \in {"queued", "retry_scheduled"}
             /\ jobs[j].priority = p
             /\ popped \in [Priority -> Seq(Jobs)]
             /\ Apart(popped, failed, completed)
             /\ Absent(j, popped, failed, completed)
             /\ Labelled(jobs, popped, failed, completed)
             /\ \A q \in Priority : \A k :
                  In(queues[q], k) /\ k # j => In(popped[q], k)
<1> DEFINE j == Head(queues[p])
<1> DEFINE popped == [queues EXCEPT ![p] = Tail(queues[p])]
<1>1. queues[p] \in Seq(Jobs) /\ queues[p] # <<>>
  BY DEF Placement, Selected
<1>2. j \in Jobs /\ j = queues[p][1] /\ 1 \in 1 .. Len(queues[p])
  BY <1>1, TailProperties
<1>3. jobs[j].status \in {"queued", "retry_scheduled"} /\ jobs[j].priority = p
  BY <1>2 DEF Placement, Labelled, Waits
<1>4. /\ popped \in [Priority -> Seq(Jobs)]
      /\ Apart(popped, failed, completed)
      /\ Absent(j, popped, failed, completed)
      /\ Labelled(jobs, popped, failed, completed)
  BY <1>1, PopSeparates DEF Placement
<1>5. ASSUME NEW q \in Priority, NEW k, In(queues[q], k), k # j
      PROVE  In(popped[q], k)
  <2>1. CASE q = p
    BY <1>1, <1>5, <2>1, TailKeeps DEF Placement
  <2>2. CASE q # p
    BY <1>5, <2>2 DEF Placement
  <2> QED
    BY <2>1, <2>2
<1> QED
  BY <1>2, <1>3, <1>4, <1>5

\* The dictionaries after an attempt: Tells holds for the job if it holds for
\* what the attempt made of it.
LEMMA AttemptTells ==
  ASSUME Placement, NEW j \in Jobs, NEW status \in Status,
         jobs[j].status \in {"queued", "retry_scheduled"},
         Attempted(j, status),
         \/ status = "completed" /\ ~Fails(j)
         \/ status = "retry_scheduled" /\ Fails(j) /\ Retriable(j)
         \/ status = "dead_lettered" /\ Fails(j) /\ ~Retriable(j)
  PROVE  AttemptsTell' /\ LimitsKnown'
<1>1. /\ jobs' \in [Jobs -> Job]
      /\ \A k \in Jobs : k # j => jobs'[k] = jobs[k]
      /\ jobs'[j].attempts = jobs[j].attempts + 1
      /\ jobs'[j].status = status
      /\ jobs'[j].max_retries = jobs[j].max_retries
      /\ jobs'[j].force_fail = jobs[j].force_fail
  BY AttemptedProperties DEF Placement
<1>2. /\ jobs[j].attempts \in Nat /\ jobs[j].max_retries \in Int
      /\ jobs[j].status = "queued" => jobs[j].attempts = 0
      /\ jobs[j].status = "retry_scheduled" =>
           jobs[j].force_fail /\ jobs[j].attempts \in 1 .. jobs[j].max_retries
  BY DEF Placement, AttemptsTell, Tells, Job
<1>3. Tells(jobs'[j])
  <2>1. CASE status = "completed" /\ ~Fails(j)
    BY <1>1, <1>2, <2>1 DEF Tells, Fails
  <2>2. CASE status = "retry_scheduled" /\ Fails(j) /\ Retriable(j)
    BY <1>1, <1>2, <2>2 DEF Tells, Fails, Retriable
  <2>3. CASE status = "dead_lettered" /\ Fails(j) /\ ~Retriable(j)
    BY <1>1, <1>2, <2>3 DEF Tells, Fails, Retriable
  <2> QED
    BY <2>1, <2>2, <2>3
<1>4. jobs'[j].max_retries \in Retries
  BY <1>1 DEF Placement, LimitsKnown
<1> QED
  BY <1>1, <1>3, <1>4 DEF Placement, AttemptsTell, LimitsKnown

\* A success moves the job from its queue to the completed ones.
LEMMA CompleteStep ==
  ASSUME Placement, NEW p \in Priority, Selected(p), Complete(p)
  PROVE  Placement' /\ (PlaceOfStatus => PlaceOfStatus')
<1> DEFINE j == Head(queues[p])
<1> DEFINE popped == [queues EXCEPT ![p] = Tail(queues[p])]
<1>1. /\ j \in Jobs
      /\ jobs[j].status \in {"queued", "retry_scheduled"}
      /\ jobs[j].priority = p
      /\ popped \in [Priority -> Seq(Jobs)]
      /\ Apart(popped, failed, completed)
      /\ Absent(j, popped, failed, completed)
      /\ Labelled(jobs, popped, failed, completed)
      /\ \A q \in Priority : \A k : In(queues[q], k) /\ k # j => In(popped[q], k)
  BY PoppedByAttempt
<1>2. Attempted(j, "completed")
  BY DEF Complete
<1>3. /\ jobs' \in [Jobs -> Job]
      /\ \A k \in Jobs : k # j => jobs'[k] = jobs[k]
      /\ jobs'[j].status = "completed"
      /\ jobs'[j].priority = p
  BY <1>1, <1>2, AttemptedProperties DEF Placement, Status
<1>4. AttemptsTell' /\ LimitsKnown'
  BY <1>1, <1>2, AttemptTells DEF Complete, Status
<1>5. Labelled(jobs', popped, failed, completed)
  BY <1>1, <1>3, RelabelAbsent DEF Placement
<1>6. \A k \in Jobs : jobs[k].priority \in Priority
  BY DEF Placement, Job
<1>7. queues' = popped /\ completed' = <<j>> \o completed /\ UNCHANGED <<failed, delayed>>
  BY DEF Complete, Placement
<1>8. /\ completed' \in Seq(Jobs)
      /\ Apart(popped, failed, completed')
      /\ Labelled(jobs', popped, failed, completed')
  BY <1>1, <1>3, <1>5, <1>7, CompletedPlaces DEF Placement
<1>9. In(completed', j) /\ \A k : In(completed, k) => In(completed', k)
  BY <1>1, <1>7, InsertKeeps DEF Placement
<1> HIDE DEF j, popped
<1>10. Placement'
  BY <1>1, <1>3, <1>4, <1>7, <1>8 DEF Placement
<1>11. PlaceOfStatus => PlaceOfStatus'
  BY <1>1, <1>3, <1>6, <1>7, <1>9 DEF PlaceOfStatus
<1> QED
  BY <1>10, <1>11

\* A failure without a retry left moves the job from its queue to the dead letters.
LEMMA DeadLetterStep ==
  ASSUME Placement, NEW p \in Priority, Selected(p), DeadLetter(p)
  PROVE  Placement' /\ (PlaceOfStatus => PlaceOfStatus')
<1> DEFINE j == Head(queues[p])
<1> DEFINE popped == [queues EXCEPT ![p] = Tail(queues[p])]
<1>1. /\ j \in Jobs
      /\ jobs[j].status \in {"queued", "retry_scheduled"}
      /\ jobs[j].priority = p
      /\ popped \in [Priority -> Seq(Jobs)]
      /\ Apart(popped, failed, completed)
      /\ Absent(j, popped, failed, completed)
      /\ Labelled(jobs, popped, failed, completed)
      /\ \A q \in Priority : \A k : In(queues[q], k) /\ k # j => In(popped[q], k)
  BY PoppedByAttempt
<1>2. Attempted(j, "dead_lettered")
  BY DEF DeadLetter
<1>3. /\ jobs' \in [Jobs -> Job]
      /\ \A k \in Jobs : k # j => jobs'[k] = jobs[k]
      /\ jobs'[j].status = "dead_lettered"
      /\ jobs'[j].priority = p
  BY <1>1, <1>2, AttemptedProperties DEF Placement, Status
<1>4. AttemptsTell' /\ LimitsKnown'
  BY <1>1, <1>2, AttemptTells DEF DeadLetter, Status
<1>5. Labelled(jobs', popped, failed, completed)
  BY <1>1, <1>3, RelabelAbsent DEF Placement
<1>6. \A k \in Jobs : jobs[k].priority \in Priority
  BY DEF Placement, Job
<1>7. queues' = popped /\ failed' = <<j>> \o failed /\ UNCHANGED <<completed, delayed>>
  BY DEF DeadLetter, Placement
<1>8. /\ failed' \in Seq(Jobs)
      /\ Apart(popped, failed', completed)
      /\ Labelled(jobs', popped, failed', completed)
  BY <1>1, <1>3, <1>5, <1>7, FailedPlaces DEF Placement
<1>9. In(failed', j) /\ \A k : In(failed, k) => In(failed', k)
  BY <1>1, <1>7, InsertKeeps DEF Placement
<1> HIDE DEF j, popped
<1>10. Placement'
  BY <1>1, <1>3, <1>4, <1>7, <1>8 DEF Placement
<1>11. PlaceOfStatus => PlaceOfStatus'
  BY <1>1, <1>3, <1>6, <1>7, <1>9 DEF PlaceOfStatus
<1> QED
  BY <1>10, <1>11

\* A failure with a retry left moves the job to the tail of its queue, unless its
\* backoff overflows: then it is nowhere, and nothing is in two places either.
LEMMA RescheduleStep ==
  ASSUME Placement, NEW p \in Priority, Selected(p), Reschedule(p)
  PROVE  Placement' /\ (PlaceOfStatus => PlaceOfStatus')
<1> DEFINE j == Head(queues[p])
<1> DEFINE popped == [queues EXCEPT ![p] = Tail(queues[p])]
<1>1. /\ j \in Jobs
      /\ jobs[j].status \in {"queued", "retry_scheduled"}
      /\ jobs[j].priority = p
      /\ popped \in [Priority -> Seq(Jobs)]
      /\ Apart(popped, failed, completed)
      /\ Absent(j, popped, failed, completed)
      /\ Labelled(jobs, popped, failed, completed)
      /\ \A q \in Priority : \A k : In(queues[q], k) /\ k # j => In(popped[q], k)
  BY PoppedByAttempt
<1>2. Attempted(j, "retry_scheduled")
  BY DEF Reschedule
<1>3. /\ jobs' \in [Jobs -> Job]
      /\ \A k \in Jobs : k # j => jobs'[k] = jobs[k]
      /\ jobs'[j].status = "retry_scheduled"
      /\ jobs'[j].priority = p
  BY <1>1, <1>2, AttemptedProperties DEF Placement, Status
<1>4. AttemptsTell' /\ LimitsKnown'
  BY <1>1, <1>2, AttemptTells DEF Reschedule, Status
<1>5. Labelled(jobs', popped, failed, completed)
  BY <1>1, <1>3, RelabelAbsent DEF Placement
<1>6. \A k \in Jobs : jobs[k].priority \in Priority
  BY DEF Placement, Job
<1>7. UNCHANGED <<failed, completed>> /\ Retriable(j)
  BY DEF Reschedule
<1>8. jobs[j].attempts \in Nat /\ jobs[j].max_retries \in Int
  BY <1>1 DEF Placement, Job
<1>9. CASE jobs[j].attempts + 1 < DateLimit
  <2>1. queues' = [queues EXCEPT ![p] = Append(Tail(queues[p]), j)]
        /\ delayed' = delayed \cup {j}
    BY <1>9 DEF Reschedule, Placement
  <2>2. queues' = [popped EXCEPT ![p] = Append(popped[p], j)]
    BY <2>1 DEF Placement
  <2>3. jobs'[j].attempts = jobs[j].attempts + 1
    BY <1>1, <1>2, AttemptedProperties DEF Placement, Status
  <2> HIDE DEF j, popped
  <2>4. Waits(jobs'[j], p)
    BY <1>3, <1>8, <1>9, <2>3 DEF Waits, Overflown
  <2>5. /\ queues' \in [Priority -> Seq(Jobs)]
        /\ Apart(queues', failed, completed)
        /\ Labelled(jobs', queues', failed, completed)
    BY <1>1, <1>5, <2>2, <2>4, AppendPlaces DEF Placement
  <2>6. Placement'
    BY <1>1, <1>3, <1>4, <1>7, <2>1, <2>5 DEF Placement
  <2>7. In(queues'[p], j)
    BY <1>1, <2>2, AppendKeeps
  <2>8. ASSUME NEW q \in Priority, NEW k, In(popped[q], k)
        PROVE  In(queues'[q], k)
    <3>1. CASE q = p
      BY <1>1, <2>2, <2>8, <3>1, AppendKeeps
    <3>2. CASE q # p
      BY <1>1, <2>2, <2>8, <3>2
    <3> QED
      BY <3>1, <3>2
  <2>9. PlaceOfStatus => PlaceOfStatus'
    BY <1>1, <1>3, <1>6, <1>7, <2>7, <2>8 DEF PlaceOfStatus
  <2> QED
    BY <2>6, <2>9
<1>10. CASE jobs[j].attempts + 1 >= DateLimit
  <2>1. queues' = popped /\ UNCHANGED delayed
    <3>1. ~(jobs[j].attempts + 1 < DateLimit)
      BY <1>8, <1>10
    <3> QED
      BY <3>1 DEF Reschedule, Placement
  <2>2. Overflown(jobs'[j])
    <3>1. jobs'[j].attempts = jobs[j].attempts + 1
      BY <1>1, <1>2, AttemptedProperties DEF Placement, Status
    <3> QED
      BY <1>3, <1>10, <3>1 DEF Overflown
  <2> HIDE DEF j, popped
  <2>3. Placement'
    BY <1>1, <1>3, <1>4, <1>5, <1>7, <2>1 DEF Placement
  <2>4. PlaceOfStatus => PlaceOfStatus'
    BY <1>1, <1>3, <1>6, <1>7, <2>1, <2>2 DEF PlaceOfStatus
  <2> QED
    BY <2>3, <2>4
<1> QED
  BY <1>8, <1>9, <1>10

-----------------------------------------------------------------------------
(* The inductive invariant.                                                *)

\* Every handler keeps the jobs where they belong.
LEMMA PlacementStep ==
  ASSUME Placement, [Next]_vars
  PROVE  Placement' /\ (PlaceOfStatus => PlaceOfStatus')
<1>1. ASSUME NEW j \in Jobs, NEW priority \in Priority, NEW force_fail \in BOOLEAN,
             NEW max_retries \in Retries, submit_job(j, priority, force_fail, max_retries)
      PROVE  Placement' /\ (PlaceOfStatus => PlaceOfStatus')
  BY <1>1, SubmitStep
<1>2. CASE process_one
  BY <1>2, CompleteStep, RescheduleStep, DeadLetterStep DEF process_one
<1>3. ASSUME UNCHANGED <<jobs, queues, failed, completed>>, delayed' \in SUBSET Jobs
      PROVE  Placement' /\ (PlaceOfStatus => PlaceOfStatus')
  BY <1>3 DEF Placement, AttemptsTell, LimitsKnown, PlaceOfStatus
<1>4. CASE Sync
  BY <1>3, <1>4 DEF Sync, Placement
<1>5. ASSUME NEW j \in Jobs, Due(j)
      PROVE  Placement' /\ (PlaceOfStatus => PlaceOfStatus')
  BY <1>3, <1>5 DEF Due, Placement
<1>6. CASE UNCHANGED vars
  BY <1>3, <1>6 DEF vars, Placement
<1> QED
  BY <1>1, <1>2, <1>4, <1>5, <1>6 DEF Next

\* Every handler leaves the gauge at the queue lengths.
LEMMA GaugeStep ==
  ASSUME Placement', depth \in [Priority -> Nat], DepthExact, [Next]_vars
  PROVE  depth' \in [Priority -> Nat] /\ DepthExact'
<1>1. ASSUME sync_depths
      PROVE  depth' \in [Priority -> Nat] /\ DepthExact'
  <2>1. \A p \in Priority : Len(queues'[p]) \in Nat
    BY DEF Placement
  <2> QED
    BY <1>1, <2>1 DEF sync_depths, DepthExact
<1>2. ASSUME UNCHANGED <<queues, depth>>
      PROVE  depth' \in [Priority -> Nat] /\ DepthExact'
  BY <1>2 DEF DepthExact
<1> QED
  BY <1>1, <1>2 DEF Next, vars, submit_job, process_one, Sync, Due

\* The initial state.
LEMMA InitPlaced == Init => IInv /\ PlaceOfStatus
<1> SUFFICES ASSUME Init PROVE IInv /\ PlaceOfStatus
  OBVIOUS
<1>1. NoJob \in Job /\ NoJob.status = "unsubmitted"
  BY DEF NoJob, Job, Status, Priority
<1>2. TypeOK /\ DepthExact
  BY <1>1 DEF Init, TypeOK, DepthExact
<1>3. \A j \in Jobs : jobs[j].status = "unsubmitted"
  BY <1>1 DEF Init
<1>4. AttemptsTell /\ LimitsKnown /\ PlaceOfStatus
  BY <1>3 DEF Init, NoJob, AttemptsTell, Tells, LimitsKnown, PlaceOfStatus
<1>5. /\ \A p \in Priority : 1 .. Len(queues[p]) = {}
      /\ 1 .. Len(failed) = {} /\ 1 .. Len(completed) = {}
  BY DEF Init
<1>6. Apart(queues, failed, completed)
  BY <1>5 DEF Apart, QueuesApart, ListApart, OutOfQueues, OutOfList
<1>7. Labelled(jobs, queues, failed, completed)
  BY <1>5 DEF Labelled
<1> QED
  BY <1>2, <1>4, <1>6, <1>7 DEF IInv

\* IInv is Placement and the gauge.
LEMMA IInvStep ==
  ASSUME IInv, [Next]_vars
  PROVE  IInv' /\ (PlaceOfStatus => PlaceOfStatus')
<1>1. Placement /\ depth \in [Priority -> Nat] /\ DepthExact
  BY DEF IInv, TypeOK, Placement
<1>2. Placement' /\ (PlaceOfStatus => PlaceOfStatus')
  BY <1>1, PlacementStep
<1>3. depth' \in [Priority -> Nat] /\ DepthExact'
  BY <1>1, <1>2, GaugeStep
<1> QED
  BY <1>2, <1>3 DEF IInv, TypeOK, Placement

\* The inductive invariant holds in every reachable state.
THEOREM IInvHolds == Spec => []IInv
<1>1. Init => IInv
  BY InitPlaced
<1>2. IInv /\ [Next]_vars => IInv'
  BY IInvStep
<1> QED
  BY <1>1, <1>2, PTL DEF Spec

\* Every job is also where its status says, unless its backoff overflowed.
THEOREM PlaceOfStatusHolds == Spec => []PlaceOfStatus
<1>1. Init => PlaceOfStatus
  BY InitPlaced
<1>2. IInv /\ PlaceOfStatus /\ [Next]_vars => PlaceOfStatus'
  BY IInvStep
<1> QED
  BY <1>1, <1>2, IInvHolds, PTL DEF Spec

\* No attempt is as late as the overflow where no limit is.
LEMMA NoneOverflown ==
  ASSUME NoOverflow, IInv, NEW j \in Jobs
  PROVE  ~Overflown(jobs[j])
<1>1. jobs[j].attempts \in Nat /\ jobs[j].max_retries \in Int
  BY DEF IInv, TypeOK, Job
<1>2. CASE jobs[j].status = "retry_scheduled"
  <2>1. jobs[j].attempts =< jobs[j].max_retries
    BY <1>1, <1>2 DEF IInv, AttemptsTell, Tells
  <2>2. jobs[j].max_retries < DateLimit
    BY <1>2 DEF IInv, LimitsKnown, NoOverflow
  <2> QED
    BY <1>1, <2>1, <2>2 DEF Overflown
<1> QED
  BY <1>2 DEF Overflown

-----------------------------------------------------------------------------
(* The properties.                                                         *)

\* Every variable of the worker service keeps its type.
THEOREM TypeCorrect == Spec => []TypeOK
<1>1. IInv => TypeOK
  BY DEF IInv
<1> QED
  BY <1>1, IInvHolds, PTL

\* No job is ever in two places, not even when a backoff overflows.
THEOREM PlacedOnce == Spec => []PlacedAtMostOnce
<1>1. IInv => PlacedAtMostOnce
  BY ApartIsAtMostOnce DEF IInv
<1> QED
  BY <1>1, IInvHolds, PTL

\* Every submitted job can be found where its status says, as long as no
\* backoff overflows.
THEOREM Placed ==
  ASSUME NoOverflow
  PROVE  Spec => []PlacedByStatus
<1>1. IInv /\ PlaceOfStatus => PlacedByStatus
  BY PlacedBothWays, NoneOverflown DEF IInv
<1> QED
  BY <1>1, IInvHolds, PlaceOfStatusHolds, PTL

\* Where a job is can be read off its dictionary, overflow or not.
FoundByStatus ==
  \A j \in Jobs :
    /\ \A p \in Priority : On(p, j) <=> Waits(jobs[j], p)
    /\ On("completed", j) <=> jobs[j].status = "completed"
    /\ On("failed", j) <=> jobs[j].status = "dead_lettered"

LEMMA AlwaysFound == Spec => []FoundByStatus
<1>1. ASSUME IInv, PlaceOfStatus, NEW j \in Jobs
      PROVE  /\ \A p \in Priority : On(p, j) <=> Waits(jobs[j], p)
             /\ On("completed", j) <=> jobs[j].status = "completed"
             /\ On("failed", j) <=> jobs[j].status = "dead_lettered"
  <2>1. Labelled(jobs, queues, failed, completed) /\ jobs[j] \in Job
    BY <1>1 DEF IInv, TypeOK
  <2>2. \A p \in Priority : On(p, j) <=> Waits(jobs[j], p)
    BY <1>1, <2>1, ShelfByName DEF On, In, Labelled, Waits, PlaceOfStatus
  <2> QED
    BY <1>1, <2>1, <2>2, ShelfByName DEF On, In, Labelled, PlaceOfStatus
<1>2. IInv /\ PlaceOfStatus => FoundByStatus
  BY <1>1 DEF FoundByStatus
<1> QED
  BY <1>2, IInvHolds, PlaceOfStatusHolds, PTL

\* A submitted job that get_job cannot find.
Lost(j) == jobs[j].status # "unsubmitted" /\ \A a \in Shelf : ~On(a, j)

\* A job is lost exactly when it was put off for longer than a datetime can hold.
LostToOverflow == \A j \in Jobs : Lost(j) <=> Overflown(jobs[j])

\* Nothing but an overflow loses a job, and an overflow always does, whatever
\* retries are allowed and whatever becomes of the others.
THEOREM OverflowLoses == Spec => []LostToOverflow
<1>1. ASSUME IInv, FoundByStatus, NEW j \in Jobs
      PROVE  Lost(j) <=> Overflown(jobs[j])
  <2>1. jobs[j].status \in Status /\ jobs[j].priority \in Priority
    BY <1>1 DEF IInv, TypeOK, Job
  <2> QED
    BY <1>1, <2>1 DEF FoundByStatus, Lost, Shelf, Waits, Overflown, Status
<1>2. IInv /\ FoundByStatus => LostToOverflow
  BY <1>1 DEF LostToOverflow
<1> QED
  BY <1>2, IInvHolds, AlwaysFound, PTL

\* A job that nothing will happen to any more.
Ended(job) == job.status \in {"completed", "dead_lettered"} \/ Overflown(job)

\* A job that has ended keeps its status, its attempts and its place.
EndedForGood ==
  [][\A j \in Jobs :
       Ended(jobs[j]) => jobs'[j] = jobs[j] /\ \A a \in Shelf : On(a, j)' <=> On(a, j)]_vars

LEMMA EndedUntouched ==
  ASSUME IInv, [Next]_vars, NEW j \in Jobs, Ended(jobs[j])
  PROVE  jobs'[j] = jobs[j]
<1>1. ASSUME NEW k \in Jobs, NEW priority \in Priority, NEW force_fail \in BOOLEAN,
             NEW max_retries \in Retries, submit_job(k, priority, force_fail, max_retries)
      PROVE  jobs'[j] = jobs[j]
  <2>1. k # j
    BY <1>1 DEF submit_job, Ended, Overflown
  <2> QED
    BY <1>1, <2>1 DEF submit_job, IInv, TypeOK
<1>2. CASE process_one
  <2>1. PICK p \in Priority : Selected(p) /\ (Complete(p) \/ Reschedule(p) \/ DeadLetter(p))
    BY <1>2 DEF process_one
  <2>2. PICK k \in Jobs : k = Head(queues[p]) /\ k = queues[p][1] /\ 1 \in 1 .. Len(queues[p])
    BY <2>1, TailProperties DEF Selected, IInv, TypeOK
  <2>3. Waits(jobs[k], p)
    BY <2>2 DEF IInv, Labelled
  <2>4. k # j
    BY <2>3 DEF Waits, Ended, Overflown
  <2>5. PICK status \in Status : Attempted(k, status)
    BY <2>1, <2>2 DEF Complete, Reschedule, DeadLetter, Status
  <2> QED
    BY <2>4, <2>5, AttemptedProperties DEF IInv, TypeOK
<1>3. CASE Sync \/ (\E k \in Jobs : Due(k)) \/ UNCHANGED vars
  BY <1>3 DEF Sync, Due, vars
<1> QED
  BY <1>1, <1>2, <1>3 DEF Next

\* What has ended stays ended: no job is run, moved or forgotten after it was
\* completed or buried, and one that was lost does not come back.
THEOREM EndsForGood == Spec => EndedForGood
<1>1. ASSUME IInv, FoundByStatus, FoundByStatus', [Next]_vars
      PROVE  [\A j \in Jobs :
                Ended(jobs[j]) =>
                  jobs'[j] = jobs[j] /\ \A a \in Shelf : On(a, j)' <=> On(a, j)]_vars
  <2>1. ASSUME NEW j \in Jobs, Ended(jobs[j])
        PROVE  jobs'[j] = jobs[j] /\ \A a \in Shelf : On(a, j)' <=> On(a, j)
    <3>1. jobs'[j] = jobs[j]
      BY <1>1, <2>1, EndedUntouched
    <3>2. /\ \A p \in Priority : On(p, j)' <=> On(p, j)
          /\ On("completed", j)' <=> On("completed", j)
          /\ On("failed", j)' <=> On("failed", j)
      BY <1>1, <3>1 DEF FoundByStatus, Waits, Overflown
    <3> QED
      BY <3>1, <3>2 DEF Shelf
  <2> QED
    BY <2>1
<1> QED
  BY <1>1, IInvHolds, AlwaysFound, PTL DEF Spec, EndedForGood

\* The gauge is exact between any two handlers.
THEOREM DepthAlwaysExact == Spec => []DepthExact
<1>1. IInv => DepthExact
  BY DEF IInv
<1> QED
  BY <1>1, IInvHolds, PTL

\* Retries are counted exactly.
THEOREM AttemptsAlwaysTell == Spec => []AttemptsTell
<1>1. IInv => AttemptsTell
  BY DEF IInv
<1> QED
  BY <1>1, IInvHolds, PTL

-----------------------------------------------------------------------------
(* The service implements JobLifecycle.                                    *)

\* The phase of a job with a given status.
PhaseOf(status) ==
  CASE status = "unsubmitted" -> "unsubmitted"
    [] status \in {"queued", "retry_scheduled"} -> "pending"
    [] status = "completed" -> "completed"
    [] status = "dead_lettered" -> "dead_lettered"

LEMMA PhaseOfStatus ==
  /\ PhaseOf("unsubmitted") = "unsubmitted"
  /\ PhaseOf("queued") = "pending" /\ PhaseOf("retry_scheduled") = "pending"
  /\ PhaseOf("completed") = "completed"
  /\ PhaseOf("dead_lettered") = "dead_lettered"
  BY DEF PhaseOf

\* When jobs are where their status says, phases can be read off the status.
LEMMA PhasesByStatus ==
  jobs \in [Jobs -> Job] /\ PlacedByStatus => Phases = [j \in Jobs |-> PhaseOf(jobs[j].status)]
<1> SUFFICES ASSUME jobs \in [Jobs -> Job], PlacedByStatus, NEW j \in Jobs
             PROVE  Phases[j] = PhaseOf(jobs[j].status)
  BY DEF Phases
<1>1. jobs[j].status \in Status /\ jobs[j].priority \in Priority
  BY DEF Job
<1>2. /\ \A p \in Priority :
           On(p, j) <=> jobs[j].status \in {"queued", "retry_scheduled"}
                        /\ jobs[j].priority = p
      /\ On("completed", j) <=> jobs[j].status = "completed"
      /\ On("failed", j) <=> jobs[j].status = "dead_lettered"
  BY DEF PlacedByStatus
<1>3. (\E p \in Priority : On(p, j)) <=> jobs[j].status \in {"queued", "retry_scheduled"}
  BY <1>1, <1>2
<1>4. Phases[j] = IF On("completed", j) THEN "completed"
                  ELSE IF On("failed", j) THEN "dead_lettered"
                  ELSE IF \E p \in Priority : On(p, j) THEN "pending"
                  ELSE "unsubmitted"
  BY DEF Phases
<1> QED
  BY <1>1, <1>2, <1>3, <1>4 DEF Status, PhaseOf

\* The jobs the lifecycle is about.
Located == jobs \in [Jobs -> Job] /\ Phases = [j \in Jobs |-> PhaseOf(jobs[j].status)]

\* Queueing a new job submits it.
LEMMA SubmitRefines ==
  ASSUME Located, Located', AttemptsTell, NEW j \in Jobs, NEW priority \in Priority,
         NEW force_fail \in BOOLEAN, NEW max_retries \in Retries,
         submit_job(j, priority, force_fail, max_retries)
  PROVE  Lifecycle!Submit(j)
<1>1. /\ jobs[j].status = "unsubmitted"
      /\ jobs[j].attempts = 0
      /\ jobs'[j].status = "queued"
      /\ jobs'[j].max_retries = max_retries
      /\ jobs'[j].attempts = 0
      /\ \A k \in Jobs : k # j => jobs'[k] = jobs[k]
  BY DEF submit_job, Located, AttemptsTell, Tells
<1>2. Phases[j] = "unsubmitted" /\ Phases' = [Phases EXCEPT ![j] = "pending"]
  BY <1>1, PhaseOfStatus DEF Located
<1> QED
  BY <1>1, <1>2 DEF Lifecycle!Submit, Located

\* One attempt at a job, whatever it leads to.
LEMMA AttemptRefines ==
  ASSUME Located, Located', NEW j \in Jobs, NEW status \in Status,
         jobs[j].status \in {"queued", "retry_scheduled"}, Attempted(j, status)
  PROVE  Lifecycle!Attempt(j, PhaseOf(status))
<1>1. /\ \A k \in Jobs : k # j => jobs'[k] = jobs[k]
      /\ jobs'[j].attempts = jobs[j].attempts + 1
      /\ jobs'[j].status = status
      /\ jobs'[j].max_retries = jobs[j].max_retries
  BY AttemptedProperties DEF Located
<1>2. Phases[j] = "pending" /\ Phases' = [Phases EXCEPT ![j] = PhaseOf(status)]
  BY <1>1, PhaseOfStatus DEF Located
<1> QED
  BY <1>1, <1>2 DEF Lifecycle!Attempt, Located

\* The three outcomes of process_one are the three of the lifecycle.
LEMMA ProcessRefines ==
  ASSUME Placement, Located, Located', process_one
  PROVE  Lifecycle!Next
<1>1. PICK p \in Priority : Selected(p) /\ (Complete(p) \/ Reschedule(p) \/ DeadLetter(p))
  BY DEF process_one
<1>2. PICK j \in Jobs : j = Head(queues[p]) /\ jobs[j].status \in {"queued", "retry_scheduled"}
  BY <1>1, PoppedByAttempt
<1>3. CASE Complete(p)
  <2>1. Attempted(j, "completed") /\ PhaseOf("completed") = "completed"
    BY <1>2, <1>3, PhaseOfStatus DEF Complete
  <2>2. Lifecycle!Succeed(j)
    BY <1>2, <2>1, AttemptRefines DEF Status, Lifecycle!Succeed
  <2> QED
    BY <1>2, <2>2 DEF Lifecycle!Next
<1>4. CASE Reschedule(p)
  <2>1. Attempted(j, "retry_scheduled") /\ PhaseOf("retry_scheduled") = "pending"
    BY <1>2, <1>4, PhaseOfStatus DEF Reschedule
  <2>2. jobs[j].attempts + 1 =< jobs[j].max_retries
    BY <1>2, <1>4 DEF Reschedule, Retriable
  <2>3. Lifecycle!Retry(j)
    BY <1>2, <2>1, <2>2, AttemptRefines DEF Status, Lifecycle!Retry
  <2> QED
    BY <1>2, <2>3 DEF Lifecycle!Next
<1>5. CASE DeadLetter(p)
  <2>1. Attempted(j, "dead_lettered") /\ PhaseOf("dead_lettered") = "dead_lettered"
    BY <1>2, <1>5, PhaseOfStatus DEF DeadLetter
  <2>2. jobs[j].attempts + 1 > jobs[j].max_retries
    BY <1>2, <1>5 DEF DeadLetter, Retriable, Placement, Job
  <2>3. Lifecycle!Bury(j)
    BY <1>2, <2>1, <2>2, AttemptRefines DEF Status, Lifecycle!Bury
  <2> QED
    BY <1>2, <2>3 DEF Lifecycle!Next
<1> QED
  BY <1>1, <1>3, <1>4, <1>5

\* The worker service implements JobLifecycle as long as no backoff
\* overflows: every attempt counts, retries end, and an ended job stays ended.
THEOREM ImplementsLifecycle ==
  ASSUME NoOverflow
  PROVE  Spec => LifecycleSpec
<1>1. IInv /\ PlaceOfStatus => Located
  BY NoneOverflown, PlacedBothWays, PhasesByStatus DEF IInv, TypeOK, Located
<1>2. Init => Lifecycle!Init
  <2> SUFFICES ASSUME Init PROVE Lifecycle!Init
    OBVIOUS
  <2>1. Located
    BY <1>1, InitPlaced
  <2>2. \A j \in Jobs :
          jobs[j].status = "unsubmitted" /\ jobs[j].attempts = 0 /\ jobs[j].max_retries = 0
    BY DEF Init, NoJob
  <2>3. Phases = [j \in Jobs |-> "unsubmitted"]
    BY <2>1, <2>2, PhaseOfStatus DEF Located
  <2> QED
    BY <2>2, <2>3 DEF Lifecycle!Init
<1>3. /\ IInv /\ PlaceOfStatus /\ Located /\ Located'
      /\ [Next]_vars
      => [Lifecycle!Next]_(Lifecycle!vars)
  <2> SUFFICES ASSUME IInv, PlaceOfStatus, Located, Located', [Next]_vars
               PROVE  Lifecycle!Next \/ UNCHANGED Lifecycle!vars
    OBVIOUS
  <2>1. Placement /\ AttemptsTell
    BY DEF IInv, TypeOK, Placement
  <2>2. ASSUME NEW j \in Jobs, NEW priority \in Priority, NEW force_fail \in BOOLEAN,
               NEW max_retries \in Retries, submit_job(j, priority, force_fail, max_retries)
        PROVE  Lifecycle!Next
    BY <2>1, <2>2, SubmitRefines DEF Lifecycle!Next
  <2>3. CASE process_one
    BY <2>1, <2>3, ProcessRefines
  <2>4. ASSUME UNCHANGED jobs
        PROVE  UNCHANGED Lifecycle!vars
    BY <2>4 DEF Located, Lifecycle!vars
  <2> QED
    BY <2>2, <2>3, <2>4 DEF Next, Sync, Due, vars
<1>4. IInv /\ PlaceOfStatus /\ IInv' /\ PlaceOfStatus' => Located /\ Located'
  BY <1>1, PTL
<1> QED
  BY <1>1, <1>2, <1>3, IInvHolds, PlaceOfStatusHolds, PTL
     DEF Spec, LifecycleSpec, Lifecycle!Spec

=============================================================================

---------------------------- MODULE DataService ----------------------------
(***************************************************************************)
(* The data service: commands that write a metric, an idempotency store in *)
(* front of them, and the three lists of the repository.  Its handlers are *)
(* coroutines that await nothing, so each is one action; queries and       *)
(* replays of a command change nothing.  All of it lives in the memory of  *)
(* one process.                                                            *)
(***************************************************************************)
EXTENDS Integers, Sequences

CONSTANTS
  DataTenants,
  IdempotencyKeys,
  NoHeader,    \* a request without the header Idempotency-Key
  CommandCap   \* bound on the commands written

ASSUME DataAssumption == NoHeader \notin IdempotencyKeys /\ CommandCap \in Nat

VARIABLES
  records,      \* _records: the metric each key answers with, 0 for none
  expired,      \* the keys whose record has reached its expires_at
  write_model,  \* the tenant of each metric
  read_model,   \* the metrics of each tenant, by their place in write_model
  events,       \* the tenant of each event
  keys          \* the key each metric was written under, or NoHeader (history)

dataVars == <<records, expired, write_model, read_model, events, keys>>

DataInit ==
  /\ records = [k \in IdempotencyKeys |-> 0]
  /\ expired = {}
  /\ write_model = <<>>
  /\ read_model = [t \in DataTenants |-> <<>>]
  /\ events = <<>>
  /\ keys = <<>>

\* IdempotencyStore.get finds an answer, and the command is not executed.  An
\* expired record is no answer (get drops it, set puts a new one).
Cached(k) == k # NoHeader /\ records[k] # 0 /\ k \notin expired

\* Slip: a record that is there is not replaced.
SetDefault(k, metric) ==
  /\ records' = [i \in IdempotencyKeys |->
       IF i = k /\ records[i] = 0 THEN metric ELSE records[i]]
  /\ UNCHANGED expired

\* IdempotencyStore.set.
Set(k, metric) ==
  /\ records' = [i \in IdempotencyKeys |-> IF i = k THEN metric ELSE records[i]]
  /\ expired' = expired \ {k}

\* The place of the metric that is written next.
NewMetric == Len(write_model) + 1

write_metric(t) ==
  /\ write_model' = Append(write_model, t)
  /\ read_model' = [read_model EXCEPT ![t] = Append(@, NewMetric)]
  /\ events' = Append(events, t)

\* POST /commands/service-metrics.
CreateMetric(t, k) ==
  /\ ~Cached(k)
  /\ NewMetric =< CommandCap
  /\ write_metric(t)
  /\ Set(k, NewMetric)
  /\ keys' = Append(keys, k)

\* 24 hours after it was put a record expires.
RecordExpires(k) ==
  /\ records[k] # 0
  /\ expired' = expired \cup {k}
  /\ UNCHANGED <<records, write_model, read_model, events, keys>>

\* The process ends, and is started again.
DataRestart ==
  /\ records' = [k \in IdempotencyKeys |-> 0]
  /\ expired' = {}
  /\ write_model' = <<>>
  /\ read_model' = [t \in DataTenants |-> <<>>]
  /\ events' = <<>>
  /\ keys' = <<>>

DataNext ==
  \/ \E t \in DataTenants, k \in IdempotencyKeys \cup {NoHeader} : CreateMetric(t, k)
  \/ \E k \in IdempotencyKeys : RecordExpires(k)
  \/ DataRestart

DataSpec == DataInit /\ [][DataNext]_dataVars

-----------------------------------------------------------------------------
(* Properties.                                                             *)

\* Every variable has its type.
DataTypeOK ==
  /\ write_model \in Seq(DataTenants) /\ Len(write_model) =< CommandCap
  /\ events \in Seq(DataTenants)
  /\ keys \in Seq(IdempotencyKeys \cup {NoHeader})
  /\ records \in [IdempotencyKeys -> 0 .. Len(write_model)]
  /\ expired \subseteq IdempotencyKeys
  /\ read_model \in [DataTenants -> Seq(1 .. Len(write_model))]

Log == INSTANCE CommandLog WITH
  Tenants <- DataTenants,
  NoKey <- NoHeader,
  log <- events,
  under <- keys,
  views <- read_model,
  remembered <- {k \in IdempotencyKeys : Cached(k)}

\* The service keeps its promise: the events are a log of the commands, the
\* read model of a tenant names the places of its own in the order they came,
\* and a key that wrote writes nothing more for 24 hours, however often it has
\* expired and come back before, and whatever commands come in between.
CommandLogSpec == Log!CommandLogSpec

=============================================================================

----------------------------- MODULE CommandLog -----------------------------
(***************************************************************************)
(* What the data service promises its callers: a log of accepted commands, *)
(* a view of it for every tenant, and no second acceptance under an        *)
(* idempotency key that is still remembered.  It does not say where the    *)
(* keys, the log and the views are kept.                                   *)
(***************************************************************************)
EXTENDS Integers, Sequences

CONSTANTS
  Tenants,
  IdempotencyKeys,
  NoKey   \* a command without a key

VARIABLES
  log,         \* the tenant of every accepted command
  under,       \* the key of every accepted command, or NoKey
  views,       \* the commands each tenant sees, by their place in the log
  remembered   \* the keys under which no further command is accepted

logVars == <<log, under, views, remembered>>

LogInit ==
  /\ log = <<>>
  /\ under = <<>>
  /\ views = [t \in Tenants |-> <<>>]
  /\ remembered = {}

\* A command of tenant t under a key that is not remembered, and is from now on.
Accept(t, k) ==
  /\ k \notin remembered
  /\ log' = Append(log, t)
  /\ under' = Append(under, k)
  /\ views' = [views EXCEPT ![t] = Append(@, Len(log) + 1)]
  /\ remembered' = remembered \cup ({k} \ {NoKey})

Forget(k) ==
  /\ remembered' = remembered \ {k}
  /\ UNCHANGED <<log, under, views>>

\* A crash loses everything together.
Lose ==
  /\ log' = <<>>
  /\ under' = <<>>
  /\ views' = [t \in Tenants |-> <<>>]
  /\ remembered' = {}

LogNext ==
  \/ \E t \in Tenants, k \in IdempotencyKeys \cup {NoKey} : Accept(t, k)
  \/ \E k \in IdempotencyKeys : Forget(k)
  \/ Lose

CommandLogSpec == LogInit /\ [][LogNext]_logVars

=============================================================================

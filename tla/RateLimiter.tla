---------------------------- MODULE RateLimiter ----------------------------
(***************************************************************************)
(* The gateway's rate limiter, for one caller.  Several gateways keep one  *)
(* sorted set per caller in Redis, with an entry for every request scored  *)
(* by the gateway's clock.  checkRateLimit reads the clock and then sends  *)
(* four commands in a pipeline, which Redis may interleave with those of   *)
(* other gateways: a pipeline is no transaction.  Without Redis the gate-  *)
(* way uses MemoryRedis, which runs the four in one go and has no expiry.  *)
(***************************************************************************)
EXTENDS Integers, FiniteSets

CONSTANTS
  Requests,  \* the requests of the caller
  Limit,     \* RATE_LIMIT_PER_MINUTE
  Window,    \* windowSeconds
  MaxDelay,  \* the longest a request may take from its clock read to its answer
  MaxTime    \* bound on the time

ASSUME LimiterAssumption ==
  /\ IsFiniteSet(Requests)
  /\ Limit \in Nat
  /\ Window \in Nat \ {0} /\ MaxDelay \in Nat /\ MaxDelay < Window
  /\ MaxTime \in Nat

VARIABLES
  store,      \* "redis" or "memory"
  now,        \* the time, of gateways and Redis alike
  entries,    \* the sorted set rate:<caller>: its members, scored by their at
  keyExpiry,  \* when that key expires, 0 for never
  request,    \* each request: the command it sends next, its clock, its count
  lost        \* requests whose entry went with the key before its time (history)

vars == <<store, now, entries, keyExpiry, request, lost>>

\* createRedis.
Init ==
  /\ store \in {"redis", "memory"}
  /\ now = 0
  /\ entries = {}
  /\ keyExpiry = 0
  /\ request = [r \in Requests |-> [step |-> "idle", at |-> 0, count |-> 0]]
  /\ lost = {}

Becomes(r, step, count) ==
  request' = [request EXCEPT
                ![r] = [step |-> step, at |-> request[r].at, count |-> count]]

Goes(r, step) == Becomes(r, step, request[r].count)

\* The gateway has yet to hear of r's pipeline.
InFlight(r) == request[r].step \in {"remove", "add", "count", "expire"}

-----------------------------------------------------------------------------
(* checkRateLimit.                                                         *)

Begin(r) ==
  /\ request[r].step = "idle"
  /\ request' = [request EXCEPT ![r] = [step |-> "remove", at |-> now, count |-> 0]]
  /\ UNCHANGED <<store, now, entries, keyExpiry, lost>>

\* Slip: the bound is off, an entry stays a moment too long.
KeptLonger(r) == {q \in entries : request[q].at >= request[r].at - Window}

\* The entries that zremrangebyscore(key, 0, at - window) leaves.
Kept(r) == {q \in entries : request[q].at > request[r].at - Window}

\* Redis drops a key, and its expiry, with the last member.
Remove(r) ==
  /\ store = "redis"
  /\ request[r].step = "remove"
  /\ entries' = Kept(r)
  /\ keyExpiry' = IF Kept(r) = {} THEN 0 ELSE keyExpiry
  /\ Goes(r, "add")
  /\ UNCHANGED <<store, now, lost>>

Add(r) ==
  /\ request[r].step = "add"
  /\ entries' = entries \cup {r}
  /\ Goes(r, "count")
  /\ UNCHANGED <<store, now, keyExpiry, lost>>

\* Slip: the request is counted before it is added.
CountsOthers(r) == Cardinality(entries \ {r})

\* Slip: what remains of the limit is counted instead.
CountsOverLimit(r) == Limit - Cardinality(entries)

Counts(r) == Cardinality(entries)

Count(r) ==
  /\ request[r].step = "count"
  /\ Becomes(r, "expire", Counts(r))
  /\ UNCHANGED <<store, now, entries, keyExpiry, lost>>

\* Slip: the expiry is set once and not put off (EXPIRE with NX).
SetOnce == IF keyExpiry = 0 THEN now + Window ELSE keyExpiry

PutOff == now + Window

\* expire does nothing to a key that is gone.
Expire(r) ==
  /\ request[r].step = "expire"
  /\ keyExpiry' = IF entries = {} THEN keyExpiry ELSE PutOff
  /\ Goes(r, "done")
  /\ UNCHANGED <<store, now, entries, lost>>

\* The connection breaks.  If the count did not come back it is undefined,
\* undefined <= limit is false, and the request is rejected; if it did, only
\* the expire is missing.
Break(r) ==
  /\ store = "redis"
  /\ InFlight(r)
  /\ \/ Goes(r, "failed")
     \/ request[r].step = "expire" /\ Goes(r, "cut")
  /\ UNCHANGED <<store, now, entries, keyExpiry, lost>>

\* MemoryRedis: exec starts the four commands one after the other, and each
\* of them is done before it returns.
Exec(r) ==
  /\ store = "memory"
  /\ request[r].step = "remove"
  /\ entries' = Kept(r) \cup {r}
  /\ Becomes(r, "done", Cardinality(Kept(r) \cup {r}))
  /\ UNCHANGED <<store, now, keyExpiry, lost>>

-----------------------------------------------------------------------------
(* Time, and the key's expiry.                                             *)

KeyDue == keyExpiry # 0 /\ keyExpiry =< now + 1

Advance ==
  /\ now < MaxTime
  /\ \A r \in Requests : InFlight(r) => now - request[r].at < MaxDelay
  /\ now' = now + 1
  /\ IF KeyDue
     THEN /\ entries' = {}
          /\ keyExpiry' = 0
          /\ lost' = lost \cup {r \in entries : now + 1 - request[r].at < Window}
     ELSE UNCHANGED <<entries, keyExpiry, lost>>
  /\ UNCHANGED <<store, request>>

Next ==
  \/ \E r \in Requests :
       Begin(r) \/ Remove(r) \/ Add(r) \/ Count(r) \/ Expire(r) \/ Break(r) \/ Exec(r)
  \/ Advance

Spec == Init /\ [][Next]_vars

-----------------------------------------------------------------------------
(* Properties.                                                             *)

Step == {"idle", "remove", "add", "count", "expire", "done", "cut", "failed"}

\* Every variable has its type.
TypeOK ==
  /\ store \in {"redis", "memory"}
  /\ now \in Nat /\ keyExpiry \in Nat
  /\ entries \subseteq Requests /\ lost \subseteq Requests
  /\ request \in [Requests -> [step : Step, at : Nat, count : Nat]]

Counted(r) == request[r].step \in {"expire", "done", "cut"}

\* checkRateLimit's allowed and its opposite, for an answer that came back.
Allowed(r) == Counted(r) /\ request[r].count =< Limit
Rejected(r) == Counted(r) /\ request[r].count > Limit

\* The requests let through that read the clock in the last Window - MaxDelay
\* up to time t, those whose entry the key's expiry took aside.
AllowedUntil(t) ==
  {r \in Requests : /\ Allowed(r) /\ r \notin lost
                    /\ request[r].at =< t
                    /\ request[r].at > t - (Window - MaxDelay)}

\* However the pipelines of the gateways interleave, no more than Limit
\* requests get through in any window that is shortened by the longest delay.
\* (Of requests within a whole window the first may be removed on behalf of a
\* late one before an early one is counted.)
AllowedWithinLimit ==
  \A t \in 0 .. MaxTime : Cardinality(AllowedUntil(t)) =< Limit

\* The other requests in the window a rejected request saw.
Rivals(r) ==
  {q \in Requests \ {r} :
     /\ request[q].step # "idle"
     /\ request[q].at > request[r].at - Window
     /\ request[q].at =< request[r].at + MaxDelay}

\* A caller is turned away only when at least Limit other requests of its own
\* fall into the window: old entries never count against it.
RejectedOnlyWhenFull ==
  \A r \in Requests : Rejected(r) => Cardinality(Rivals(r)) >= Limit

\* The entry of a request whose pipeline ran to its end counts for a whole
\* window: neither another gateway's removal nor the expiry of the key, which
\* each pipeline puts off for all, takes it earlier.
CompletedEntriesLast ==
  [][\A r \in entries \ entries' :
       request[r].step = "done" => now' - request[r].at >= Window]_vars

=============================================================================

------------------------ MODULE RateLimiter_proofs ------------------------
(***************************************************************************)
(* The safety of the rate limiter, for any number of requests and any      *)
(* limit, window and delay.  The argument needs no order on the counts: at *)
(* the moment a request is counted, every request let through so far that  *)
(* is recent enough still has its entry (Present), so the count is at      *)
(* least their number.                                                     *)
(***************************************************************************)
EXTENDS RateLimiter, FiniteSetTheorems, TLAPS

Added(r) == request[r].step \in {"count", "expire", "done", "cut"}

\* Requests read the clock in the past, and those in flight not long ago.
Clocks ==
  \A r \in Requests :
    /\ request[r].at =< now
    /\ InFlight(r) => now - request[r].at =< MaxDelay

\* Only requests that began have an entry.
Begun == \A r \in entries : request[r].step # "idle"

\* MemoryRedis has no expiry and runs no command by itself.
InMemory ==
  store = "memory" =>
    /\ keyExpiry = 0
    /\ \A r \in Requests : request[r].step \notin {"add", "count", "expire"}

\* A request that was added and is not older than the window has its entry.
Present ==
  \A r \in Requests :
    Added(r) /\ r \notin lost /\ request[r].at > now - Window => r \in entries

\* Once a request has removed the old entries there are only young ones.
Young ==
  \A r \in Requests : request[r].step \in {"add", "count"} =>
    \A q \in entries : request[q].at > request[r].at - Window

\* The key outlives the entries of the requests that completed.
KeyHeld ==
  /\ keyExpiry =< now + Window
  /\ keyExpiry # 0 => \A r \in entries :
       request[r].step = "done" => request[r].at + Window =< keyExpiry

IInv ==
  /\ TypeOK /\ Clocks /\ Begun /\ InMemory /\ Present /\ Young /\ KeyHeld
  /\ AllowedWithinLimit /\ RejectedOnlyWhenFull

-----------------------------------------------------------------------------

\* Subsets of the finite set of requests are counted by natural numbers, and
\* a smaller set by a smaller number.
LEMMA Counting ==
  ASSUME NEW S, NEW T, S \subseteq T, T \subseteq Requests
  PROVE  /\ IsFiniteSet(T) /\ IsFiniteSet(S)
         /\ Cardinality(S) \in Nat /\ Cardinality(T) \in Nat
         /\ Cardinality(S) =< Cardinality(T)
  <1>1. IsFiniteSet(T) /\ IsFiniteSet(S)
    BY FS_Subset, LimiterAssumption DEF LimiterAssumption
  <1> QED BY <1>1, FS_Subset, FS_CardinalityType

\* What Becomes does to the requests.
LEMMA BecomesEffect ==
  ASSUME TypeOK, NEW r \in Requests, NEW step \in Step, NEW count \in Nat,
         Becomes(r, step, count)
  PROVE  /\ request' \in [Requests -> [step : Step, at : Nat, count : Nat]]
         /\ \A q \in Requests : q # r => request'[q] = request[q]
         /\ \A q \in Requests : request'[q].at = request[q].at
         /\ request'[r].step = step
         /\ request'[r].count = count
  <1>1. request'[r] = [step |-> step, at |-> request[r].at, count |-> count]
    BY DEF TypeOK, Becomes
  <1>2. \A q \in Requests : q # r => request'[q] = request[q]
    BY DEF TypeOK, Becomes
  <1>3. request[r].at \in Nat
    BY DEF TypeOK
  <1>4. request' = [request EXCEPT ![r] = request'[r]]
    BY <1>1 DEF TypeOK, Becomes
  <1>5. request'[r] \in [step : Step, at : Nat, count : Nat]
    BY <1>1, <1>3
  <1>6. request' \in [Requests -> [step : Step, at : Nat, count : Nat]]
    BY <1>4, <1>5 DEF TypeOK
  <1> QED BY <1>1, <1>2, <1>6

\* Goes keeps the count as well.
LEMMA GoesEffect ==
  ASSUME TypeOK, NEW r \in Requests, NEW step \in Step, Goes(r, step)
  PROVE  /\ request' \in [Requests -> [step : Step, at : Nat, count : Nat]]
         /\ \A q \in Requests : q # r => request'[q] = request[q]
         /\ \A q \in Requests : request'[q].at = request[q].at
                                /\ request'[q].count = request[q].count
         /\ request'[r].step = step
  <1>1. request[r].count \in Nat
    BY DEF TypeOK
  <1> QED BY <1>1, BecomesEffect DEF Goes

LEMMA InitIInv == Init => IInv
  <1> SUFFICES ASSUME Init PROVE IInv
    OBVIOUS
  <1>1. TypeOK
    BY DEF Init, TypeOK, Step
  <1>2. Clocks /\ Begun /\ InMemory /\ Present /\ Young /\ KeyHeld
    BY LimiterAssumption
       DEF Init, Clocks, Begun, InMemory, Present, Young, KeyHeld, InFlight, Added,
           LimiterAssumption
  <1>3. \A r \in Requests : ~Counted(r)
    BY DEF Init, Counted
  <1>4. AllowedWithinLimit
    <2> SUFFICES ASSUME NEW t \in 0 .. MaxTime
                 PROVE  Cardinality(AllowedUntil(t)) =< Limit
      BY DEF AllowedWithinLimit
    <2>1. AllowedUntil(t) = {}
      BY <1>3 DEF AllowedUntil, Allowed
    <2> QED BY <2>1, FS_EmptySet, LimiterAssumption DEF LimiterAssumption
  <1>5. RejectedOnlyWhenFull
    BY <1>3 DEF RejectedOnlyWhenFull, Rejected
  <1> QED BY <1>1, <1>2, <1>4, <1>5 DEF IInv

-----------------------------------------------------------------------------
(* The two counting invariants, apart from the moment of the count.        *)

\* Nothing is let through anew when no request becomes allowed, no clock of an
\* allowed request moves and no entry is found again.
LEMMA AllowedShrinks ==
  ASSUME AllowedWithinLimit, lost \subseteq lost',
         \A q \in Requests :
           Allowed(q)' => Allowed(q) /\ request'[q].at = request[q].at
  PROVE  AllowedWithinLimit'
  <1> SUFFICES ASSUME NEW t \in 0 .. MaxTime
               PROVE  Cardinality(AllowedUntil(t)') =< Limit
    BY DEF AllowedWithinLimit
  <1>1. AllowedUntil(t)' \subseteq AllowedUntil(t)
    BY DEF AllowedUntil
  <1>2. AllowedUntil(t) \subseteq Requests
    BY DEF AllowedUntil
  <1>3. Cardinality(AllowedUntil(t)) =< Limit
    BY DEF AllowedWithinLimit
  <1>4. /\ Cardinality(AllowedUntil(t)') \in Nat /\ Cardinality(AllowedUntil(t)) \in Nat
        /\ Cardinality(AllowedUntil(t)') =< Cardinality(AllowedUntil(t))
    BY <1>1, <1>2, Counting
  <1> QED BY <1>3, <1>4, LimiterAssumption DEF LimiterAssumption

\* The rivals of a rejected request stay its rivals.
LEMMA RivalsGrow ==
  ASSUME RejectedOnlyWhenFull,
         \A q \in Requests : Rejected(q)' => Rejected(q),
         \A q \in Requests : request[q].step # "idle" =>
           request'[q].step # "idle" /\ request'[q].at = request[q].at
  PROVE  RejectedOnlyWhenFull'
  <1> SUFFICES ASSUME NEW q \in Requests, Rejected(q)'
               PROVE  Cardinality(Rivals(q)') >= Limit
    BY DEF RejectedOnlyWhenFull
  <1>1. Rejected(q) /\ request'[q].at = request[q].at
    BY DEF Rejected, Counted
  <1>2. Rivals(q) \subseteq Rivals(q)'
    BY <1>1 DEF Rivals
  <1>3. Rivals(q)' \subseteq Requests
    BY DEF Rivals
  <1>4. Cardinality(Rivals(q)) >= Limit
    BY <1>1 DEF RejectedOnlyWhenFull
  <1>5. /\ Cardinality(Rivals(q)') \in Nat /\ Cardinality(Rivals(q)) \in Nat
        /\ Cardinality(Rivals(q)) =< Cardinality(Rivals(q)')
    BY <1>2, <1>3, Counting
  <1> QED BY <1>4, <1>5, LimiterAssumption DEF LimiterAssumption

\* The moment of a count: r is counted with a set M of entries that holds every
\* request let through recently, and no more than young entries.
LEMMA CountKeepsBoth ==
  ASSUME IInv, NEW r \in Requests, NEW M, M \subseteq Requests,
         NEW step \in {"expire", "done"}, InFlight(r),
         Becomes(r, step, Cardinality(M)), lost' = lost,
         \A q \in Requests : Added(q) /\ q \notin lost /\ request[q].at > now - Window => q \in M,
         r \in M \/ r \in lost,
         \A q \in M : /\ request[q].step # "idle" /\ request[q].at =< now
                      /\ request[q].at > request[r].at - Window
  PROVE  AllowedWithinLimit' /\ RejectedOnlyWhenFull'
  <1> USE LimiterAssumption DEF LimiterAssumption
  <1>0. TypeOK /\ Clocks /\ AllowedWithinLimit /\ RejectedOnlyWhenFull
    BY DEF IInv
  <1>1. Cardinality(M) \in Nat
    BY Counting
  <1>2. /\ \A q \in Requests : q # r => request'[q] = request[q]
        /\ \A q \in Requests : request'[q].at = request[q].at
        /\ request'[r].step = step
        /\ request'[r].count = Cardinality(M)
    BY <1>0, <1>1, BecomesEffect DEF Step
  <1>3. /\ now \in Nat
        /\ \A q \in Requests : request[q].at \in Nat /\ request[q].at =< now
        /\ now - request[r].at =< MaxDelay
    BY <1>0 DEF TypeOK, Clocks
  <1>4. ASSUME NEW t \in 0 .. MaxTime
        PROVE  Cardinality(AllowedUntil(t)') =< Limit
    <2>1. CASE r \in AllowedUntil(t)'
      <3>1. request[r].at =< t /\ Cardinality(M) =< Limit
        BY <1>2, <2>1 DEF AllowedUntil, Allowed
      <3>2. AllowedUntil(t)' \subseteq M
        <4> SUFFICES ASSUME NEW q \in AllowedUntil(t)'
                     PROVE  q \in M
          OBVIOUS
        <4>1. q \in Requests /\ q \notin lost /\ request[q].at > t - (Window - MaxDelay)
          BY <1>2 DEF AllowedUntil
        <4>2. request[q].at > now - Window
          BY <1>3, <3>1, <4>1
        <4>3. CASE q = r
          BY <4>1, <4>3
        <4>4. CASE q # r
          <5>1. Counted(q)
            BY <1>2, <4>1, <4>4 DEF AllowedUntil, Allowed, Counted
          <5>2. Added(q)
            BY <5>1 DEF Added, Counted
          <5> QED BY <4>1, <4>2, <5>2
        <4> QED BY <4>3, <4>4
      <3>3. /\ Cardinality(AllowedUntil(t)') \in Nat
            /\ Cardinality(AllowedUntil(t)') =< Cardinality(M)
        BY <3>2, Counting
      <3> QED BY <1>1, <3>1, <3>3
    <2>2. CASE r \notin AllowedUntil(t)'
      <3>1. AllowedUntil(t)' \subseteq AllowedUntil(t)
        BY <1>2, <2>2 DEF AllowedUntil, Allowed, Counted
      <3>2. AllowedUntil(t) \subseteq Requests
        BY DEF AllowedUntil
      <3>3. /\ Cardinality(AllowedUntil(t)') \in Nat /\ Cardinality(AllowedUntil(t)) \in Nat
            /\ Cardinality(AllowedUntil(t)') =< Cardinality(AllowedUntil(t))
        BY <3>1, <3>2, Counting
      <3>4. Cardinality(AllowedUntil(t)) =< Limit
        BY <1>0 DEF AllowedWithinLimit
      <3> QED BY <3>3, <3>4
    <2> QED BY <2>1, <2>2
  <1>5. ASSUME NEW q \in Requests, Rejected(q)'
        PROVE  Cardinality(Rivals(q)') >= Limit
    <2>1. Rivals(q)' \subseteq Requests
      BY DEF Rivals
    <2>2. CASE q = r
      <3>1. Cardinality(M) > Limit
        BY <1>2, <1>5, <2>2 DEF Rejected
      <3>2. M \ {r} \subseteq Rivals(q)'
        <4> SUFFICES ASSUME NEW p \in M \ {r}
                     PROVE  p \in Rivals(q)'
          OBVIOUS
        <4>1. p \in Requests \ {q} /\ request'[p].step # "idle"
          BY <1>2, <2>2
        <4>2. request'[p].at = request[p].at /\ request'[q].at = request[r].at
          BY <1>2, <2>2
        <4>3. request[p].at > request[r].at - Window /\ request[p].at =< request[r].at + MaxDelay
          BY <1>3
        <4> QED BY <4>1, <4>2, <4>3 DEF Rivals
      <3>3. Cardinality(M \ {r}) >= Cardinality(M) - 1
        <4>1. IsFiniteSet(M)
          BY Counting
        <4>2. Cardinality(M \ {r}) = IF r \in M THEN Cardinality(M) - 1 ELSE Cardinality(M)
          BY <4>1, FS_RemoveElement, Zenon
        <4> QED BY <1>1, <4>2
      <3>4. /\ Cardinality(M \ {r}) \in Nat /\ Cardinality(Rivals(q)') \in Nat
            /\ Cardinality(M \ {r}) =< Cardinality(Rivals(q)')
        BY <2>1, <3>2, Counting
      <3> QED BY <1>1, <3>1, <3>3, <3>4
    <2>3. CASE q # r
      <3>1. Rejected(q)
        BY <1>2, <1>5, <2>3 DEF Rejected, Counted
      <3>2. Rivals(q) \subseteq Rivals(q)'
        <4>1. request'[r].step # "idle"
          BY <1>2
        <4> QED BY <1>2, <4>1 DEF Rivals
      <3>3. Cardinality(Rivals(q)) >= Limit
        BY <1>0, <3>1 DEF RejectedOnlyWhenFull
      <3>4. /\ Cardinality(Rivals(q)) \in Nat /\ Cardinality(Rivals(q)') \in Nat
            /\ Cardinality(Rivals(q)) =< Cardinality(Rivals(q)')
        BY <2>1, <3>2, Counting
      <3> QED BY <3>3, <3>4
    <2> QED BY <2>2, <2>3
  <1> QED BY <1>4, <1>5 DEF AllowedWithinLimit, RejectedOnlyWhenFull
-----------------------------------------------------------------------------
(* One lemma for each action.                                              *)

LEMMA BeginStep ==
  ASSUME IInv, NEW r \in Requests, Begin(r)
  PROVE  IInv'
  <1> USE LimiterAssumption DEF LimiterAssumption
  <1>0. TypeOK /\ Clocks /\ Begun /\ InMemory /\ Present /\ Young /\ KeyHeld
        /\ AllowedWithinLimit /\ RejectedOnlyWhenFull
    BY DEF IInv
  <1>1. request'[r] = [step |-> "remove", at |-> now, count |-> 0]
    BY <1>0 DEF Begin, TypeOK
  <1>2. /\ \A q \in Requests : q # r => request'[q] = request[q]
        /\ request[r].step = "idle"
        /\ UNCHANGED <<store, now, entries, keyExpiry, lost>>
    BY <1>0 DEF Begin, TypeOK
  <1>3. TypeOK'
    BY <1>0, <1>2 DEF Begin, TypeOK, Step
  <1>4. now \in Nat /\ entries \subseteq Requests
    BY <1>0 DEF TypeOK
  <1>5. r \notin entries
    BY <1>0, <1>2 DEF Begun
  <1>6. Clocks'
    <2>1. request'[r].at =< now /\ now - request'[r].at =< MaxDelay
      BY <1>1, <1>4
    <2> QED BY <1>0, <1>2, <2>1 DEF Clocks, InFlight
  <1>7. Begun'
    BY <1>0, <1>2, <1>4, <1>5 DEF Begun
  <1>8. InMemory'
    BY <1>0, <1>1, <1>2 DEF InMemory
  <1>9. Present'
    BY <1>0, <1>1, <1>2 DEF Present, Added
  <1>10. Young'
    BY <1>0, <1>1, <1>2, <1>4, <1>5 DEF Young
  <1>11. KeyHeld'
    BY <1>0, <1>1, <1>2, <1>4, <1>5 DEF KeyHeld
  <1>12. \A q \in Requests : Counted(q)' => q # r
    BY <1>1 DEF Counted
  <1>13. AllowedWithinLimit'
    BY <1>0, <1>2, <1>12, AllowedShrinks DEF Allowed, Counted
  <1>14. RejectedOnlyWhenFull'
    BY <1>0, <1>2, <1>12, RivalsGrow DEF Rejected, Counted
  <1> QED BY <1>3, <1>6, <1>7, <1>8, <1>9, <1>10, <1>11, <1>13, <1>14 DEF IInv

LEMMA RemoveStep ==
  ASSUME IInv, NEW r \in Requests, Remove(r)
  PROVE  IInv'
  <1> USE LimiterAssumption DEF LimiterAssumption
  <1>0. TypeOK /\ Clocks /\ Begun /\ InMemory /\ Present /\ Young /\ KeyHeld
        /\ AllowedWithinLimit /\ RejectedOnlyWhenFull
    BY DEF IInv
  <1>1. /\ request' \in [Requests -> [step : Step, at : Nat, count : Nat]]
        /\ \A q \in Requests : q # r => request'[q] = request[q]
        /\ \A q \in Requests : request'[q].at = request[q].at
        /\ request'[r].step = "add"
    BY <1>0, GoesEffect DEF Remove, Step
  <1>2. /\ store = "redis" /\ request[r].step = "remove"
        /\ entries' = Kept(r)
        /\ keyExpiry' = IF Kept(r) = {} THEN 0 ELSE keyExpiry
        /\ store' = store /\ now' = now /\ lost' = lost
    BY DEF Remove
  <1>3. Kept(r) \subseteq entries
    BY DEF Kept
  <1>4. TypeOK'
    BY <1>0, <1>1, <1>2, <1>3 DEF TypeOK
  <1>5. /\ now \in Nat /\ keyExpiry \in Nat /\ entries \subseteq Requests
        /\ \A q \in Requests : request[q].at \in Nat /\ request[q].at =< now
    BY <1>0 DEF TypeOK, Clocks
  <1>6. Clocks'
    BY <1>0, <1>1, <1>2 DEF Clocks, InFlight
  <1>7. Begun'
    BY <1>0, <1>1, <1>2, <1>3, <1>5 DEF Begun
  <1>8. InMemory'
    BY <1>2 DEF InMemory
  <1>9. Present'
    <2> SUFFICES ASSUME NEW q \in Requests, Added(q)', q \notin lost,
                        request[q].at > now - Window
                 PROVE  q \in Kept(r)
      BY <1>1, <1>2 DEF Present
    <2>1. q # r
      BY <1>1 DEF Added
    <2>2. q \in entries
      BY <1>0, <1>1, <2>1 DEF Present, Added
    <2>3. request[q].at > request[r].at - Window
      BY <1>5
    <2> QED BY <2>2, <2>3 DEF Kept
  <1>10. Young'
    <2> SUFFICES ASSUME NEW p \in Requests, request'[p].step \in {"add", "count"},
                        NEW q \in Kept(r)
                 PROVE  request[q].at > request[p].at - Window
      BY <1>1, <1>2, <1>3, <1>5 DEF Young
    <2>1. CASE p = r
      BY <2>1 DEF Kept
    <2>2. CASE p # r
      BY <1>0, <1>1, <1>3, <2>2 DEF Young
    <2> QED BY <2>1, <2>2
  <1>11. KeyHeld'
    <2>1. keyExpiry' =< now + Window
      BY <1>0, <1>2, <1>5 DEF KeyHeld
    <2>2. ASSUME keyExpiry' # 0, NEW q \in entries', request'[q].step = "done"
          PROVE  request'[q].at + Window =< keyExpiry'
      <3>1. keyExpiry' = keyExpiry /\ q \in entries /\ q \in Requests
        BY <1>2, <1>3, <1>5, <2>2
      <3>2. q # r
        BY <1>1, <2>2
      <3> QED BY <1>0, <1>1, <2>2, <3>1, <3>2 DEF KeyHeld
    <2> QED BY <1>2, <2>1, <2>2 DEF KeyHeld
  <1>12. \A q \in Requests : Counted(q)' => q # r
    BY <1>1 DEF Counted
  <1>13. AllowedWithinLimit'
    BY <1>0, <1>1, <1>2, <1>12, AllowedShrinks DEF Allowed, Counted
  <1>14. RejectedOnlyWhenFull'
    <2>1. \A q \in Requests : Rejected(q)' => Rejected(q)
      BY <1>1, <1>12 DEF Rejected, Counted
    <2>2. \A q \in Requests : request[q].step # "idle" => request'[q].step # "idle"
      BY <1>1
    <2> QED BY <1>0, <1>1, <2>1, <2>2, RivalsGrow
  <1> QED BY <1>4, <1>6, <1>7, <1>8, <1>9, <1>10, <1>11, <1>13, <1>14 DEF IInv

LEMMA AddStep ==
  ASSUME IInv, NEW r \in Requests, Add(r)
  PROVE  IInv'
  <1> USE LimiterAssumption DEF LimiterAssumption
  <1>0. TypeOK /\ Clocks /\ Begun /\ InMemory /\ Present /\ Young /\ KeyHeld
        /\ AllowedWithinLimit /\ RejectedOnlyWhenFull
    BY DEF IInv
  <1>1. /\ request' \in [Requests -> [step : Step, at : Nat, count : Nat]]
        /\ \A q \in Requests : q # r => request'[q] = request[q]
        /\ \A q \in Requests : request'[q].at = request[q].at
        /\ request'[r].step = "count"
    BY <1>0, GoesEffect DEF Add, Step
  <1>2. /\ request[r].step = "add"
        /\ entries' = entries \cup {r}
        /\ store' = store /\ now' = now /\ keyExpiry' = keyExpiry /\ lost' = lost
    BY DEF Add
  <1>3. store # "memory"
    BY <1>0, <1>2 DEF InMemory
  <1>4. TypeOK'
    BY <1>0, <1>1, <1>2 DEF TypeOK
  <1>5. /\ now \in Nat /\ keyExpiry \in Nat /\ entries \subseteq Requests
        /\ \A q \in Requests : request[q].at \in Nat /\ request[q].at =< now
    BY <1>0 DEF TypeOK, Clocks
  <1>6. Clocks'
    BY <1>0, <1>1, <1>2 DEF Clocks, InFlight
  <1>7. Begun'
    BY <1>0, <1>1, <1>2, <1>5 DEF Begun
  <1>8. InMemory'
    BY <1>2, <1>3 DEF InMemory
  <1>9. Present'
    BY <1>0, <1>1, <1>2 DEF Present, Added
  <1>10. Young'
    <2> SUFFICES ASSUME NEW p \in Requests, request'[p].step \in {"add", "count"},
                        NEW q \in entries \cup {r}
                 PROVE  request[q].at > request[p].at - Window
      BY <1>1, <1>2, <1>5 DEF Young
    <2>1. CASE q = r
      <3>1. now - request[r].at =< MaxDelay
        BY <1>0, <1>2 DEF Clocks, InFlight
      <3> QED BY <1>5, <2>1, <3>1
    <2>2. CASE q # r
      <3>1. request[p].step \in {"add", "count"}
        BY <1>1, <1>2
      <3> QED BY <1>0, <2>2, <3>1 DEF Young
    <2> QED BY <2>1, <2>2
  <1>11. KeyHeld'
    BY <1>0, <1>1, <1>2, <1>5 DEF KeyHeld
  <1>12. \A q \in Requests : Counted(q)' => q # r
    BY <1>1 DEF Counted
  <1>13. AllowedWithinLimit'
    BY <1>0, <1>1, <1>2, <1>12, AllowedShrinks DEF Allowed, Counted
  <1>14. RejectedOnlyWhenFull'
    <2>1. \A q \in Requests : Rejected(q)' => Rejected(q)
      BY <1>1, <1>12 DEF Rejected, Counted
    <2>2. \A q \in Requests : request[q].step # "idle" => request'[q].step # "idle"
      BY <1>1
    <2> QED BY <1>0, <1>1, <2>1, <2>2, RivalsGrow
  <1> QED BY <1>4, <1>6, <1>7, <1>8, <1>9, <1>10, <1>11, <1>13, <1>14 DEF IInv

LEMMA CountStep ==
  ASSUME IInv, NEW r \in Requests, Count(r)
  PROVE  IInv'
  <1> USE LimiterAssumption DEF LimiterAssumption
  <1>0. TypeOK /\ Clocks /\ Begun /\ InMemory /\ Present /\ Young /\ KeyHeld
    BY DEF IInv
  <1>1. entries \subseteq Requests /\ Cardinality(entries) \in Nat
    BY <1>0, Counting DEF TypeOK
  <1>2. /\ request[r].step = "count" /\ Becomes(r, "expire", Cardinality(entries))
        /\ store' = store /\ now' = now /\ entries' = entries
        /\ keyExpiry' = keyExpiry /\ lost' = lost
    BY DEF Count, Counts
  <1>3. /\ request' \in [Requests -> [step : Step, at : Nat, count : Nat]]
        /\ \A q \in Requests : q # r => request'[q] = request[q]
        /\ \A q \in Requests : request'[q].at = request[q].at
        /\ request'[r].step = "expire"
    BY <1>0, <1>1, <1>2, BecomesEffect DEF Step
  <1>4. store # "memory"
    BY <1>0, <1>2 DEF InMemory
  <1>5. TypeOK'
    BY <1>0, <1>2, <1>3 DEF TypeOK
  <1>6. Clocks' /\ Begun' /\ InMemory' /\ Present' /\ Young' /\ KeyHeld'
    BY <1>0, <1>1, <1>2, <1>3, <1>4
       DEF Clocks, Begun, InMemory, Present, Young, KeyHeld, InFlight, Added
  <1>7. \A q \in Requests :
          Added(q) /\ q \notin lost /\ request[q].at > now - Window => q \in entries
    BY <1>0 DEF Present
  <1>8. r \in entries \/ r \in lost
    <2>1. request[r].at > now - Window
      <3>1. now - request[r].at =< MaxDelay
        BY <1>0, <1>2 DEF Clocks, InFlight
      <3>2. now \in Nat /\ request[r].at \in Nat
        BY <1>0 DEF TypeOK
      <3> QED BY <3>1, <3>2
    <2> QED BY <1>2, <1>7, <2>1 DEF Added
  <1>9. \A q \in entries : /\ request[q].step # "idle" /\ request[q].at =< now
                            /\ request[q].at > request[r].at - Window
    BY <1>0, <1>1, <1>2 DEF Begun, Clocks, Young
  <1>10. InFlight(r)
    BY <1>2 DEF InFlight
  <1>11. AllowedWithinLimit' /\ RejectedOnlyWhenFull'
    BY <1>1, <1>2, <1>7, <1>8, <1>9, <1>10, CountKeepsBoth
  <1> QED BY <1>5, <1>6, <1>11 DEF IInv

LEMMA ExpireStep ==
  ASSUME IInv, NEW r \in Requests, Expire(r)
  PROVE  IInv'
  <1> USE LimiterAssumption DEF LimiterAssumption
  <1>0. TypeOK /\ Clocks /\ Begun /\ InMemory /\ Present /\ Young /\ KeyHeld
        /\ AllowedWithinLimit /\ RejectedOnlyWhenFull
    BY DEF IInv
  <1>1. /\ request' \in [Requests -> [step : Step, at : Nat, count : Nat]]
        /\ \A q \in Requests : q # r => request'[q] = request[q]
        /\ \A q \in Requests : request'[q].at = request[q].at
                               /\ request'[q].count = request[q].count
        /\ request'[r].step = "done"
    BY <1>0, GoesEffect DEF Expire, Step
  <1>2. /\ request[r].step = "expire"
        /\ keyExpiry' = IF entries = {} THEN keyExpiry ELSE now + Window
        /\ store' = store /\ now' = now /\ entries' = entries /\ lost' = lost
    BY DEF Expire, PutOff
  <1>3. store # "memory"
    BY <1>0, <1>2 DEF InMemory
  <1>4. /\ now \in Nat /\ keyExpiry \in Nat /\ entries \subseteq Requests
        /\ \A q \in Requests : request[q].at \in Nat /\ request[q].at =< now
    BY <1>0 DEF TypeOK, Clocks
  <1>5. TypeOK'
    BY <1>0, <1>1, <1>2, <1>4 DEF TypeOK
  <1>6. Clocks' /\ Begun' /\ InMemory' /\ Present' /\ Young'
    BY <1>0, <1>1, <1>2, <1>3, <1>4
       DEF Clocks, Begun, InMemory, Present, Young, InFlight, Added
  <1>7. KeyHeld'
    <2>1. CASE entries = {}
      BY <1>0, <1>2, <2>1 DEF KeyHeld
    <2>2. CASE entries # {}
      BY <1>1, <1>2, <1>4, <2>2 DEF KeyHeld
    <2> QED BY <2>1, <2>2
  <1>8. AllowedWithinLimit'
    BY <1>0, <1>1, <1>2, AllowedShrinks DEF Allowed, Counted
  <1>9. RejectedOnlyWhenFull'
    <2>1. \A q \in Requests : Rejected(q)' => Rejected(q)
      BY <1>1, <1>2 DEF Rejected, Counted
    <2>2. \A q \in Requests : request[q].step # "idle" => request'[q].step # "idle"
      BY <1>1
    <2> QED BY <1>0, <1>1, <2>1, <2>2, RivalsGrow
  <1> QED BY <1>5, <1>6, <1>7, <1>8, <1>9 DEF IInv

LEMMA BreakStep ==
  ASSUME IInv, NEW r \in Requests, Break(r)
  PROVE  IInv'
  <1>0. TypeOK /\ Clocks /\ Begun /\ InMemory /\ Present /\ Young /\ KeyHeld
        /\ AllowedWithinLimit /\ RejectedOnlyWhenFull
    BY DEF IInv
  <1>1. PICK step \in {"failed", "cut"} :
          Goes(r, step) /\ (step = "cut" => request[r].step = "expire")
    BY DEF Break
  <1>2. /\ request' \in [Requests -> [step : Step, at : Nat, count : Nat]]
        /\ \A q \in Requests : q # r => request'[q] = request[q]
        /\ \A q \in Requests : request'[q].at = request[q].at
                               /\ request'[q].count = request[q].count
        /\ request'[r].step = step
    BY <1>0, <1>1, GoesEffect DEF Step
  <1>3. /\ store = "redis" /\ InFlight(r)
        /\ store' = store /\ now' = now /\ entries' = entries
        /\ keyExpiry' = keyExpiry /\ lost' = lost
    BY DEF Break
  <1>4. entries \subseteq Requests
    BY <1>0 DEF TypeOK
  <1>5. TypeOK'
    BY <1>0, <1>2, <1>3 DEF TypeOK
  <1>6. Clocks' /\ Begun' /\ InMemory' /\ Present' /\ Young' /\ KeyHeld'
    BY <1>0, <1>1, <1>2, <1>3, <1>4
       DEF Clocks, Begun, InMemory, Present, Young, KeyHeld, InFlight, Added
  <1>7. AllowedWithinLimit'
    BY <1>0, <1>1, <1>2, <1>3, AllowedShrinks DEF Allowed, Counted
  <1>8. RejectedOnlyWhenFull'
    <2>1. \A q \in Requests : Rejected(q)' => Rejected(q)
      BY <1>1, <1>2 DEF Rejected, Counted
    <2>2. \A q \in Requests : request[q].step # "idle" => request'[q].step # "idle"
      BY <1>2
    <2> QED BY <1>0, <1>2, <2>1, <2>2, RivalsGrow
  <1> QED BY <1>5, <1>6, <1>7, <1>8 DEF IInv

LEMMA ExecStep ==
  ASSUME IInv, NEW r \in Requests, Exec(r)
  PROVE  IInv'
  <1> USE LimiterAssumption DEF LimiterAssumption
  <1>0. TypeOK /\ Clocks /\ Begun /\ InMemory /\ Present /\ Young /\ KeyHeld
    BY DEF IInv
  <1> DEFINE M == Kept(r) \cup {r}
  <1>1. M \subseteq Requests /\ Cardinality(M) \in Nat
    BY <1>0, Counting DEF TypeOK, Kept
  <1>2. /\ store = "memory" /\ request[r].step = "remove"
        /\ Becomes(r, "done", Cardinality(M)) /\ entries' = M
        /\ store' = store /\ now' = now /\ keyExpiry' = keyExpiry /\ lost' = lost
    BY DEF Exec
  <1>3. /\ request' \in [Requests -> [step : Step, at : Nat, count : Nat]]
        /\ \A q \in Requests : q # r => request'[q] = request[q]
        /\ \A q \in Requests : request'[q].at = request[q].at
        /\ request'[r].step = "done"
    BY <1>0, <1>1, <1>2, BecomesEffect DEF Step
  <1>4. /\ now \in Nat /\ keyExpiry = 0 /\ entries \subseteq Requests
        /\ \A q \in Requests : request[q].at \in Nat /\ request[q].at =< now
    BY <1>0, <1>2 DEF TypeOK, Clocks, InMemory
  <1>5. /\ r \in M
        /\ \A q \in M : q # r => q \in entries /\ request[q].at > request[r].at - Window
    BY DEF Kept
  <1>6. \A q \in entries : request[q].at > request[r].at - Window => q \in M
    BY DEF Kept
  <1> HIDE DEF M
  <1>7. TypeOK'
    BY <1>0, <1>1, <1>2, <1>3 DEF TypeOK
  <1>8. Clocks' /\ Begun' /\ InMemory'
    BY <1>0, <1>1, <1>2, <1>3, <1>5 DEF Clocks, Begun, InMemory, InFlight
  <1>9. \A q \in Requests :
          Added(q) /\ q \notin lost /\ request[q].at > now - Window => q \in M
    <2> SUFFICES ASSUME NEW q \in Requests, Added(q), q \notin lost,
                        request[q].at > now - Window
                 PROVE  q \in M
      OBVIOUS
    <2>1. q \in entries
      BY <1>0 DEF Present
    <2>2. request[q].at > request[r].at - Window
      BY <1>4
    <2> QED BY <1>6, <2>1, <2>2
  <1>10. Present'
    <2> SUFFICES ASSUME NEW q \in Requests, Added(q)', q \notin lost,
                        request[q].at > now - Window
                 PROVE  q \in M
      BY <1>2, <1>3 DEF Present
    <2>1. CASE q = r
      BY <1>5, <2>1
    <2>2. CASE q # r
      BY <1>3, <1>9, <2>2 DEF Added
    <2> QED BY <2>1, <2>2
  <1>11. Young'
    <2>1. \A q \in Requests : request'[q].step \notin {"add", "count"}
      BY <1>0, <1>2, <1>3 DEF InMemory
    <2> QED BY <2>1 DEF Young
  <1>12. KeyHeld'
    BY <1>2, <1>4 DEF KeyHeld
  <1>13. \A q \in M : /\ request[q].step # "idle" /\ request[q].at =< now
                      /\ request[q].at > request[r].at - Window
    <2> SUFFICES ASSUME NEW q \in M
                 PROVE  /\ request[q].step # "idle" /\ request[q].at =< now
                        /\ request[q].at > request[r].at - Window
      OBVIOUS
    <2>1. CASE q = r
      BY <1>2, <1>4, <2>1
    <2>2. CASE q # r
      BY <1>0, <1>4, <1>5, <2>2 DEF Begun
    <2> QED BY <2>1, <2>2
  <1>14. InFlight(r)
    BY <1>2 DEF InFlight
  <1>15. AllowedWithinLimit' /\ RejectedOnlyWhenFull'
    BY <1>1, <1>2, <1>5, <1>9, <1>13, <1>14, CountKeepsBoth
  <1> QED BY <1>7, <1>8, <1>10, <1>11, <1>12, <1>15 DEF IInv

LEMMA AdvanceStep ==
  ASSUME IInv, Advance
  PROVE  IInv'
  <1> USE LimiterAssumption DEF LimiterAssumption
  <1>0. TypeOK /\ Clocks /\ Begun /\ InMemory /\ Present /\ Young /\ KeyHeld
        /\ AllowedWithinLimit /\ RejectedOnlyWhenFull
    BY DEF IInv
  <1>1. /\ now \in Nat /\ keyExpiry \in Nat /\ entries \subseteq Requests
        /\ \A q \in Requests : request[q].at \in Nat /\ request[q].at =< now
    BY <1>0 DEF TypeOK, Clocks
  <1>2. /\ now' = now + 1 /\ store' = store /\ request' = request
        /\ \A q \in Requests : InFlight(q) => now - request[q].at < MaxDelay
    BY DEF Advance
  <1>3. \/ /\ entries' = {} /\ keyExpiry' = 0
           /\ lost' = lost \cup {q \in entries : now + 1 - request[q].at < Window}
        \/ entries' = entries /\ keyExpiry' = keyExpiry /\ lost' = lost
    BY DEF Advance
  <1>4. TypeOK'
    BY <1>0, <1>1, <1>2, <1>3 DEF TypeOK
  <1>5. Clocks'
    BY <1>1, <1>2 DEF Clocks, InFlight
  <1>6. Begun' /\ InMemory' /\ Young'
    BY <1>0, <1>2, <1>3 DEF Begun, InMemory, Young
  <1>7. Present'
    <2> SUFFICES ASSUME NEW q \in Requests, Added(q)', q \notin lost',
                        request'[q].at > now' - Window
                 PROVE  q \in entries'
      BY DEF Present
    <2>1. request[q].at > now - Window /\ now + 1 - request[q].at < Window
      BY <1>1, <1>2
    <2>2. q \in entries
      BY <1>0, <1>2, <1>3, <2>1 DEF Present, Added
    <2> QED BY <1>3, <2>1, <2>2
  <1>8. KeyHeld'
    BY <1>0, <1>1, <1>2, <1>3 DEF KeyHeld
  <1>9. AllowedWithinLimit'
    BY <1>0, <1>2, <1>3, AllowedShrinks DEF Allowed, Counted
  <1>10. RejectedOnlyWhenFull'
    BY <1>0, <1>2, RivalsGrow DEF Rejected, Counted
  <1> QED BY <1>4, <1>5, <1>6, <1>7, <1>8, <1>9, <1>10 DEF IInv

-----------------------------------------------------------------------------
(* The theorems.                                                           *)

LEMMA NextIInv == IInv /\ [Next]_vars => IInv'
  <1> SUFFICES ASSUME IInv, [Next]_vars
               PROVE  IInv'
    OBVIOUS
  <1>1. CASE UNCHANGED vars
    BY <1>1
       DEF vars, IInv, TypeOK, Clocks, Begun, InMemory, Present, Young, KeyHeld,
           AllowedWithinLimit, RejectedOnlyWhenFull, AllowedUntil, Rivals, Allowed,
           Rejected, Counted, InFlight, Added
  <1>2. CASE Next
    BY <1>2, BeginStep, RemoveStep, AddStep, CountStep, ExpireStep, BreakStep, ExecStep,
       AdvanceStep DEF Next
  <1> QED BY <1>1, <1>2

\* The inductive invariant holds in every state.
THEOREM IInvHolds == Spec => []IInv
  BY InitIInv, NextIInv, PTL DEF Spec

\* Every variable of the limiter keeps its type.
THEOREM TypeCorrect == Spec => []TypeOK
  <1>1. IInv => TypeOK
    BY DEF IInv
  <1> QED BY <1>1, IInvHolds, PTL

\* However many gateways run their pipelines at once and wherever these break
\* off, at most Limit requests get through in a window shortened by the
\* longest delay.
THEOREM LimitHolds == Spec => []AllowedWithinLimit
  <1>1. IInv => AllowedWithinLimit
    BY DEF IInv
  <1> QED BY <1>1, IInvHolds, PTL

\* A request is only rejected when Limit others of the caller fall into its
\* window.
THEOREM RejectionsJust == Spec => []RejectedOnlyWhenFull
  <1>1. IInv => RejectedOnlyWhenFull
    BY DEF IInv
  <1> QED BY <1>1, IInvHolds, PTL

\* No removal and no expiry takes the entry of a completed pipeline before a
\* window has passed.
THEOREM EntriesLast == Spec => CompletedEntriesLast
  <1> USE LimiterAssumption DEF LimiterAssumption
  <1> DEFINE Lasts == \A r \in entries \ entries' :
                        request[r].step = "done" => now' - request[r].at >= Window
  <1>1. IInv /\ [Next]_vars => [Lasts]_vars
    <2> SUFFICES ASSUME IInv, Next, NEW r \in entries \ entries', request[r].step = "done"
                 PROVE  now' - request[r].at >= Window
      OBVIOUS
    <2>1. /\ now \in Nat /\ keyExpiry \in Nat /\ r \in Requests
          /\ \A q \in Requests : request[q].at \in Nat /\ request[q].at =< now
          /\ KeyHeld
      BY DEF IInv, TypeOK, Clocks
    <2>2. ASSUME NEW q \in Requests, Remove(q) \/ Exec(q)
          PROVE  now' - request[r].at >= Window
      <3>1. r \notin Kept(q) /\ now' = now
        BY <2>2 DEF Remove, Exec
      <3>2. ~(request[r].at > request[q].at - Window)
        BY <3>1 DEF Kept
      <3> QED BY <2>1, <3>1, <3>2
    <2>3. ASSUME NEW q \in Requests,
                 Begin(q) \/ Add(q) \/ Count(q) \/ Expire(q) \/ Break(q)
          PROVE  FALSE
      BY <2>3 DEF Begin, Add, Count, Expire, Break
    <2>4. CASE Advance
      <3>1. keyExpiry # 0 /\ keyExpiry =< now + 1 /\ now' = now + 1
        BY <2>4 DEF Advance, KeyDue
      <3>2. request[r].at + Window =< keyExpiry
        BY <2>1, <3>1 DEF KeyHeld
      <3> QED BY <2>1, <3>1, <3>2
    <2> QED BY <2>2, <2>3, <2>4 DEF Next
  <1>2. Spec => [][Lasts]_vars
    BY <1>1, IInvHolds, PTL DEF Spec
  <1> QED BY <1>2 DEF CompletedEntriesLast

=============================================================================

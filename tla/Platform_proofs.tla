-------------------------- MODULE Platform_proofs --------------------------
(***************************************************************************)
(* Proofs about the user service, the data service, the gateways and the   *)
(* dashboards, for any number of tenants, keys, gateways, hubs, browsers   *)
(* and events.  Each part has a section of its own; the last one is about  *)
(* the four together, as they are run.                                     *)
(***************************************************************************)
EXTENDS MCPlatform, BoundedLogLemmas

-----------------------------------------------------------------------------
(* The user service.                                                       *)

\* PATCH assigns any fields, and a profile stays a profile.
LEMMA AssignKeepsProfile ==
  ASSUME NEW user \in Profile, NEW body \in Body
  PROVE  Assign(user, body) \in Profile
<1>1. PICK F \in SUBSET {"id", "tenant_id", "name", "deleted_at"}, p \in Profile :
        body = [f \in F |-> p[f]]
  BY DEF Body
<1>2. DOMAIN user = {"id", "tenant_id", "name", "deleted_at"} /\ DOMAIN body = F
  BY <1>1 DEF Profile
<1>3. /\ Assign(user, body) = [f \in {"id", "tenant_id", "name", "deleted_at"} |->
                                IF f \in F THEN p[f] ELSE user[f]]
  BY <1>1, <1>2 DEF Assign
<1> QED
  BY <1>3 DEF Profile

\* What a step of the user service does to the profiles.
LEMMA UserStep ==
  ASSUME UserTypeOK, [UserNext]_userVars
  PROVE  /\ UserTypeOK'
         /\ \A k \in DOMAIN store : k \in DOMAIN store' /\ store[k].deleted_at =>
              store'[k].deleted_at
         /\ \A k \in DOMAIN store \cap DOMAIN store' :
              store'[k] # store[k] => caller' = store[k].tenant_id
<1> USE UserAssumption DEF UserTypeOK, Keys
<1>1. ASSUME NEW t \in Tenants, NEW name \in Names \cup {Blank}, Create(t, name)
      PROVE  /\ UserTypeOK'
             /\ \A k \in DOMAIN store : k \in DOMAIN store' /\ store'[k] = store[k]
  <2>1. created + 1 \notin DOMAIN store
    OBVIOUS
  <2>2. [id |-> created + 1, tenant_id |-> t, name |-> name, deleted_at |-> FALSE] \in Profile
    BY <1>1 DEF Create, Profile
  <2>3. /\ DOMAIN store' = DOMAIN store \cup {created + 1}
        /\ \A k \in DOMAIN store : store'[k] = store[k]
        /\ store'[created + 1] \in Profile
    BY <1>1, <2>1, <2>2 DEF Create
  <2>4. created' = created + 1 /\ created' \in 0 .. ProfileCap /\ caller' \in Tenants
    BY <1>1 DEF Create
  <2>5. DOMAIN store' \subseteq 1 .. created'
    BY <2>3, <2>4
  <2>6. \A k \in DOMAIN store' : store'[k] \in Profile
    BY <2>3
  <2> QED
    BY <2>3, <2>4, <2>5, <2>6
<1>2. ASSUME NEW t \in Tenants, NEW k \in Keys, Delete(t, k)
      PROVE  /\ UserTypeOK'
             /\ DOMAIN store' = DOMAIN store
             /\ caller' = store[k].tenant_id
             /\ \A i \in DOMAIN store : i # k => store'[i] = store[i]
             /\ store'[k].deleted_at
  BY <1>2 DEF Delete, MayDelete, Owned, Profile
<1>3. ASSUME NEW t \in Tenants, NEW k \in Keys, NEW body \in Body, Patch(t, k, body)
      PROVE  /\ UserTypeOK'
             /\ DOMAIN store' = DOMAIN store
             /\ caller' = store[k].tenant_id
             /\ \A i \in DOMAIN store : i # k => store'[i] = store[i]
             /\ ~store[k].deleted_at
  <2>1. k \in DOMAIN store /\ store[k] \in Profile
    BY <1>3 DEF Patch, MayPatch, Found, Owned
  <2>2. Assign(store[k], body) \in Profile
    BY <2>1, AssignKeepsProfile
  <2> QED
    BY <1>3, <2>1, <2>2 DEF Patch, MayPatch, Found, Owned
<1>4. CASE UserRestart
  BY <1>4 DEF UserRestart
<1>5. CASE UNCHANGED userVars
  BY <1>5 DEF userVars
<1>6. ASSUME NEW t \in Tenants, NEW k \in Keys, Delete(t, k) \/ \E body \in Body : Patch(t, k, body)
      PROVE  k \in DOMAIN store
  BY <1>6 DEF Delete, MayDelete, Patch, MayPatch, Found, Owned
<1> QED
  BY <1>1, <1>2, <1>3, <1>4, <1>5, <1>6 DEF UserNext, userVars

\* Every variable of the user service keeps its type.
THEOREM UserTypeCorrect == UserSpec => []UserTypeOK
<1>1. UserInit => UserTypeOK
  BY UserAssumption DEF UserInit, UserTypeOK, Keys
<1> QED
  BY <1>1, UserStep, PTL DEF UserSpec

\* DELETE is for good, for any tenants and any bodies of PATCH.
THEOREM DeletedForGood == UserSpec => DeletedIsFinal
<1>1. ASSUME UserTypeOK, [UserNext]_userVars
      PROVE  [\A k \in DOMAIN store :
                store[k].deleted_at => \A t \in Tenants : k \notin Listed(t)']_userVars
  BY <1>1, UserStep DEF Listed, Found
<1> QED
  BY <1>1, UserTypeCorrect, PTL DEF UserSpec, DeletedIsFinal

\* A profile is changed by the tenant it is in and by nobody else.
THEOREM ChangedAtHome == UserSpec => ChangedByItsTenant
<1>1. ASSUME UserTypeOK, [UserNext]_userVars
      PROVE  [\A k \in DOMAIN store \cap DOMAIN store' :
                store'[k] # store[k] => caller' = store[k].tenant_id]_userVars
  BY <1>1, UserStep
<1> QED
  BY <1>1, UserTypeCorrect, PTL DEF UserSpec, ChangedByItsTenant
-----------------------------------------------------------------------------
(* The data service.                                                       *)

Remembered == {k \in IdempotencyKeys : Cached(k)}

\* What the refinement needs of a state: types, and as many events as metrics.
DataInv == DataTypeOK /\ Len(events) = Len(write_model)

\* A command that is executed is accepted by the abstract log.
LEMMA CreateRefines ==
  ASSUME DataInv, NEW t \in DataTenants, NEW k \in IdempotencyKeys \cup {NoHeader},
         CreateMetric(t, k)
  PROVE  DataInv' /\ Log!LogNext
<1> USE DataAssumption DEF DataInv, DataTypeOK
<1>1. /\ NewMetric \in Nat \ {0} /\ NewMetric =< CommandCap
      /\ NewMetric = Len(write_model) + 1 /\ NewMetric = Len(events) + 1
  BY DEF CreateMetric, NewMetric
<1>2. /\ write_model' \in Seq(DataTenants) /\ Len(write_model') = NewMetric
      /\ events' \in Seq(DataTenants) /\ Len(events') = NewMetric
      /\ keys' \in Seq(IdempotencyKeys \cup {NoHeader})
  <2>1. write_model' = Append(write_model, t) /\ events' = Append(events, t) /\ keys' = Append(keys, k)
    BY DEF CreateMetric, write_metric
  <2> QED
    BY <1>1, <2>1
<1>3. /\ events' = Append(events, t)
      /\ read_model' = [read_model EXCEPT ![t] = Append(@, NewMetric)]
  BY DEF CreateMetric, write_metric
<1>4. /\ records' \in [IdempotencyKeys -> 0 .. NewMetric]
      /\ \A i \in IdempotencyKeys : records'[i] = IF i = k THEN NewMetric ELSE records[i]
      /\ expired' = expired \ {k}
  BY <1>1 DEF CreateMetric, Set, NewMetric
<1>5. read_model' \in [DataTenants -> Seq(1 .. NewMetric)]
  <2>1. \A u \in DataTenants : read_model[u] \in Seq(1 .. NewMetric)
    <3>1. \A n, m \in Nat : n =< m => Seq(1 .. n) \subseteq Seq(1 .. m)
      OBVIOUS
    <3> QED
      BY <1>1, <3>1 DEF NewMetric
  <2>2. Append(read_model[t], NewMetric) \in Seq(1 .. NewMetric)
    BY <1>1, <2>1
  <2> QED
    BY <1>3, <2>1, <2>2
<1>6. DataInv'
  BY <1>1, <1>4, <1>5, <1>2
<1>7. k \notin Remembered /\ Remembered' = Remembered \cup ({k} \ {NoHeader})
  <2>1. CASE k = NoHeader
    BY <1>4, <2>1 DEF Remembered, Cached
  <2>2. CASE k # NoHeader
    <3>1. k \in IdempotencyKeys /\ k \notin Remembered
      BY <2>2 DEF CreateMetric, Remembered
    <3>2. Remembered' = Remembered \cup {k}
      BY <1>1, <1>4, <3>1 DEF Remembered, Cached
    <3> QED
      BY <2>2, <3>1, <3>2
  <2> QED
    BY <2>1, <2>2
<1>8. Log!Accept(t, k)
  BY <1>1, <1>3, <1>7 DEF Log!Accept, Remembered, CreateMetric
<1> QED
  BY <1>6, <1>8 DEF Log!LogNext

\* A record that expires is a key the abstract log forgets.
LEMMA ExpiryRefines ==
  ASSUME DataInv, NEW k \in IdempotencyKeys, RecordExpires(k)
  PROVE  DataInv' /\ Log!LogNext
<1>1. DataInv'
  BY DEF DataInv, DataTypeOK, RecordExpires
<1>2. Remembered' = Remembered \ {k}
  BY DEF RecordExpires, Remembered, Cached, DataInv, DataTypeOK
<1> QED
  BY <1>1, <1>2 DEF RecordExpires, Log!LogNext, Log!Forget, Remembered

\* What a step of the data service does to the abstract log.
LEMMA DataStep ==
  ASSUME DataInv, [DataNext]_dataVars
  PROVE  DataInv' /\ [Log!LogNext]_(Log!logVars)
<1>1. CASE DataRestart
  <2>1. DataInv'
    BY <1>1, DataAssumption DEF DataRestart, DataInv, DataTypeOK
  <2>2. Remembered' = {}
    BY <1>1 DEF DataRestart, Remembered, Cached
  <2> QED
    BY <1>1, <2>1, <2>2 DEF DataRestart, Log!LogNext, Log!Lose, Remembered
<1>2. CASE UNCHANGED dataVars
  BY <1>2 DEF dataVars, Log!logVars, DataInv, DataTypeOK, Cached
<1> QED
  BY <1>1, <1>2, CreateRefines, ExpiryRefines DEF DataNext

LEMMA DataStarts ==
  ASSUME DataInit
  PROVE  DataInv /\ Log!LogInit
BY DataAssumption DEF DataInit, DataInv, DataTypeOK, Log!LogInit, Cached

\* The data service implements CommandLog: nothing is written twice under one
\* key within its lifetime, and the three lists agree.
THEOREM ImplementsCommandLog == DataSpec => CommandLogSpec
BY DataStarts, DataStep, PTL DEF DataSpec, CommandLogSpec, Log!CommandLogSpec

\* Every variable of the data service keeps its type.
THEOREM DataTypeCorrect == DataSpec => []DataTypeOK
<1>1. DataInv => DataTypeOK
  BY DEF DataInv
<1> QED
  BY <1>1, DataStarts, DataStep, PTL DEF DataSpec

\* The three lists of the repository say the same: an event for every metric,
\* and in the read model of a tenant the places of all its metrics and of no
\* other, in the order they were written.
ModelsAgree ==
  /\ events = write_model
  /\ \A t \in DataTenants :
       /\ \A i \in DOMAIN read_model[t] : write_model[read_model[t][i]] = t
       /\ \A i, j \in DOMAIN read_model[t] : i < j => read_model[t][i] < read_model[t][j]
       /\ \A n \in DOMAIN write_model :
            write_model[n] = t => \E i \in DOMAIN read_model[t] : read_model[t][i] = n

\* A record answers with the last metric that was written under its key.
ReplaysAnswerLast ==
  \A k \in IdempotencyKeys :
    records[k] # 0 =>
      /\ keys[records[k]] = k
      /\ \A n \in records[k] + 1 .. Len(keys) : keys[n] # k

ListsInv ==
  DataTypeOK /\ ModelsAgree /\ ReplaysAnswerLast /\ Len(keys) = Len(write_model)

\* The lists after a metric was written for t under k.
Written(t, k) ==
  /\ NewMetric \in Nat \ {0} /\ Len(write_model) = NewMetric - 1 /\ Len(keys) = NewMetric - 1
  /\ events' = write_model'
  /\ DOMAIN write_model' = 1 .. NewMetric
  /\ \A n \in 1 .. NewMetric - 1 : write_model'[n] = write_model[n] /\ keys'[n] = keys[n]
  /\ write_model'[NewMetric] = t /\ keys'[NewMetric] = k
  /\ Len(keys') = NewMetric /\ Len(write_model') = NewMetric

LEMMA CreateAppends ==
  ASSUME ListsInv, NEW t \in DataTenants, NEW k \in IdempotencyKeys \cup {NoHeader},
         CreateMetric(t, k)
  PROVE  Written(t, k)
<1> USE DEF ListsInv, DataTypeOK, ModelsAgree
<1>1. write_model' = Append(write_model, t) /\ events' = Append(events, t) /\ keys' = Append(keys, k)
  BY DEF CreateMetric, write_metric
<1>2. NewMetric \in Nat \ {0} /\ Len(write_model) = NewMetric - 1 /\ Len(keys) = NewMetric - 1
  BY DEF NewMetric
<1> QED
  BY <1>1, <1>2 DEF Written

\* A metric that is written keeps the lists in agreement.
LEMMA CreateAgrees ==
  ASSUME ListsInv, NEW t \in DataTenants, NEW k \in IdempotencyKeys \cup {NoHeader},
         CreateMetric(t, k)
  PROVE  ModelsAgree'
<1>0. Written(t, k)
  BY CreateAppends
<1>1. ASSUME NEW u \in DataTenants
      PROVE  /\ \A i \in DOMAIN read_model'[u] : write_model'[read_model'[u][i]] = u
             /\ \A i, j \in DOMAIN read_model'[u] :
                  i < j => read_model'[u][i] < read_model'[u][j]
             /\ \A n \in DOMAIN write_model' :
                  write_model'[n] = u => \E i \in DOMAIN read_model'[u] : read_model'[u][i] = n
  <2>1. PICK v \in Seq(Nat) : v = read_model[u] /\ \A i \in 1 .. Len(v) : v[i] \in 1 .. NewMetric - 1
    <3>1. read_model[u] \in Seq(1 .. NewMetric - 1)
      BY <1>0 DEF Written, ListsInv, DataTypeOK
    <3>2. \A n \in Nat : \A s \in Seq(1 .. n) : s \in Seq(Nat) /\ \A i \in 1 .. Len(s) : s[i] \in 1 .. n
      OBVIOUS
    <3>3. NewMetric - 1 \in Nat
      BY <1>0 DEF Written
    <3> QED
      BY <3>1, <3>2, <3>3
  <2>2. DOMAIN v = 1 .. Len(v) /\ Len(v) \in Nat
    BY <2>1
  <2>3. \A i \in 1 .. Len(v) : write_model[v[i]] = u
    BY <2>1, <2>2 DEF ListsInv, ModelsAgree
  <2>4. \A i, j \in 1 .. Len(v) : i < j => v[i] < v[j]
    BY <2>1, <2>2 DEF ListsInv, ModelsAgree
  <2>5. \A n \in 1 .. NewMetric - 1 : write_model[n] = u => \E i \in 1 .. Len(v) : v[i] = n
    <3>1. DOMAIN write_model = 1 .. NewMetric - 1
      BY <1>0 DEF Written, ListsInv, DataTypeOK
    <3> QED
      BY <2>1, <2>2, <3>1 DEF ListsInv, ModelsAgree
  <2>6. CASE u # t
    <3>1. read_model'[u] = v
      BY <2>1, <2>6 DEF CreateMetric, write_metric, ListsInv, DataTypeOK
    <3>2. \A i \in DOMAIN v : write_model'[v[i]] = u
      BY <1>0, <2>1, <2>2, <2>3 DEF Written
    <3>3. \A n \in 1 .. NewMetric : write_model'[n] = u => \E i \in DOMAIN v : v[i] = n
      BY <1>0, <2>2, <2>5, <2>6 DEF Written
    <3> QED
      BY <1>0, <2>2, <2>4, <3>1, <3>2, <3>3 DEF Written
  <2>7. CASE u = t
    <3>1. PICK w \in Seq(Nat) : w = Append(v, NewMetric)
      <4>1. NewMetric \in Nat
        BY <1>0 DEF Written
      <4>2. Append(v, NewMetric) \in Seq(Nat)
        BY <2>1, <4>1
      <4> QED
        BY <4>2
    <3>2. read_model'[u] = w
      BY <2>1, <2>7, <3>1 DEF CreateMetric, write_metric, ListsInv, DataTypeOK
    <3>3. /\ DOMAIN w = 1 .. Len(v) + 1
          /\ \A i \in 1 .. Len(v) : w[i] = v[i]
          /\ w[Len(v) + 1] = NewMetric
      BY <1>0, <2>2, <3>1 DEF Written
    <3>4. \A i \in DOMAIN w : write_model'[w[i]] = u
      <4>1. \A i \in 1 .. Len(v) : write_model'[w[i]] = u
        <5>1. ASSUME NEW i \in 1 .. Len(v)
              PROVE  write_model'[w[i]] = u
          <6>1. w[i] = v[i] /\ v[i] \in 1 .. NewMetric - 1 /\ write_model[v[i]] = u
            BY <2>1, <2>3, <3>3
          <6> QED
            BY <1>0, <6>1 DEF Written
        <5> QED
          BY <5>1
      <4> QED
        BY <1>0, <2>2, <2>7, <3>3, <4>1 DEF Written
    <3>5. \A i, j \in DOMAIN w : i < j => w[i] < w[j]
      <4>1. ASSUME NEW i \in 1 .. Len(v), NEW j \in DOMAIN w, i < j
            PROVE  w[i] < w[j]
        <5>1. CASE j \in 1 .. Len(v)
          BY <2>4, <3>3, <4>1, <5>1
        <5>2. CASE j = Len(v) + 1
          BY <1>0, <2>1, <3>3, <4>1, <5>2 DEF Written
        <5> QED
          BY <2>2, <3>3, <5>1, <5>2
      <4> QED
        BY <2>2, <3>3, <4>1
    <3>6. ASSUME NEW n \in 1 .. NewMetric, write_model'[n] = u
          PROVE  \E i \in DOMAIN w : w[i] = n
      <4>1. CASE n = NewMetric
        BY <2>2, <3>3, <4>1
      <4>2. CASE n # NewMetric
        <5>1. n \in 1 .. NewMetric - 1 /\ write_model[n] = u
          BY <1>0, <3>6, <4>2 DEF Written
        <5>2. PICK i \in 1 .. Len(v) : v[i] = n
          BY <2>5, <5>1
        <5>3. i \in DOMAIN w /\ w[i] = n
          BY <2>2, <3>3, <5>2
        <5> QED
          BY <5>3
      <4> QED
        BY <4>1, <4>2
    <3> QED
      BY <1>0, <3>2, <3>4, <3>5, <3>6 DEF Written
  <2> QED
    BY <2>6, <2>7
<1> QED
  BY <1>1, <1>0 DEF Written, ModelsAgree

\* A metric that is written under a key is what the key answers with from now on.
LEMMA CreateAnswersLast ==
  ASSUME ListsInv, NEW t \in DataTenants, NEW k \in IdempotencyKeys \cup {NoHeader},
         CreateMetric(t, k)
  PROVE  ReplaysAnswerLast'
<1>0. Written(t, k)
  BY CreateAppends
<1>1. ASSUME NEW i \in IdempotencyKeys, records'[i] # 0
      PROVE  /\ keys'[records'[i]] = i
             /\ \A n \in records'[i] + 1 .. Len(keys') : keys'[n] # i
  <2>1. CASE i = k
    BY <2>1, <1>0 DEF Written, CreateMetric, Set
  <2>2. CASE i # k
    <3>1. records'[i] = records[i] /\ records[i] # 0 /\ records[i] \in 1 .. NewMetric - 1
      BY <1>1, <2>2, <1>0 DEF Written, CreateMetric, Set, ListsInv, DataTypeOK
    <3>2. keys[records[i]] = i /\ \A n \in records[i] + 1 .. NewMetric - 1 : keys[n] # i
      BY <3>1, <1>0 DEF Written, ListsInv, ReplaysAnswerLast
    <3>3. \A n \in records[i] + 1 .. NewMetric : keys'[n] # i
      BY <2>2, <3>1, <3>2, <1>0 DEF Written
    <3> QED
      BY <3>1, <3>2, <3>3, <1>0 DEF Written
  <2> QED
    BY <2>1, <2>2
<1> QED
  BY <1>1 DEF ReplaysAnswerLast

\* The lists agree and a replay is answered with the last metric of its key,
\* whatever expired, came back or was lost in between.
THEOREM ListsAgree == DataSpec => [](ModelsAgree /\ ReplaysAnswerLast)
<1>1. DataInit => ListsInv
  BY DataAssumption DEF DataInit, ListsInv, DataTypeOK, ModelsAgree, ReplaysAnswerLast
<1>2. ListsInv /\ DataTypeOK' /\ [DataNext]_dataVars => ListsInv'
  <2> SUFFICES ASSUME ListsInv, DataTypeOK', [DataNext]_dataVars
               PROVE  ListsInv'
    OBVIOUS
  <2>1. ASSUME NEW t \in DataTenants, NEW k \in IdempotencyKeys \cup {NoHeader}, CreateMetric(t, k)
        PROVE  ListsInv'
    <3>1. Written(t, k) /\ ModelsAgree' /\ ReplaysAnswerLast'
      BY <2>1, CreateAppends, CreateAgrees, CreateAnswersLast
    <3> QED
      BY <3>1 DEF Written, ListsInv
  <2>2. ASSUME NEW k \in IdempotencyKeys, RecordExpires(k)
        PROVE  ListsInv'
    BY <2>2 DEF RecordExpires, ListsInv, ModelsAgree, ReplaysAnswerLast
  <2>3. CASE DataRestart
    BY <2>3 DEF DataRestart, ListsInv, ModelsAgree, ReplaysAnswerLast
  <2>4. CASE UNCHANGED dataVars
    BY <2>4 DEF dataVars, ListsInv, ModelsAgree, ReplaysAnswerLast
  <2> QED
    BY <2>1, <2>2, <2>3, <2>4 DEF DataNext
<1>3. ListsInv => ModelsAgree /\ ReplaysAnswerLast
  BY DEF ListsInv
<1> QED
  BY <1>1, <1>2, <1>3, DataTypeCorrect, PTL DEF DataSpec

-----------------------------------------------------------------------------
(* The gateways.                                                           *)

USE EdgeAssumption

\* A table is attached by its name: default routes, or one that can be used.
LEMMA StoreAndTable ==
  ASSUME EdgeTypeOK, NEW g \in Gateways
  PROVE  /\ Store(g) \in Gateways \cup {Redis}
         /\ getRoutes(g) \in Tables \cup {Default}
         /\ getRoutes(g) \notin Unusable => getRoutes(g) \in (Tables \ Unusable) \cup {Default, Unset}
BY DEF EdgeTypeOK, Store, getRoutes

\* A process that ends leaves nothing behind.
LEMMA DiesKeepsTypes ==
  ASSUME EdgeTypeOK, NEW g \in Gateways, Dies(g),
         routes' \in [Gateways \cup {Redis} -> Tables \cup {Unset}],
         edgeKills' \in 0 .. KillCap, moved' \in [Gateways -> BOOLEAN]
  PROVE  EdgeTypeOK'
<1>1. NoKey \in Key
  BY DEF NoKey, Key
<1> QED
  BY <1>1 DEF EdgeTypeOK, Dies, auth

\* What a step of the gateways does to the types.
LEMMA EdgeStep ==
  ASSUME EdgeTypeOK, [EdgeNext]_edgeVars
  PROVE  EdgeTypeOK'
<1>1. ASSUME NEW g \in Gateways, Boot(g)
      PROVE  EdgeTypeOK'
  BY <1>1 DEF Boot, EdgeTypeOK, auth
<1>2. ASSUME NEW g \in Gateways, Serves(g)
      PROVE  EdgeTypeOK'
  BY <1>2, StoreAndTable DEF Serves, Attaches, EdgeTypeOK, auth
<1>3. ASSUME NEW g \in Gateways, Exits(g)
      PROVE  EdgeTypeOK'
  BY <1>3, DiesKeepsTypes DEF Exits, EdgeTypeOK
<1>4. ASSUME NEW g \in Gateways, KillGateway(g)
      PROVE  EdgeTypeOK'
  BY <1>4, DiesKeepsTypes DEF KillGateway, EdgeTypeOK
<1>5. ASSUME NEW g \in Gateways, Fetch(g)
      PROVE  EdgeTypeOK'
  <2>1. key[g] \in Key /\ key[g].tries < Attempts
    BY <1>5 DEF Fetch, Fetches, EdgeTypeOK
  <2>2. key' \in [Gateways -> Key]
    <3>1. ASSUME NEW p \in signing,
                 key' = [key EXCEPT ![g].state = "loaded", ![g].pair = p]
          PROVE  key' \in [Gateways -> Key]
      <4>1. p \in 0 .. PairCap
        BY DEF EdgeTypeOK
      <4>2. [key EXCEPT ![g].state = "loaded"] \in [Gateways -> Key]
        BY DEF EdgeTypeOK, Key
      <4> QED
        BY <3>1, <4>1, <4>2 DEF Key
    <3>2. ASSUME key' = [key EXCEPT ![g].tries = @ + 1]
          PROVE  key' \in [Gateways -> Key]
      <4>1. key[g].tries + 1 \in 0 .. Attempts
        BY <2>1 DEF Key
      <4> QED
        BY <3>2, <4>1 DEF EdgeTypeOK, Key
    <3> QED
      BY <1>5, <3>1, <3>2 DEF Fetch
  <2> QED
    BY <1>5, <2>2 DEF Fetch, EdgeTypeOK, auth
<1>6. ASSUME NEW g \in Gateways, GivesUp(g)
      PROVE  EdgeTypeOK'
  <2>1. CASE unsigned \/ Survives(g)
    <3>1. key' \in [Gateways -> Key]
      BY <1>6, <2>1 DEF GivesUp, EdgeTypeOK, Key
    <3> QED
      BY <1>6, <2>1, <3>1 DEF GivesUp, EdgeTypeOK, auth
  <2>2. CASE ~(unsigned \/ Survives(g))
    BY <1>6, <2>2, DiesKeepsTypes DEF GivesUp, EdgeTypeOK
  <2> QED
    BY <2>1, <2>2
<1>7. ASSUME NEW g \in Gateways, Await(g)
      PROVE  EdgeTypeOK'
  <2>1. key' \in [Gateways -> Key]
    BY <1>7 DEF Await, EdgeTypeOK, Key
  <2> QED
    BY <1>7, <2>1 DEF Await, EdgeTypeOK, auth
<1>8. ASSUME NEW g \in Gateways, NEW p \in 1 .. pairs, Verify(g, p)
      PROVE  EdgeTypeOK'
  BY <1>8 DEF Verify, EdgeTypeOK, auth
<1>9. ASSUME NEW g \in Gateways, NEW p \in 1 .. pairs, RoutesRejected(g, p)
      PROVE  EdgeTypeOK'
  BY <1>9, DiesKeepsTypes DEF RoutesRejected, EdgeTypeOK
<1>10. ASSUME NEW g \in Gateways, NEW p \in 1 .. pairs, NEW t \in Tables, PutRoutes(g, p, t)
       PROVE  EdgeTypeOK'
  BY <1>10, StoreAndTable DEF PutRoutes, Holds, Store, EdgeTypeOK, auth
<1>11. CASE AuthStarts
  <2>1. pairs' \in 0 .. PairCap /\ signing' \subseteq 1 .. pairs'
        /\ \A p \in 1 .. pairs : p \in 1 .. pairs'
    BY <1>11 DEF AuthStarts, EdgeTypeOK
  <2> QED
    BY <1>11, <2>1 DEF AuthStarts, EdgeTypeOK
<1>12. CASE \E p \in signing : AuthStops(p)
  BY <1>12 DEF AuthStops, EdgeTypeOK
<1>13. CASE RedisTurns
  BY <1>13 DEF RedisTurns, EdgeTypeOK, auth
<1>14. CASE \E s \in Gateways \cup {Redis} : RouteExpires(s)
  BY <1>14 DEF RouteExpires, Holds, Store, EdgeTypeOK, auth
<1>15. CASE UNCHANGED edgeVars
  BY <1>15 DEF edgeVars, EdgeTypeOK, auth
<1> QED
  BY <1>1, <1>2, <1>3, <1>4, <1>5, <1>6, <1>7, <1>8, <1>9, <1>10, <1>11, <1>12, <1>13,
     <1>14, <1>15 DEF EdgeNext

\* Every variable of the gateways keeps its type.
THEOREM EdgeTypeCorrect == EdgeSpec => []EdgeTypeOK
<1>1. EdgeInit => EdgeTypeOK
  <2>1. NoKey \in Key
    BY DEF NoKey, Key
  <2> QED
    BY <2>1 DEF EdgeInit, EdgeTypeOK
<1> QED
  BY <1>1, EdgeStep, PTL DEF EdgeSpec

\* A gateway that ends, or has not asked anybody in, owes nobody anything.
LEMMA DiesKeepsPromises ==
  ASSUME EdgeTypeOK, NEW g \in Gateways, Dies(g), UNCHANGED routes
  PROVE  /\ AcceptedStaysAccepted => AcceptedStaysAccepted'
         /\ TableAsReported /\ UNCHANGED moved => TableAsReported'
<1>1. \A h \in Gateways : h # g =>
        phase'[h] = phase[h] /\ table'[h] = table[h] /\ key'[h] = key[h] /\ accepted'[h] = accepted[h]
  BY DEF Dies, EdgeTypeOK
<1>2. accepted'[g] = {} /\ phase'[g] = "down" /\ UNCHANGED inMemory
  BY DEF Dies, EdgeTypeOK
<1>3. AcceptedStaysAccepted => AcceptedStaysAccepted'
  BY <1>1, <1>2 DEF AcceptedStaysAccepted, LetsIn
<1>4. TableAsReported /\ UNCHANGED moved => TableAsReported'
  BY <1>1, <1>2 DEF TableAsReported, getRoutes, Store
<1> QED
  BY <1>3, <1>4

\* Whoever is let in once is let in until the process ends: nothing is
\* accepted while the key is being loaded, and it is loaded once.
THEOREM AcceptedStays == EdgeSpec => []AcceptedStaysAccepted
<1>1. EdgeInit => AcceptedStaysAccepted
  BY DEF EdgeInit, AcceptedStaysAccepted
<1>2. ASSUME EdgeTypeOK, AcceptedStaysAccepted, [EdgeNext]_edgeVars
      PROVE  AcceptedStaysAccepted'
  <2> USE <1>2
  <2>1. ASSUME NEW g \in Gateways, Fetch(g) \/ (GivesUp(g) /\ ~Dies(g)) \/ Await(g)
        PROVE  AcceptedStaysAccepted'
    <3>1. key[g].state = "loading" /\ UNCHANGED accepted
          /\ \A h \in Gateways : h # g => key'[h] = key[h]
      BY <2>1 DEF Fetch, Fetches, GivesUp, Await, EdgeTypeOK
    <3>2. accepted[g] = {}
      BY <3>1 DEF AcceptedStaysAccepted, LetsIn
    <3> QED
      BY <3>1, <3>2 DEF AcceptedStaysAccepted, LetsIn
  <2>2. ASSUME NEW g \in Gateways, Dies(g), UNCHANGED routes
        PROVE  AcceptedStaysAccepted'
    BY <2>2, DiesKeepsPromises
  <2>3. ASSUME NEW g \in Gateways, NEW p \in 1 .. pairs, Verify(g, p)
        PROVE  AcceptedStaysAccepted'
    BY <2>3 DEF Verify, AcceptedStaysAccepted, LetsIn, EdgeTypeOK
  <2>4. CASE UNCHANGED <<key, accepted>>
    BY <2>4 DEF AcceptedStaysAccepted, LetsIn
  <2>5. ASSUME NEW g \in Gateways,
               \/ Boot(g) \/ Serves(g) \/ Exits(g) \/ KillGateway(g)
               \/ Fetch(g) \/ GivesUp(g) \/ Await(g)
               \/ \E p \in 1 .. pairs :
                    Verify(g, p) \/ RoutesRejected(g, p) \/ \E t \in Tables : PutRoutes(g, p, t)
        PROVE  AcceptedStaysAccepted'
    BY <2>1, <2>2, <2>3, <2>4, <2>5
       DEF Boot, Serves, Exits, KillGateway, GivesUp, RoutesRejected, PutRoutes
  <2>6. CASE \/ AuthStarts \/ \E p \in signing : AuthStops(p)
             \/ RedisTurns \/ \E s \in Gateways \cup {Redis} : RouteExpires(s)
             \/ UNCHANGED edgeVars
    BY <2>4, <2>6 DEF AuthStarts, AuthStops, RedisTurns, RouteExpires, edgeVars
  <2> QED
    BY <2>5, <2>6 DEF EdgeNext
<1> QED
  BY <1>1, <1>2, EdgeTypeCorrect, PTL DEF EdgeSpec

\* The attached table is the one that is reported, until that one moves: a
\* write to a store marks every gateway of it, and a start reads it anew.
THEOREM AttachedAsReported == EdgeSpec => []TableAsReported
<1>1. EdgeInit => TableAsReported
  BY DEF EdgeInit, TableAsReported
<1>2. ASSUME EdgeTypeOK, TableAsReported, [EdgeNext]_edgeVars
      PROVE  TableAsReported'
  <2> USE <1>2
  <2>1. ASSUME NEW g \in Gateways, Boot(g)
        PROVE  TableAsReported'
    <3>1. \A h \in Gateways : h # g => getRoutes(h)' = getRoutes(h) /\ phase'[h] = phase[h]
      BY <2>1 DEF Boot, getRoutes, Store, EdgeTypeOK
    <3>2. phase'[g] = "starting" /\ UNCHANGED <<table, moved>>
      BY <2>1 DEF Boot, EdgeTypeOK
    <3> QED
      BY <3>1, <3>2 DEF TableAsReported
  <2>2. ASSUME NEW g \in Gateways, Serves(g)
        PROVE  TableAsReported'
    BY <2>2 DEF Serves, Attaches, TableAsReported, getRoutes, Store, EdgeTypeOK
  <2>3. ASSUME NEW g \in Gateways, Dies(g), UNCHANGED <<routes, moved>>
        PROVE  TableAsReported'
    BY <2>3, DiesKeepsPromises
  <2>4. ASSUME NEW s \in Gateways \cup {Redis}, NEW t, Holds(s, t),
               UNCHANGED <<inMemory, phase, table>>
        PROVE  TableAsReported'
    <3>1. \A h \in Gateways : ~moved'[h] => ~moved[h] /\ getRoutes(h)' = getRoutes(h)
      BY <2>4 DEF Holds, getRoutes, Store, EdgeTypeOK
    <3> QED
      BY <2>4, <3>1 DEF TableAsReported
  <2>5. CASE UNCHANGED <<inMemory, routes, phase, table, moved>>
    BY <2>5 DEF TableAsReported, getRoutes, Store
  <2>6. ASSUME NEW g \in Gateways, NEW p \in 1 .. pairs, NEW t \in Tables, PutRoutes(g, p, t)
        PROVE  TableAsReported'
    BY <2>4, <2>6, StoreAndTable DEF PutRoutes
  <2>7. ASSUME NEW g \in Gateways,
               \/ Boot(g) \/ Serves(g) \/ Exits(g) \/ KillGateway(g)
               \/ Fetch(g) \/ GivesUp(g) \/ Await(g)
               \/ \E p \in 1 .. pairs :
                    Verify(g, p) \/ RoutesRejected(g, p) \/ \E t \in Tables : PutRoutes(g, p, t)
        PROVE  TableAsReported'
    BY <2>1, <2>2, <2>3, <2>5, <2>6, <2>7
       DEF Exits, KillGateway, Fetch, GivesUp, Await, Verify, RoutesRejected
  <2>8. CASE \/ AuthStarts \/ \E p \in signing : AuthStops(p)
             \/ RedisTurns \/ UNCHANGED edgeVars
    BY <2>5, <2>8 DEF AuthStarts, AuthStops, RedisTurns, edgeVars
  <2>9. CASE \E s \in Gateways \cup {Redis} : RouteExpires(s)
    BY <2>4, <2>9 DEF RouteExpires
  <2> QED
    BY <2>7, <2>8, <2>9 DEF EdgeNext
<1> QED
  BY <1>1, <1>2, EdgeTypeCorrect, PTL DEF EdgeSpec

-----------------------------------------------------------------------------
(* The dashboards.                                                         *)

USE DashboardAssumption, MalformedAssumption

\* What a hub emits to a browser goes into a buffer, which stays within bounds.
LEMMA PushedKeepsTypes ==
  ASSUME DashboardTypeOK, NEW b \in Browsers, NEW t \in DOMAIN Buffer, NEW m \in Event
  PROVE  /\ Pushed(b, t, m) \in [Buffers -> Seq(Event)]
         /\ \A k \in Buffers : Len(Pushed(b, t, m)[k]) =< BufferCap
<1>1. Buffer[t] \in Buffers
  BY DEF Buffer, Buffers, DASHBOARD_TOPICS
<1>2. buffers[b] \in [Buffers -> Seq(Event)] /\ \A k \in Buffers : Len(buffers[b][k]) =< BufferCap
  BY DEF DashboardTypeOK
<1>3. /\ Push(buffers[b][Buffer[t]], m, BufferCap) \in Seq(Event)
      /\ Len(Push(buffers[b][Buffer[t]], m, BufferCap)) =< BufferCap
  BY <1>1, <1>2, PushProperties
<1> QED
  BY <1>1, <1>2, <1>3 DEF Pushed

\* What a step does to the types.
LEMMA DashboardStep ==
  ASSUME DashboardTypeOK, [DashboardNext]_dashboardVars
  PROVE  DashboardTypeOK'
<1> USE DEF kafka, consuming
<1>1. ASSUME NEW t \in Topics, NEW m \in Event \cup {Malformed}, Publish(t, m)
      PROVE  DashboardTypeOK'
  <2>1. Append(messages[t], m) \in Seq(Event \cup {Malformed})
    BY DEF DashboardTypeOK
  <2> QED
    BY <1>1, <2>1 DEF Publish, DashboardTypeOK
<1>2. ASSUME NEW t \in Topics, NEW h \in Hubs, Rebalance(t, h)
      PROVE  DashboardTypeOK'
  <2> DEFINE start == IF offset[t] = 0 THEN Len(messages[t]) + 1 ELSE offset[t]
  <2>1. start \in Nat \ {0} /\ 1 .. start - 1 \subseteq Nat
    BY DEF DashboardTypeOK
  <2>2. /\ next' = [next EXCEPT ![t] = start]
        /\ emitted' = [emitted EXCEPT ![t] = @ \cup 1 .. start - 1]
    BY <1>2 DEF Rebalance
  <2> HIDE DEF start
  <2> QED
    BY <1>2, <2>1, <2>2 DEF Rebalance, DashboardTypeOK
<1>3. ASSUME NEW t \in Topics, Emit(t)
      PROVE  DashboardTypeOK'
  <2>1. messages[t][next[t]] \in Event
    BY <1>3 DEF Emit, DashboardTypeOK
  <2>2. \A b \in Browsers :
          /\ buffers'[b] \in [Buffers -> Seq(Event)]
          /\ \A k \in Buffers : Len(buffers'[b][k]) =< BufferCap
    <3> SUFFICES ASSUME NEW b \in Browsers
                 PROVE  /\ buffers'[b] \in [Buffers -> Seq(Event)]
                        /\ \A k \in Buffers : Len(buffers'[b][k]) =< BufferCap
      OBVIOUS
    <3>1. CASE Hears(b, owner[t], t)
      <4>1. buffers'[b] = Pushed(b, t, messages[t][next[t]])
        BY <1>3, <3>1 DEF Emit
      <4>2. t \in DOMAIN Buffer
        BY <3>1 DEF Hears
      <4> QED
        BY <4>1, <4>2, <2>1, PushedKeepsTypes
    <3>2. CASE ~Hears(b, owner[t], t)
      BY <1>3, <3>2 DEF Emit, DashboardTypeOK
    <3> QED
      BY <3>1, <3>2
  <2>3. buffers' \in [Browsers -> [Buffers -> Seq(Event)]]
    BY <1>3, <2>2 DEF Emit
  <2>4. received' \in [Browsers -> [Topics -> SUBSET Nat]]
    BY <1>3 DEF Emit, DashboardTypeOK
  <2>5. /\ next' \in [Topics -> Nat \ {0}] /\ resolved' \in [Topics -> Nat]
        /\ emitted' \in [Topics -> SUBSET Nat]
    BY <1>3 DEF Emit, Resolved, DashboardTypeOK
  <2> QED
    BY <1>3, <2>2, <2>3, <2>4, <2>5 DEF Emit, DashboardTypeOK
<1>4. ASSUME NEW t \in Topics, CommitOffset(t)
      PROVE  DashboardTypeOK'
  BY <1>4 DEF CommitOffset, DashboardTypeOK
<1>5. ASSUME NEW h \in Hubs, HubStops(h)
      PROVE  DashboardTypeOK'
  BY <1>5 DEF HubStops, DashboardTypeOK
<1>6. ASSUME NEW h \in Hubs, NEW connected \in BOOLEAN, HubStarts(h, connected)
      PROVE  DashboardTypeOK'
  BY <1>6 DEF HubStarts, DashboardTypeOK
<1>7. ASSUME NEW b \in Browsers, Disconnect(b) \/ \E h \in Hubs : Connect(b, h)
      PROVE  DashboardTypeOK'
  BY <1>7 DEF Disconnect, Connect, DashboardTypeOK
<1>8. ASSUME NEW b \in Browsers, Reload(b)
      PROVE  DashboardTypeOK'
  <2>1. <<>> \in Seq(Event) /\ Len(<<>>) = 0
    OBVIOUS
  <2> QED
    BY <1>8, <2>1 DEF Reload, DashboardTypeOK
<1>9. ASSUME NEW b \in Browsers, NEW from \in {"gateway", "fallback"}, Refetch(b, from)
      PROVE  DashboardTypeOK'
  BY <1>9 DEF Refetch, DashboardTypeOK
<1>10. CASE UNCHANGED dashboardVars
  BY <1>10 DEF dashboardVars, DashboardTypeOK
<1> QED
  BY <1>1, <1>2, <1>3, <1>4, <1>5, <1>6, <1>7, <1>8, <1>9, <1>10 DEF DashboardNext

\* Every variable keeps its type, and the buffers of a browser their bound.
THEOREM DashboardTypeCorrect == DashboardSpec => []DashboardTypeOK
<1>1. DashboardInit => DashboardTypeOK
  <2>1. <<>> \in Seq(Event) /\ <<>> \in Seq(Event \cup {Malformed}) /\ Len(<<>>) = 0
    OBVIOUS
  <2> QED
    BY <2>1 DEF DashboardInit, DashboardTypeOK
<1> QED
  BY <1>1, DashboardStep, PTL DEF DashboardSpec

\* What the offsets need: whatever is before the message a hub gets next was
\* emitted, and no more than that is resolved.
EmittedBehind ==
  \A t \in Topics :
    /\ \A i \in 1 .. next[t] - 1 : i \in emitted[t]
    /\ resolved[t] =< next[t]

\* No message of a group that has an offset is passed over.
THEOREM NothingPassedOver == DashboardSpec => []EmittedBeforeCommitted
<1> DEFINE Inv == EmittedBehind /\ EmittedBeforeCommitted
<1>1. DashboardInit => Inv
  BY DEF DashboardInit, EmittedBehind, EmittedBeforeCommitted
<1>2. ASSUME DashboardTypeOK, Inv, [DashboardNext]_dashboardVars
      PROVE  Inv'
  <2> USE <1>2 DEF EmittedBehind, EmittedBeforeCommitted, DashboardTypeOK
  <2>1. ASSUME NEW t \in Topics, NEW h \in Hubs, Rebalance(t, h)
        PROVE  Inv'
    <3> DEFINE start == IF offset[t] = 0 THEN Len(messages[t]) + 1 ELSE offset[t]
    <3>1. start \in Nat
      OBVIOUS
    <3>2. /\ next' = [next EXCEPT ![t] = start]
          /\ emitted' = [emitted EXCEPT ![t] = @ \cup 1 .. start - 1]
          /\ resolved' = [resolved EXCEPT ![t] = 0] /\ UNCHANGED offset
      BY <2>1 DEF Rebalance
    <3> HIDE DEF start
    <3> QED
      BY <3>1, <3>2
  <2>2. ASSUME NEW t \in Topics, Emit(t)
        PROVE  Inv'
    BY <2>2 DEF Emit, Resolved, kafka
  <2>3. ASSUME NEW t \in Topics, CommitOffset(t)
        PROVE  Inv'
    BY <2>3 DEF CommitOffset
  <2>4. CASE UNCHANGED <<offset, next, resolved, emitted>>
    BY <2>4
  <2>5. ASSUME NEW t \in Topics,
               \/ \E m \in Event \cup {Malformed} : Publish(t, m)
               \/ \E h \in Hubs : Rebalance(t, h)
               \/ Emit(t) \/ CommitOffset(t)
        PROVE  Inv'
    <3>1. (\E m \in Event \cup {Malformed} : Publish(t, m)) =>
            UNCHANGED <<offset, next, resolved, emitted>>
      BY DEF Publish, consuming
    <3> HIDE DEF Inv, EmittedBehind, EmittedBeforeCommitted, DashboardTypeOK
    <3> QED
      BY <2>1, <2>2, <2>3, <2>4, <2>5, <3>1
  <2>6. ASSUME \/ \E h \in Hubs : HubStops(h) \/ \E connected \in BOOLEAN : HubStarts(h, connected)
               \/ \E b \in Browsers :
                    \/ Disconnect(b) \/ Reload(b)
                    \/ \E h \in Hubs : Connect(b, h)
                    \/ \E from \in {"gateway", "fallback"} : Refetch(b, from)
               \/ UNCHANGED dashboardVars
        PROVE  Inv'
    <3>1. UNCHANGED <<offset, next, resolved, emitted>>
      BY <2>6 DEF HubStops, HubStarts, Disconnect, Reload, Connect, Refetch, dashboardVars,
                  kafka, consuming
    <3> QED
      BY <2>4, <3>1
  <2> HIDE DEF Inv, EmittedBehind, EmittedBeforeCommitted, DashboardTypeOK
  <2> QED
    BY <2>5, <2>6 DEF DashboardNext
<1>3. Inv => EmittedBeforeCommitted
  OBVIOUS
<1> QED
  BY <1>1, <1>2, <1>3, DashboardTypeCorrect, PTL DEF DashboardSpec

-----------------------------------------------------------------------------
(* The four parts together.                                                *)

\* What a step of the four together is to each of them.
LEMMA StepOfEach ==
  ASSUME [Next]_parts
  PROVE  /\ part' = part
         /\ [EdgeNext]_edgeVars /\ [DashboardNext]_dashboardVars
         /\ [UserNext]_userVars /\ [DataNext]_dataVars
<1>1. CASE Gateways_Next
  BY <1>1 DEF Gateways_Next
<1>2. CASE Dashboards_Next
  BY <1>2 DEF Dashboards_Next
<1>3. CASE Users_Next
  BY <1>3 DEF Users_Next
<1>4. CASE Data_Next
  BY <1>4 DEF Data_Next
<1>5. CASE UNCHANGED parts
  BY <1>5 DEF parts
<1> QED
  BY <1>1, <1>2, <1>3, <1>4, <1>5 DEF Next

\* The parts share no state: a behaviour of the platform is a behaviour of the
\* gateways, of the dashboards, of the user service and of the data service, so
\* whatever is proved of one of them holds of it within the whole.
THEOREM EachPartByItself == Spec => EdgeSpec /\ DashboardSpec /\ UserSpec /\ DataSpec
<1>1. Init => EdgeInit /\ DashboardInit /\ UserInit /\ DataInit
  BY DEF Init
<1>2. [Next]_parts => [EdgeNext]_edgeVars
  BY StepOfEach
<1>3. [Next]_parts => [DashboardNext]_dashboardVars
  BY StepOfEach
<1>4. [Next]_parts => [UserNext]_userVars
  BY StepOfEach
<1>5. [Next]_parts => [DataNext]_dataVars
  BY StepOfEach
<1> QED
  BY <1>1, <1>2, <1>3, <1>4, <1>5, PTL DEF Spec, EdgeSpec, DashboardSpec, UserSpec, DataSpec

\* Every variable of every part keeps its type.
THEOREM PlatformTypeCorrect == Spec => []PlatformTypeOK
<1>1. Init => part \in Parts
  BY DEF Init
<1>2. part \in Parts /\ [Next]_parts => (part \in Parts)'
  BY StepOfEach
<1>3. Spec => [](part \in Parts)
  BY <1>1, <1>2, PTL DEF Spec
<1>4. part \in Parts /\ EdgeTypeOK /\ DashboardTypeOK /\ UserTypeOK /\ DataTypeOK => PlatformTypeOK
  BY DEF PlatformTypeOK
<1> QED
  BY <1>3, <1>4, EachPartByItself, EdgeTypeCorrect, DashboardTypeCorrect, UserTypeCorrect,
     DataTypeCorrect, PTL

=============================================================================

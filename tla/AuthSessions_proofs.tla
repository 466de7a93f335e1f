------------------------ MODULE AuthSessions_proofs ------------------------
(***************************************************************************)
(* Proofs about the sessions of the auth service, for any number of        *)
(* replicas, restarts, users, tokens and concurrent requests.              *)
(***************************************************************************)
EXTENDS AuthSessions, SequenceTheorems, TLAPS

-----------------------------------------------------------------------------
(* The inductive invariant.                                                *)

\* What a request x carries at its step, and that its process runs.
Sound(x) ==
  /\ x.step = "idle" => x = NoRequest
  /\ x.step # "idle" => x.replica \in Replicas /\ up[x.replica]
  /\ x.step = "hashing" => x.email \in Emails
  /\ x.step \in {"hashing", "comparing", "saving"} => x.user # 0
  /\ x.step = "deleting" /\ x.kind = "refresh" => x.user # 0
  /\ x.step \in {"getting", "got", "deleting"} => x.token \in Tokens
  /\ x.user =< registered

\* A refresh of a token that its home had begun to revoke is not there.
Away(x) ==
  x.step \in {"getting", "got"} /\ x.late =>
    ~(issued[x.token].replica = x.replica /\ issued[x.token].boot = boots[x.replica])

RequestsSound == \A q \in Requests : Sound(request[q]) /\ Away(request[q])

\* A process that is down knows no user, and ids are those handed out.
UsersSound ==
  /\ \A r \in Replicas : ~up[r] => \A e \in Emails : users[r][e] = 0
  /\ \A r \in Replicas, e \in Emails : users[r][e] =< registered

\* A token was issued to a user, by a process that was started by then.
TokensSound ==
  \A t \in Tokens : issued[t].user \in 1 .. registered /\ issued[t].boot =< boots[issued[t].replica]

\* The process a token was issued by still runs.
HomeRuns(t) == LET r == issued[t].replica IN up[r] /\ boots[r] = issued[t].boot

\* What the home of a token has begun to revoke is on its blacklist, and what
\* is not in its memory any more was revoked by somebody.
RevokedAtHome ==
  \A t \in Tokens : HomeRuns(t) =>
    /\ issued[t].replica \in revoked[t] => t \in blacklist[issued[t].replica]
    /\ t \notin memory[issued[t].replica] => revoked[t] # {}

\* A user lives in one process, wherever his id turns up.
HomeIs(home) ==
  /\ \A r \in Replicas, e \in Emails :
       users[r][e] # 0 => home[users[r][e]] = <<r, boots[r]>>
  /\ \A q \in Requests :
       request[q].user # 0 => home[request[q].user] = <<request[q].replica, boots[request[q].replica]>>
  /\ \A t \in Tokens : home[issued[t].user] = <<issued[t].replica, issued[t].boot>>

OneHome == \E home \in [1 .. registered -> Replicas \X Nat] : HomeIs(home)

IInv ==
  /\ TypeOK
  /\ RequestsSound
  /\ UsersSound
  /\ TokensSound
  /\ RevokedAtHome
  /\ OneHome

-----------------------------------------------------------------------------
(* Steps that change one request and at most what is stored of tokens.     *)

LEMMA RequestStep ==
  ASSUME IInv, NEW q \in Requests, NEW new \in Request, Sound(new), Away(new),
         request' = [request EXCEPT ![q] = new],
         sessions' \subseteq Tokens,
         memory' \in [Replicas -> SUBSET Tokens], blacklist' \in [Replicas -> SUBSET Tokens],
         revoked' \in Seq(SUBSET Replicas), Len(revoked') = Len(revoked),
         UNCHANGED <<up, boots, users, registered, issued>>,
         RevokedAtHome',
         \A home : HomeIs(home) /\ new.user # 0 =>
                     home[new.user] = <<new.replica, boots[new.replica]>>
  PROVE  IInv'
<1>1. /\ request' \in [Requests -> Request]
      /\ request'[q] = new
      /\ \A k \in Requests : k # q => request'[k] = request[k]
  BY DEF IInv, TypeOK
<1>2. TypeOK'
  BY <1>1 DEF IInv, TypeOK, Tokens
<1>3. RequestsSound'
  BY <1>1 DEF IInv, RequestsSound, Sound, Away, Tokens
<1>4. UsersSound' /\ TokensSound'
  BY DEF IInv, UsersSound, TokensSound, Tokens
<1>5. OneHome'
  <2>1. PICK home \in [1 .. registered -> Replicas \X Nat] : HomeIs(home)
    BY DEF IInv, OneHome
  <2>2. HomeIs(home)'
    BY <1>1, <2>1 DEF HomeIs, Tokens
  <2> QED
    BY <2>1, <2>2 DEF OneHome
<1> QED
  BY <1>2, <1>3, <1>4, <1>5 DEF IInv

\* One request changes and, it may be, Redis.
LEMMA OneRequest ==
  ASSUME IInv, NEW q \in Requests, NEW new \in Request, Sound(new), Away(new),
         request' = [request EXCEPT ![q] = new],
         sessions' \subseteq Tokens,
         UNCHANGED <<up, boots, users, memory, blacklist, registered, issued, revoked>>,
         \A home : HomeIs(home) /\ new.user # 0 =>
                     home[new.user] = <<new.replica, boots[new.replica]>>
  PROVE  IInv'
<1>1. RevokedAtHome'
  BY DEF IInv, RevokedAtHome, HomeRuns, Tokens
<1>2. /\ memory' \in [Replicas -> SUBSET Tokens] /\ blacklist' \in [Replicas -> SUBSET Tokens]
      /\ revoked' \in Seq(SUBSET Replicas) /\ Len(revoked') = Len(revoked)
  BY DEF IInv, TypeOK
<1> QED
  BY <1>1, <1>2, RequestStep

\* A request as it is but for its step, its user and its answer.
Same(new, x) ==
  /\ new.kind = x.kind /\ new.replica = x.replica /\ new.email = x.email
  /\ new.token = x.token /\ new.late = x.late

LEMMA NoRequestSound ==
  ASSUME TypeOK
  PROVE  NoRequest \in Request /\ Sound(NoRequest) /\ Away(NoRequest) /\ NoRequest.user = 0
BY DEF NoRequest, Request, Sound, Away, TypeOK

\* A request that ends changes nothing else but Redis.
LEMMA AnsweredKeeps ==
  ASSUME IInv, NEW q \in Requests, Answered(q), sessions' \subseteq Tokens,
         UNCHANGED <<up, boots, users, memory, blacklist, registered, issued, revoked>>
  PROVE  IInv'
BY NoRequestSound, OneRequest DEF Answered, IInv

\* A request that goes on with a user it has.
LEMMA GoesKeeps ==
  ASSUME IInv, NEW q \in Requests, NEW new \in Request, Same(new, request[q]),
         new.user = request[q].user,
         request[q].step # "idle",
         \/ new.step = "saving" /\ new.user # 0
         \/ new.step = "got" /\ request[q].step = "getting",
         request' = [request EXCEPT ![q] = new], sessions' \subseteq Tokens,
         UNCHANGED <<up, boots, users, memory, blacklist, registered, issued, revoked>>
  PROVE  IInv'
<1>1. Sound(new) /\ Away(new)
  BY DEF IInv, RequestsSound, Sound, Away, Same
<1>2. ASSUME NEW home, HomeIs(home), new.user # 0
      PROVE  home[new.user] = <<new.replica, boots[new.replica]>>
  BY <1>2 DEF HomeIs, Same
<1> QED
  BY <1>1, <1>2, OneRequest

LEMMA ComparedKeeps ==
  ASSUME IInv, NEW q \in Requests, Compared(q)
  PROVE  IInv'
<1>1. CASE Answered(q)
  BY <1>1, AnsweredKeeps DEF Compared, IInv, TypeOK
<1>2. CASE Goes(q, "saving")
  <2> DEFINE new == [request[q] EXCEPT !.step = "saving"]
  <2>1. request[q] \in Request /\ request[q].step = "comparing" /\ request[q].user # 0
    BY DEF Compared, At, IInv, TypeOK, RequestsSound, Sound
  <2>2. new \in Request /\ Same(new, request[q]) /\ new.step = "saving" /\ new.user = request[q].user
    BY <2>1 DEF Request, Same
  <2>3. request' = [request EXCEPT ![q] = new]
    BY <1>2 DEF Goes
  <2> HIDE DEF new
  <2> QED
    BY <2>1, <2>2, <2>3, GoesKeeps DEF Compared, IInv, TypeOK
<1> QED
  BY <1>1, <1>2 DEF Compared

LEMMA RedisGetsKeeps ==
  ASSUME IInv, NEW q \in Requests, RedisGets(q)
  PROVE  IInv'
<1> DEFINE f == request[q].token \in sessions
<1> DEFINE new == [request[q] EXCEPT !.step = "got", !.found = f]
<1>1. request[q] \in Request /\ request[q].step = "getting" /\ f \in BOOLEAN
  BY DEF RedisGets, At, IInv, TypeOK
<1>2. request' = [request EXCEPT ![q] = new]
  BY DEF RedisGets
<1> HIDE DEF f
<1>3. new \in Request /\ Same(new, request[q]) /\ new.step = "got" /\ new.user = request[q].user
  BY <1>1 DEF Request, Same
<1> HIDE DEF new
<1> QED
  BY <1>1, <1>2, <1>3, GoesKeeps DEF RedisGets, IInv, TypeOK

LEMMA RedisDeletesKeeps ==
  ASSUME IInv, NEW q \in Requests, RedisDeletes(q)
  PROVE  IInv'
<1>1. sessions' \subseteq Tokens
  BY DEF RedisDeletes, IInv, TypeOK
<1>2. CASE request[q].kind # "refresh"
  BY <1>1, <1>2, AnsweredKeeps DEF RedisDeletes
<1>3. CASE request[q].kind = "refresh"
  <2> DEFINE new == [request[q] EXCEPT !.step = "saving"]
  <2>1. request[q] \in Request /\ request[q].step = "deleting" /\ request[q].user # 0
    BY <1>3 DEF RedisDeletes, At, IInv, TypeOK, RequestsSound, Sound
  <2>2. new \in Request /\ Same(new, request[q]) /\ new.step = "saving" /\ new.user = request[q].user
    BY <2>1 DEF Request, Same
  <2>3. request' = [request EXCEPT ![q] = new]
    BY <1>3 DEF RedisDeletes, Goes
  <2> HIDE DEF new
  <2> QED
    BY <1>1, <2>1, <2>2, <2>3, GoesKeeps DEF RedisDeletes
<1> QED
  BY <1>2, <1>3

LEMMA LoginKeeps ==
  ASSUME IInv, NEW q \in Requests, NEW r \in Replicas, NEW e \in Emails, Login(q, r, e)
  PROVE  IInv'
<1> DEFINE new == [NoRequest EXCEPT !.kind = "login", !.replica = r, !.step = "comparing",
                                    !.email = e, !.user = users[r][e]]
<1>1. users[r][e] \in Nat /\ users[r][e] # 0 /\ users[r][e] =< registered /\ up[r]
  BY DEF Login, IInv, TypeOK, UsersSound
<1>2. /\ new \in Request /\ new.replica = r /\ new.step = "comparing" /\ new.user = users[r][e]
      /\ new.late = FALSE
  BY <1>1 DEF NoRequest, Request
<1>3. request' = [request EXCEPT ![q] = new]
  BY DEF Login, Starts
<1> HIDE DEF new
<1>4. Sound(new) /\ Away(new)
  BY <1>1, <1>2 DEF Sound, Away
<1>5. ASSUME NEW home, HomeIs(home), new.user # 0
      PROVE  home[new.user] = <<new.replica, boots[new.replica]>>
  BY <1>1, <1>2, <1>5 DEF HomeIs
<1> QED
  BY <1>2, <1>3, <1>4, <1>5, OneRequest DEF Login, IInv, TypeOK

LEMMA RefreshKeeps ==
  ASSUME IInv, NEW q \in Requests, NEW r \in Replicas, NEW t \in Tokens, Refresh(q, r, t)
  PROVE  IInv'
<1> DEFINE l == issued[t].replica \in revoked[t]
<1> DEFINE new == [NoRequest EXCEPT !.kind = "refresh", !.replica = r, !.step = "getting",
                                    !.token = t, !.late = l]
<1>1. l \in BOOLEAN /\ up[r] /\ t \notin blacklist[r] /\ t \in Nat /\ registered \in Nat
  BY DEF Refresh, IInv, TypeOK, Tokens
<1>2. request' = [request EXCEPT ![q] = new]
  BY DEF Refresh, Starts
<1>3. l => ~(issued[t].replica = r /\ issued[t].boot = boots[r])
  BY <1>1 DEF IInv, RevokedAtHome, HomeRuns
<1> HIDE DEF l
<1>4. /\ new \in Request /\ new.replica = r /\ new.step = "getting" /\ new.user = 0
      /\ new.token = t /\ new.late = l
  BY <1>1 DEF NoRequest, Request
<1> HIDE DEF new
<1>5. Sound(new) /\ Away(new)
  BY <1>1, <1>3, <1>4 DEF Sound, Away
<1> QED
  BY <1>2, <1>4, <1>5, OneRequest DEF Refresh, IInv, TypeOK

LEMMA RefuseKeeps ==
  ASSUME IInv, NEW q \in Requests, Refuse(q)
  PROVE  IInv'
BY AnsweredKeeps DEF Refuse, IInv, TypeOK

LEMMA ExpireKeeps ==
  ASSUME IInv, NEW t \in sessions, Expire(t)
  PROVE  IInv'
<1>1. TypeOK'
  BY DEF Expire, IInv, TypeOK, Tokens
<1>2. RequestsSound' /\ UsersSound' /\ TokensSound' /\ RevokedAtHome'
  BY DEF Expire, IInv, RequestsSound, Sound, Away, UsersSound, TokensSound, RevokedAtHome,
         HomeRuns, Tokens
<1>3. OneHome'
  BY DEF Expire, IInv, OneHome, HomeIs, Tokens
<1> QED
  BY <1>1, <1>2, <1>3 DEF IInv

-----------------------------------------------------------------------------
(* Steps that change users.                                                *)

LEMMA RegisterKeeps ==
  ASSUME IInv, NEW q \in Requests, NEW r \in Replicas, NEW e \in Emails, Register(q, r, e)
  PROVE  IInv'
<1> DEFINE id == registered + 1
<1>1. /\ id \in Nat /\ id # 0 /\ registered \in Nat /\ registered' = id
      /\ \A n \in Nat : n =< registered => n =< id /\ n # id
      /\ 1 .. registered \subseteq 1 .. id
      /\ \A n \in 1 .. id : n # id => n \in 1 .. registered
      /\ id \in 1 .. id
  BY DEF Register, IInv, TypeOK
<1>0. up[r]
  BY DEF Register
<1> HIDE DEF id
<1>3. PICK new \in Request :
        /\ request' = [request EXCEPT ![q] = new]
        /\ new.replica = r /\ new.step = "hashing" /\ new.user = id
        /\ new.email = e /\ new.late = FALSE
  <2> DEFINE w == [NoRequest EXCEPT !.kind = "register", !.replica = r, !.step = "hashing",
                                    !.email = e, !.user = id]
  <2>1. request' = [request EXCEPT ![q] = w]
    BY DEF Register, Starts, id
  <2>2. /\ w \in Request /\ w.replica = r /\ w.step = "hashing" /\ w.user = id
        /\ w.email = e /\ w.late = FALSE
    BY <1>1 DEF NoRequest, Request
  <2> HIDE DEF w
  <2> QED
    BY <2>1, <2>2
<1>4. /\ request' \in [Requests -> Request]
      /\ request'[q] = new
      /\ \A k \in Requests : k # q => request'[k] = request[k]
  BY <1>3 DEF IInv, TypeOK
<1>5. TypeOK'
  BY <1>1, <1>4 DEF Register, IInv, TypeOK, Tokens
<1>6. RequestsSound'
  <2>1. Sound(new)'
    BY <1>0, <1>1, <1>3 DEF Sound, Register
  <2>2. ASSUME NEW k \in Requests, k # q
        PROVE  Sound(request[k])'
    <3>1. Sound(request[k]) /\ request[k].user \in Nat
      BY DEF IInv, RequestsSound, TypeOK, Request
    <3> QED
      BY <1>1, <1>4, <2>2, <3>1 DEF Sound, Register, Tokens
  <2>3. \A k \in Requests : Away(request[k])'
    BY <1>3, <1>4 DEF IInv, RequestsSound, Away, Register
  <2> QED
    BY <1>4, <2>1, <2>2, <2>3 DEF RequestsSound
<1>7. UsersSound'
  BY <1>1 DEF Register, IInv, UsersSound, TypeOK
<1>8. TokensSound'
  BY <1>1 DEF Register, IInv, TokensSound, Tokens
<1>9. RevokedAtHome'
  BY DEF Register, IInv, RevokedAtHome, HomeRuns, Tokens
<1>10. OneHome'
  <2>1. PICK home \in [1 .. registered -> Replicas \X Nat] : HomeIs(home)
    BY DEF IInv, OneHome
  <2>3. PICK home2 \in [1 .. id -> Replicas \X Nat] :
          home2[id] = <<r, boots[r]>> /\ \A n \in 1 .. registered : home2[n] = home[n]
    <3> DEFINE w == [n \in 1 .. id |-> IF n = id THEN <<r, boots[r]>> ELSE home[n]]
    <3>1. w \in [1 .. id -> Replicas \X Nat]
      BY <1>1, <2>1 DEF IInv, TypeOK
    <3>2. w[id] = <<r, boots[r]>> /\ \A n \in 1 .. registered : w[n] = home[n]
      BY <1>1
    <3> HIDE DEF w
    <3> QED
      BY <3>1, <3>2
  <2>4. ASSUME NEW p \in Replicas, NEW k \in Emails, users[p][k] # 0
        PROVE  home2[users[p][k]] = <<p, boots[p]>>
    <3>1. users[p][k] \in 1 .. registered
      BY <2>4 DEF IInv, TypeOK, UsersSound
    <3> QED
      BY <2>1, <2>3, <2>4, <3>1 DEF HomeIs
  <2>5. ASSUME NEW k \in Requests, k # q, request[k].user # 0
        PROVE  home2[request[k].user] = <<request[k].replica, boots[request[k].replica]>>
    <3>1. request[k].user \in 1 .. registered
      BY <2>5 DEF IInv, TypeOK, RequestsSound, Sound, Request
    <3> QED
      BY <2>1, <2>3, <2>5, <3>1 DEF HomeIs
  <2>6. ASSUME NEW t \in Tokens
        PROVE  home2[issued[t].user] = <<issued[t].replica, issued[t].boot>>
    BY <2>1, <2>3 DEF HomeIs, IInv, TokensSound
  <2>7. HomeIs(home2)'
    BY <1>3, <1>4, <2>3, <2>4, <2>5, <2>6 DEF HomeIs, Register, Tokens
  <2> QED
    BY <1>1, <2>3, <2>7 DEF OneHome, Register
<1> QED
  BY <1>5, <1>6, <1>7, <1>8, <1>9, <1>10 DEF IInv

LEMMA HashedKeeps ==
  ASSUME IInv, NEW q \in Requests, Hashed(q)
  PROVE  IInv'
<1>1. PICK x \in Request :
        /\ x = request[q] /\ Sound(x) /\ Away(x) /\ x.step = "hashing"
        /\ x.user \in Nat /\ x.user # 0 /\ x.user =< registered
        /\ x.replica \in Replicas /\ up[x.replica] /\ x.email \in Emails
  BY DEF Hashed, At, IInv, TypeOK, RequestsSound, Sound, Request
<1>2. PICK new \in Request :
        /\ request' = [request EXCEPT ![q] = new]
        /\ Same(new, x) /\ new.step = "saving" /\ new.user = x.user
  <2> DEFINE w == [x EXCEPT !.step = "saving"]
  <2>1. request' = [request EXCEPT ![q] = w]
    BY <1>1 DEF Hashed, Goes
  <2>2. w \in Request /\ Same(w, x) /\ w.step = "saving" /\ w.user = x.user
    BY <1>1 DEF Request, Same
  <2> HIDE DEF w
  <2> QED
    BY <2>1, <2>2
<1>3. users' = [users EXCEPT ![x.replica][x.email] = x.user]
  BY <1>1 DEF Hashed
<1>5. /\ request' \in [Requests -> Request]
      /\ request'[q] = new
      /\ \A k \in Requests : k # q => request'[k] = request[k]
  BY <1>2 DEF IInv, TypeOK
<1>6. /\ users' \in [Replicas -> [Emails -> Nat]]
      /\ \A p \in Replicas, k \in Emails :
           users'[p][k] = users[p][k] \/ (p = x.replica /\ users'[p][k] = x.user)
  <2>1. users \in [Replicas -> [Emails -> Nat]] /\ users[x.replica] \in [Emails -> Nat]
    BY <1>1 DEF IInv, TypeOK
  <2> DEFINE row == [users[x.replica] EXCEPT ![x.email] = x.user]
  <2>2. row \in [Emails -> Nat] /\ \A k \in Emails : row[k] = users[x.replica][k] \/ row[k] = x.user
    BY <1>1, <2>1
  <2>3. users' = [users EXCEPT ![x.replica] = row]
    BY <1>3
  <2> HIDE DEF row
  <2> QED
    BY <1>1, <2>1, <2>2, <2>3
<1>7. TypeOK'
  BY <1>5, <1>6 DEF Hashed, IInv, TypeOK, Tokens
<1>8. RequestsSound'
  <2>1. Sound(new) /\ Away(new)
    BY <1>1, <1>2 DEF Sound, Away, Same
  <2> QED
    BY <1>2, <1>5, <2>1 DEF Hashed, IInv, RequestsSound, Sound, Away, Tokens
<1>9. UsersSound'
  BY <1>1, <1>6 DEF Hashed, IInv, UsersSound
<1>10. TokensSound' /\ RevokedAtHome'
  BY DEF Hashed, IInv, TokensSound, RevokedAtHome, HomeRuns, Tokens
<1>11. OneHome'
  <2>1. PICK home \in [1 .. registered -> Replicas \X Nat] : HomeIs(home)
    BY DEF IInv, OneHome
  <2>2. home[x.user] = <<x.replica, boots[x.replica]>>
    BY <1>1, <2>1 DEF HomeIs
  <2>3. HomeIs(home)'
    <3>1. \A p \in Replicas, k \in Emails :
            users'[p][k] # 0 => home[users'[p][k]] = <<p, boots[p]>>
      <4>1. SUFFICES ASSUME NEW p \in Replicas, NEW k \in Emails, users'[p][k] # 0
                     PROVE  home[users'[p][k]] = <<p, boots[p]>>
        OBVIOUS
      <4>2. CASE users'[p][k] = users[p][k]
        BY <2>1, <4>1, <4>2 DEF HomeIs
      <4>3. CASE p = x.replica /\ users'[p][k] = x.user
        BY <2>2, <4>3
      <4> QED
        BY <1>6, <4>2, <4>3
    <3>2. \A k \in Requests :
            request'[k].user # 0 =>
              home[request'[k].user] = <<request'[k].replica, boots[request'[k].replica]>>
      BY <1>2, <1>5, <2>1, <2>2 DEF HomeIs, Same
    <3> QED
      BY <2>1, <3>1, <3>2 DEF Hashed, HomeIs, Tokens
  <2> QED
    BY <2>1, <2>3 DEF OneHome, Hashed
<1> QED
  BY <1>7, <1>8, <1>9, <1>10, <1>11 DEF IInv

-----------------------------------------------------------------------------
(* Steps that revoke or issue a token.                                     *)

LEMMA TokenFacts ==
  ASSUME IInv, NEW t \in Tokens
  PROVE  /\ issued[t].replica \in Replicas /\ issued[t].boot \in Nat
         /\ issued[t].user \in Nat /\ issued[t].user # 0 /\ issued[t].user =< registered
         /\ issued[t].boot =< boots[issued[t].replica]
<1>1. issued[t] \in Token
  <2>1. issued \in Seq(Token) /\ t \in 1 .. Len(issued)
    BY DEF IInv, TypeOK, Tokens
  <2> QED
    BY <2>1
<1>2. issued[t].user \in 1 .. registered /\ issued[t].boot =< boots[issued[t].replica]
  BY DEF IInv, TokensSound
<1>3. registered \in Nat
  BY DEF IInv, TypeOK
<1> QED
  BY <1>1, <1>2, <1>3 DEF Token

LEMMA RevokeKeeps ==
  ASSUME IInv, NEW q \in Requests, NEW new \in Request, Sound(new), Away(new),
         NEW r \in Replicas, NEW t \in Tokens, Revoke(r, t),
         request' = [request EXCEPT ![q] = new],
         UNCHANGED <<up, boots, users, sessions, registered, issued>>,
         \A home : HomeIs(home) /\ new.user # 0 =>
                     home[new.user] = <<new.replica, boots[new.replica]>>
  PROVE  IInv'
<1>1. /\ revoked \in Seq(SUBSET Replicas) /\ t \in 1 .. Len(revoked)
      /\ Tokens = 1 .. Len(revoked) /\ sessions' \subseteq Tokens /\ Tokens' = Tokens
  BY DEF IInv, TypeOK, Tokens
<1>2. revoked[t] \cup {r} \in SUBSET Replicas
  BY <1>1
<1>3. /\ revoked' \in Seq(SUBSET Replicas) /\ Len(revoked') = Len(revoked)
      /\ \A k \in 1 .. Len(revoked) : revoked'[k] = IF k = t THEN revoked[t] \cup {r} ELSE revoked[k]
  BY <1>1, <1>2, ExceptSeq DEF Revoke
<1>4. /\ memory' \in [Replicas -> SUBSET Tokens] /\ blacklist' \in [Replicas -> SUBSET Tokens]
      /\ memory'[r] = memory[r] \ {t} /\ blacklist'[r] = blacklist[r] \cup {t}
      /\ \A p \in Replicas : p # r => memory'[p] = memory[p] /\ blacklist'[p] = blacklist[p]
  BY DEF Revoke, IInv, TypeOK
<1>5. RevokedAtHome'
  <2>1. SUFFICES ASSUME NEW k \in Tokens, HomeRuns(k)
                 PROVE  /\ issued[k].replica \in revoked'[k] => k \in blacklist'[issued[k].replica]
                        /\ k \notin memory'[issued[k].replica] => revoked'[k] # {}
    BY <1>1 DEF RevokedAtHome, HomeRuns
  <2>2. issued[k].replica \in Replicas
    BY TokenFacts
  <2>3. /\ issued[k].replica \in revoked[k] => k \in blacklist[issued[k].replica]
        /\ k \notin memory[issued[k].replica] => revoked[k] # {}
    BY <2>1 DEF IInv, RevokedAtHome
  <2>4. CASE k = t
    BY <1>1, <1>3, <1>4, <2>2, <2>3, <2>4
  <2>5. CASE k # t
    BY <1>1, <1>3, <1>4, <2>2, <2>3, <2>5
  <2> QED
    BY <2>4, <2>5
<1> QED
  BY <1>1, <1>3, <1>4, <1>5, RequestStep

\* A token is accepted where its user lives.
LEMMA AcceptedHome ==
  ASSUME IInv, NEW q \in Requests, request[q].step = "got", HasUser(q)
  PROVE  AtHome(q)
<1>1. PICK e \in Emails : users[request[q].replica][e] = issued[request[q].token].user
  BY DEF HasUser
<1>2. PICK home \in [1 .. registered -> Replicas \X Nat] : HomeIs(home)
  BY DEF IInv, OneHome
<1>3. request[q].replica \in Replicas /\ request[q].token \in Tokens
  BY DEF IInv, RequestsSound, Sound
<1>4. issued[request[q].token].user # 0
  BY <1>3 DEF IInv, TokensSound
<1>5. <<request[q].replica, boots[request[q].replica]>>
        = <<issued[request[q].token].replica, issued[request[q].token].boot>>
  BY <1>1, <1>2, <1>3, <1>4 DEF HomeIs
<1> QED
  BY <1>5 DEF AtHome

LEMMA AcceptKeeps ==
  ASSUME IInv, NEW q \in Requests, Accept(q)
  PROVE  IInv'
<1>1. PICK x \in Request :
        /\ x = request[q] /\ Sound(x) /\ x.step = "got"
        /\ x.replica \in Replicas /\ up[x.replica] /\ x.token \in Tokens
  BY DEF Accept, At, IInv, TypeOK, RequestsSound, Sound
<1>2. PICK u \in Nat : u = issued[x.token].user /\ u # 0 /\ u =< registered
  BY <1>1, TokenFacts
<1>3. PICK new \in Request :
        /\ request' = [request EXCEPT ![q] = new]
        /\ Same(new, x) /\ new.step = "deleting" /\ new.user = u
  <2> DEFINE w == [x EXCEPT !.step = "deleting", !.user = u]
  <2>1. request' = [request EXCEPT ![q] = w]
    BY <1>1, <1>2 DEF Accept
  <2>2. w \in Request /\ Same(w, x) /\ w.step = "deleting" /\ w.user = u
    BY <1>1 DEF Request, Same
  <2> HIDE DEF w
  <2> QED
    BY <2>1, <2>2
<1>4. Sound(new) /\ Away(new)
  BY <1>1, <1>2, <1>3 DEF Sound, Away, Same
<1>5. ASSUME NEW home, HomeIs(home), new.user # 0
      PROVE  home[new.user] = <<new.replica, boots[new.replica]>>
  <2>1. home[u] = <<issued[x.token].replica, issued[x.token].boot>>
    BY <1>1, <1>2, <1>5 DEF HomeIs
  <2>2. AtHome(q)
    BY <1>1, AcceptedHome DEF Accept
  <2> QED
    BY <1>1, <1>3, <2>1, <2>2 DEF AtHome, Same
<1> QED
  BY <1>1, <1>3, <1>4, <1>5, RevokeKeeps DEF Accept

LEMMA LogoutKeeps ==
  ASSUME IInv, NEW q \in Requests, NEW r \in Replicas, NEW t \in Tokens, Logout(q, r, t)
  PROVE  IInv'
<1>1. up[r] /\ t \in Nat /\ registered \in Nat
  BY DEF Logout, IInv, TypeOK, Tokens
<1>2. PICK new \in Request :
        /\ request' = [request EXCEPT ![q] = new]
        /\ new.kind = "logout" /\ new.replica = r /\ new.step = "deleting" /\ new.token = t
        /\ new.user = 0
  <2> DEFINE w == [NoRequest EXCEPT !.kind = "logout", !.replica = r, !.step = "deleting",
                                    !.token = t]
  <2>1. request' = [request EXCEPT ![q] = w]
    BY DEF Logout, Starts
  <2>2. /\ w \in Request /\ w.kind = "logout" /\ w.replica = r /\ w.step = "deleting"
        /\ w.token = t /\ w.user = 0
    BY <1>1 DEF NoRequest, Request
  <2> HIDE DEF w
  <2> QED
    BY <2>1, <2>2
<1>3. Sound(new) /\ Away(new)
  BY <1>1, <1>2 DEF Sound, Away
<1> QED
  BY <1>2, <1>3, RevokeKeeps DEF Logout

LEMMA SaveKeeps ==
  ASSUME IInv, NEW q \in Requests, Save(q)
  PROVE  IInv'
<1>1. PICK x \in Request :
        /\ x = request[q] /\ Sound(x) /\ x.user \in Nat /\ x.user # 0 /\ x.user =< registered
        /\ x.token \in Nat /\ x.replica \in Replicas /\ up[x.replica]
  BY DEF Save, At, IInv, TypeOK, RequestsSound, Sound, Request
<1>2. PICK k \in Token :
        /\ issued' = Append(issued, k)
        /\ k.user = x.user /\ k.replica = x.replica /\ k.boot = boots[x.replica]
  <2> DEFINE w == [user |-> x.user, replica |-> x.replica, boot |-> boots[x.replica],
                   from |-> x.token]
  <2>1. w \in Token
    BY <1>1 DEF Token, IInv, TypeOK
  <2> QED
    BY <1>1, <2>1 DEF Save
<1>3. PICK t \in Nat : t = Len(issued) + 1 /\ t \notin Tokens
  BY DEF IInv, TypeOK, Tokens
<1>4. /\ issued' \in Seq(Token) /\ Len(issued') = t /\ issued'[t] = k
      /\ \A j \in Tokens : issued'[j] = issued[j]
  BY <1>2, <1>3, AppendProperties DEF IInv, TypeOK, Tokens
<1>5. Tokens' = Tokens \cup {t}
  BY <1>3, <1>4 DEF Tokens, IInv, TypeOK
<1>6. /\ revoked' \in Seq(SUBSET Replicas) /\ Len(revoked') = t /\ revoked'[t] = {}
      /\ \A j \in Tokens : revoked'[j] = revoked[j]
  <2>1. revoked' = Append(revoked, {}) /\ {} \in SUBSET Replicas
    BY DEF Save
  <2> QED
    BY <1>3, <2>1, AppendProperties DEF IInv, TypeOK, Tokens
<1>7. /\ sessions' = sessions \cup {t}
      /\ memory' = [memory EXCEPT ![x.replica] = @ \cup {t}]
      /\ UNCHANGED <<up, boots, users, blacklist, registered>>
  BY <1>1, <1>3 DEF Save, NewToken
<1>8. /\ memory' \in [Replicas -> SUBSET Tokens']
      /\ memory'[x.replica] = memory[x.replica] \cup {t}
      /\ \A p \in Replicas : p # x.replica => memory'[p] = memory[p]
  BY <1>1, <1>5, <1>7 DEF IInv, TypeOK
<1>9. /\ request' \in [Requests -> Request]
      /\ request'[q] = NoRequest
      /\ \A j \in Requests : j # q => request'[j] = request[j]
  BY NoRequestSound DEF Save, Answered, IInv, TypeOK
<1>10. TypeOK'
  BY <1>4, <1>5, <1>6, <1>7, <1>8, <1>9 DEF IInv, TypeOK
<1>11. RequestsSound'
  <2>1. Sound(request[q])' /\ Away(request[q])'
    BY <1>7, <1>9 DEF Sound, Away, NoRequest, IInv, TypeOK
  <2>2. ASSUME NEW j \in Requests, j # q
        PROVE  Sound(request[j])' /\ Away(request[j])'
    <3>1. Sound(request[j]) /\ Away(request[j])
      BY DEF IInv, RequestsSound
    <3>2. request[j].step \in {"getting", "got"} =>
            issued'[request[j].token] = issued[request[j].token]
      BY <1>4, <3>1 DEF Sound
    <3> QED
      BY <1>5, <1>7, <1>9, <2>2, <3>1, <3>2 DEF Sound, Away
  <2> QED
    BY <2>1, <2>2 DEF RequestsSound
<1>12. UsersSound'
  BY <1>7 DEF IInv, UsersSound
<1>13. TokensSound'
  <2>1. SUFFICES ASSUME NEW j \in Tokens'
                 PROVE  /\ issued'[j].user \in 1 .. registered
                        /\ issued'[j].boot =< boots[issued'[j].replica]
    BY <1>7 DEF TokensSound
  <2>2. CASE j = t
    <3>1. boots[x.replica] \in Nat /\ registered \in Nat
      BY <1>1 DEF IInv, TypeOK
    <3> QED
      BY <1>1, <1>2, <1>4, <2>2, <3>1
  <2>3. CASE j \in Tokens
    BY <1>4, <2>3 DEF IInv, TokensSound
  <2> QED
    BY <1>5, <2>1, <2>2, <2>3
<1>14. RevokedAtHome'
  <2>1. SUFFICES ASSUME NEW j \in Tokens', HomeRuns(j)'
                 PROVE  /\ issued'[j].replica \in revoked'[j] => j \in blacklist[issued'[j].replica]
                        /\ j \notin memory'[issued'[j].replica] => revoked'[j] # {}
    BY <1>7 DEF RevokedAtHome
  <2>2. CASE j = t
    BY <1>1, <1>2, <1>4, <1>6, <1>8, <2>2
  <2>3. CASE j \in Tokens
    <3>1. issued'[j] = issued[j] /\ revoked'[j] = revoked[j] /\ issued[j].replica \in Replicas
      BY <1>4, <1>6, <2>3, TokenFacts
    <3>2. HomeRuns(j)
      BY <1>7, <2>1, <3>1 DEF HomeRuns
    <3>3. /\ issued[j].replica \in revoked[j] => j \in blacklist[issued[j].replica]
          /\ j \notin memory[issued[j].replica] => revoked[j] # {}
      BY <2>3, <3>2 DEF IInv, RevokedAtHome
    <3> QED
      BY <1>8, <3>1, <3>3
  <2> QED
    BY <1>5, <2>1, <2>2, <2>3
<1>15. OneHome'
  <2>1. PICK home \in [1 .. registered -> Replicas \X Nat] : HomeIs(home)
    BY DEF IInv, OneHome
  <2>2. home[x.user] = <<x.replica, boots[x.replica]>>
    BY <1>1, <2>1 DEF HomeIs
  <2>3. \A j \in Tokens' : home[issued'[j].user] = <<issued'[j].replica, issued'[j].boot>>
    <3>1. ASSUME NEW j \in Tokens
          PROVE  home[issued'[j].user] = <<issued'[j].replica, issued'[j].boot>>
      BY <1>4, <2>1, <3>1 DEF HomeIs
    <3>2. home[issued'[t].user] = <<issued'[t].replica, issued'[t].boot>>
      BY <1>2, <1>4, <2>2
    <3> QED
      BY <1>5, <3>1, <3>2
  <2>4. ASSUME NEW j \in Requests, request'[j].user # 0
        PROVE  home[request'[j].user] = <<request'[j].replica, boots[request'[j].replica]>>
    <3>1. j # q /\ request'[j] = request[j]
      BY <1>9, <2>4 DEF NoRequest
    <3> QED
      BY <2>1, <2>4, <3>1 DEF HomeIs
  <2>5. HomeIs(home)'
    BY <1>7, <2>1, <2>3, <2>4 DEF HomeIs
  <2> QED
    BY <1>7, <2>1, <2>5 DEF OneHome
<1> QED
  BY <1>10, <1>11, <1>12, <1>13, <1>14, <1>15 DEF IInv

-----------------------------------------------------------------------------
(* Processes start and end.                                                *)

LEMMA BootKeeps ==
  ASSUME IInv, NEW r \in Replicas, Boot(r)
  PROVE  IInv'
<1>1. /\ ~up[r] /\ up'[r] /\ boots'[r] = boots[r] + 1 /\ boots[r] \in Nat
      /\ up' \in [Replicas -> BOOLEAN] /\ boots' \in [Replicas -> Nat]
      /\ \A p \in Replicas : p # r => up'[p] = up[p] /\ boots'[p] = boots[p]
      /\ UNCHANGED <<users, memory, blacklist, sessions, request, registered, issued, revoked>>
  BY DEF Boot, IInv, TypeOK
<1>2. TypeOK'
  BY <1>1 DEF IInv, TypeOK, Tokens
<1>3. RequestsSound'
  <2>1. SUFFICES ASSUME NEW q \in Requests
                 PROVE  Sound(request[q])' /\ Away(request[q])'
    BY DEF RequestsSound
  <2>2. Sound(request[q]) /\ Away(request[q]) /\ (request[q].step # "idle" => request[q].replica # r)
    BY <1>1 DEF IInv, RequestsSound, Sound
  <2> QED
    BY <1>1, <2>2 DEF Sound, Away, Tokens
<1>4. UsersSound'
  BY <1>1 DEF IInv, UsersSound
<1>5. TokensSound'
  <2>1. SUFFICES ASSUME NEW t \in Tokens
                 PROVE  issued[t].boot =< boots'[issued[t].replica]
    BY <1>1 DEF IInv, TokensSound, Tokens
  <2> QED
    <3>1. PICK p \in Replicas : p = issued[t].replica /\ issued[t].boot \in Nat /\ issued[t].boot =< boots[p]
      BY TokenFacts
    <3>2. boots[p] \in Nat
      BY DEF IInv, TypeOK
    <3>3. CASE p = r
      BY <1>1, <3>1, <3>2, <3>3
    <3>4. CASE p # r
      BY <1>1, <3>1, <3>4
    <3> QED
      BY <3>3, <3>4
<1>6. RevokedAtHome'
  <2>1. ASSUME NEW t \in Tokens, HomeRuns(t)'
        PROVE  HomeRuns(t)
    <3>1. boots'[issued[t].replica] = issued[t].boot /\ up'[issued[t].replica]
      BY <1>1, <2>1 DEF HomeRuns
    <3>2. issued[t].replica # r
      BY <1>1, <3>1, TokenFacts
    <3> QED
      BY <1>1, <3>1, <3>2, TokenFacts DEF HomeRuns
  <2> QED
    BY <1>1, <2>1 DEF IInv, RevokedAtHome, Tokens
<1>7. OneHome'
  <2>1. PICK home \in [1 .. registered -> Replicas \X Nat] : HomeIs(home)
    BY DEF IInv, OneHome
  <2>2. ASSUME NEW p \in Replicas, NEW e \in Emails, users[p][e] # 0
        PROVE  home[users[p][e]] = <<p, boots'[p]>>
    <3>1. p # r
      BY <1>1, <2>2 DEF IInv, UsersSound
    <3>2. boots'[p] = boots[p]
      BY <1>1, <3>1
    <3> QED
      BY <2>1, <2>2, <3>2 DEF HomeIs
  <2>3. ASSUME NEW q \in Requests, request[q].user # 0
        PROVE  home[request[q].user] = <<request[q].replica, boots'[request[q].replica]>>
    <3>1. request[q].step # "idle"
      BY <2>3 DEF IInv, RequestsSound, Sound, NoRequest
    <3> QED
      BY <1>1, <2>1, <2>3, <3>1 DEF HomeIs, IInv, RequestsSound, Sound
  <2>4. HomeIs(home)'
    BY <1>1, <2>1, <2>2, <2>3 DEF HomeIs, Tokens
  <2> QED
    BY <1>1, <2>1, <2>4 DEF OneHome
<1> QED
  BY <1>2, <1>3, <1>4, <1>5, <1>6, <1>7 DEF IInv

LEMMA DieKeeps ==
  ASSUME IInv, NEW r \in Replicas, Die(r)
  PROVE  IInv'
<1>1. /\ up' \in [Replicas -> BOOLEAN] /\ ~up'[r]
      /\ \A p \in Replicas : p # r => up'[p] = up[p]
  BY DEF Die, IInv, TypeOK
<1>2. /\ users' \in [Replicas -> [Emails -> Nat]] /\ \A e \in Emails : users'[r][e] = 0
      /\ \A p \in Replicas : p # r => users'[p] = users[p]
  BY DEF Die, IInv, TypeOK
<1>3. /\ memory' \in [Replicas -> SUBSET Tokens] /\ blacklist' \in [Replicas -> SUBSET Tokens]
      /\ \A p \in Replicas : p # r => memory'[p] = memory[p] /\ blacklist'[p] = blacklist[p]
  BY DEF Die, IInv, TypeOK
<1>4. /\ request' \in [Requests -> Request]
      /\ \A q \in Requests :
           request'[q] = NoRequest \/ (request'[q] = request[q] /\ request[q].replica # r)
  BY NoRequestSound DEF Die, IInv, TypeOK
<1>5. UNCHANGED <<boots, sessions, registered, issued, revoked>>
  BY DEF Die
<1>6. TypeOK'
  BY <1>1, <1>2, <1>3, <1>4, <1>5 DEF IInv, TypeOK, Tokens
<1>7. RequestsSound'
  <2>1. SUFFICES ASSUME NEW q \in Requests
                 PROVE  Sound(request[q])' /\ Away(request[q])'
    BY DEF RequestsSound
  <2>2. CASE request'[q] = NoRequest
    BY <1>5, <2>2 DEF Sound, Away, NoRequest, IInv, TypeOK
  <2>3. CASE request'[q] = request[q] /\ request[q].replica # r
    BY <1>1, <1>5, <2>3 DEF Sound, Away, IInv, RequestsSound, Tokens
  <2> QED
    BY <1>4, <2>2, <2>3
<1>8. UsersSound'
  <2>1. SUFFICES ASSUME NEW p \in Replicas, NEW e \in Emails
                 PROVE  /\ ~up'[p] => users'[p][e] = 0
                        /\ users'[p][e] =< registered
    BY <1>5 DEF UsersSound
  <2>2. registered \in Nat
    BY DEF IInv, TypeOK
  <2>3. CASE p = r
    BY <1>2, <2>2, <2>3
  <2>4. CASE p # r
    BY <1>1, <1>2, <2>4 DEF IInv, UsersSound
  <2> QED
    BY <2>3, <2>4
<1>9. TokensSound'
  BY <1>5 DEF IInv, TokensSound, Tokens
<1>10. RevokedAtHome'
  BY <1>1, <1>3, <1>5, TokenFacts DEF IInv, RevokedAtHome, HomeRuns, Tokens
<1>11. OneHome'
  <2>1. PICK home \in [1 .. registered -> Replicas \X Nat] : HomeIs(home)
    BY DEF IInv, OneHome
  <2>2. HomeIs(home)'
    <3>1. ASSUME NEW p \in Replicas, NEW e \in Emails, users'[p][e] # 0
          PROVE  home[users'[p][e]] = <<p, boots[p]>>
      <4>1. p # r
        BY <1>2, <3>1
      <4>2. users'[p] = users[p]
        BY <1>2, <4>1
      <4> QED
        BY <2>1, <3>1, <4>2 DEF HomeIs
    <3>2. ASSUME NEW q \in Requests, request'[q].user # 0
          PROVE  home[request'[q].user] = <<request'[q].replica, boots[request'[q].replica]>>
      <4>1. NoRequest.user = 0
        BY DEF NoRequest
      <4>2. request'[q] = request[q]
        BY <1>4, <3>2, <4>1
      <4> QED
        BY <2>1, <3>2, <4>2 DEF HomeIs
    <3> QED
      BY <1>5, <2>1, <3>1, <3>2 DEF HomeIs, Tokens
  <2> QED
    BY <1>5, <2>1, <2>2 DEF OneHome
<1> QED
  BY <1>6, <1>7, <1>8, <1>9, <1>10, <1>11 DEF IInv

-----------------------------------------------------------------------------
(* Every step.                                                             *)

LEMMA InitIInv ==
  ASSUME Init
  PROVE  IInv
<1>1. TypeOK
  BY DEF Init, TypeOK, NoRequest, Request, Tokens
<1>2. RequestsSound
  BY DEF Init, RequestsSound, Sound, Away, NoRequest
<1>3. UsersSound /\ TokensSound /\ RevokedAtHome
  BY DEF Init, UsersSound, TokensSound, RevokedAtHome, Tokens
<1>4. OneHome
  <2>1. [n \in 1 .. registered |-> <<n, n>>] \in [1 .. registered -> Replicas \X Nat]
    BY DEF Init
  <2>2. HomeIs([n \in 1 .. registered |-> <<n, n>>])
    BY DEF Init, HomeIs, NoRequest, Tokens
  <2> QED
    BY <2>1, <2>2 DEF OneHome
<1> QED
  BY <1>1, <1>2, <1>3, <1>4 DEF IInv

LEMMA StepIInv ==
  ASSUME IInv, [Next]_vars
  PROVE  IInv'
<1>1. ASSUME NEW r \in Replicas, Boot(r) \/ Kill(r)
      PROVE  IInv'
  BY <1>1, BootKeeps, DieKeeps DEF Kill
<1>2. ASSUME NEW q \in Requests, RedisFails(q)
      PROVE  IInv'
  <2>1. request[q].replica \in Replicas /\ Die(request[q].replica)
    BY <1>2 DEF RedisFails, IInv, RequestsSound, Sound
  <2> QED
    BY <2>1, DieKeeps
<1>3. ASSUME NEW q \in Requests,
             \/ Hashed(q) \/ Compared(q) \/ Save(q)
             \/ RedisGets(q) \/ Refuse(q) \/ Accept(q) \/ RedisDeletes(q)
      PROVE  IInv'
  BY <1>3, HashedKeeps, ComparedKeeps, SaveKeeps, RedisGetsKeeps, RefuseKeeps, AcceptKeeps,
     RedisDeletesKeeps
<1>4. ASSUME NEW q \in Requests, NEW r \in Replicas, NEW e \in Emails,
             Register(q, r, e) \/ Login(q, r, e)
      PROVE  IInv'
  BY <1>4, RegisterKeeps, LoginKeeps
<1>5. ASSUME NEW q \in Requests, NEW r \in Replicas, NEW t \in Tokens,
             Refresh(q, r, t) \/ Logout(q, r, t)
      PROVE  IInv'
  BY <1>5, RefreshKeeps, LogoutKeeps
<1>6. ASSUME NEW t \in sessions, Expire(t)
      PROVE  IInv'
  BY <1>6, ExpireKeeps
<1>7. ASSUME UNCHANGED vars
      PROVE  IInv'
  <2>1. TypeOK'
    BY <1>7 DEF vars, IInv, TypeOK, Tokens
  <2>2. RequestsSound' /\ UsersSound' /\ TokensSound' /\ RevokedAtHome'
    BY <1>7 DEF vars, IInv, RequestsSound, Sound, Away, UsersSound, TokensSound, RevokedAtHome,
                HomeRuns, Tokens
  <2>3. OneHome'
    BY <1>7 DEF vars, IInv, OneHome, HomeIs, Tokens
  <2> QED
    BY <2>1, <2>2, <2>3 DEF IInv
<1> QED
  BY <1>1, <1>2, <1>3, <1>4, <1>5, <1>6, <1>7 DEF Next

LEMMA AlwaysIInv == Spec => []IInv
BY InitIInv, StepIInv, PTL DEF Spec

\* A refresh is accepted by no other step than Accept.
LEMMA OnlyAccept ==
  ASSUME IInv, [Next]_vars, NEW q \in Requests, Accepts(q)
  PROVE  Accept(q)
<1> USE DEF Accepts, At
<1>0. request \in [Requests -> Request] /\ request[q].step = "got"
  BY DEF IInv, TypeOK
<1>1. ~UNCHANGED request
  BY <1>0
<1>2. ASSUME NEW r, Die(r)
      PROVE  FALSE
  BY <1>0, <1>2 DEF Die, NoRequest
<1>3. ASSUME NEW k \in Requests, NEW new, request' = [request EXCEPT ![k] = new], k # q
      PROVE  FALSE
  BY <1>0, <1>3
<1>4. ASSUME NEW k \in Requests,
             \/ Hashed(k) \/ Compared(k) \/ Save(k) \/ RedisGets(k) \/ RedisDeletes(k)
      PROVE  FALSE
  BY <1>0, <1>3, <1>4
     DEF Hashed, Compared, Save, RedisGets, RedisDeletes, Goes, Answered, NoRequest
<1>5. ASSUME NEW k \in Requests, NEW r \in Replicas, NEW e \in Emails,
             Register(k, r, e) \/ Login(k, r, e)
      PROVE  FALSE
  BY <1>0, <1>3, <1>5 DEF Register, Login, Starts
<1>6. ASSUME NEW k \in Requests, NEW r \in Replicas, NEW t \in Tokens,
             Refresh(k, r, t) \/ Logout(k, r, t)
      PROVE  FALSE
  BY <1>0, <1>3, <1>6 DEF Refresh, Logout, Starts
<1>7. ASSUME NEW k \in Requests, Refuse(k)
      PROVE  FALSE
  BY <1>0, <1>3, <1>7 DEF Refuse, Answered, NoRequest
<1>8. ASSUME NEW k \in Requests, Accept(k), k # q
      PROVE  FALSE
  BY <1>0, <1>3, <1>8 DEF Accept
<1>9. ~UNCHANGED vars /\ ~(\E t \in sessions : Expire(t)) /\ ~(\E r \in Replicas : Boot(r))
  BY <1>1 DEF vars, Expire, Boot
<1> QED
  BY <1>2, <1>4, <1>5, <1>6, <1>7, <1>8, <1>9 DEF Next, Kill, RedisFails

\* A refresh is refused by no other step than Refuse.
LEMMA OnlyRefuse ==
  ASSUME IInv, [Next]_vars, NEW q \in Requests, Refuses(q)
  PROVE  Refuse(q)
<1> USE DEF Refuses, At
<1>0. request \in [Requests -> Request] /\ request[q].step = "got"
  BY DEF IInv, TypeOK
<1>1. ~UNCHANGED request
  BY <1>0
<1>2. ASSUME NEW r \in Replicas, Die(r)
      PROVE  FALSE
  <2>1. CASE request[q].replica = r
    BY <1>2, <2>1 DEF Die, IInv, TypeOK
  <2>2. CASE request[q].replica # r
    BY <1>0, <1>2, <2>2 DEF Die
  <2> QED
    BY <2>1, <2>2
<1>3. ASSUME NEW k \in Requests, NEW new, request' = [request EXCEPT ![k] = new], k # q
      PROVE  FALSE
  BY <1>0, <1>3
<1>4. ASSUME NEW k \in Requests,
             \/ Hashed(k) \/ Compared(k) \/ Save(k) \/ RedisGets(k) \/ RedisDeletes(k)
      PROVE  FALSE
  BY <1>0, <1>3, <1>4
     DEF Hashed, Compared, Save, RedisGets, RedisDeletes, Goes, Answered, NoRequest
<1>5. ASSUME NEW k \in Requests, NEW r \in Replicas, NEW e \in Emails,
             Register(k, r, e) \/ Login(k, r, e)
      PROVE  FALSE
  BY <1>0, <1>3, <1>5 DEF Register, Login, Starts
<1>6. ASSUME NEW k \in Requests, NEW r \in Replicas, NEW t \in Tokens,
             Refresh(k, r, t) \/ Logout(k, r, t)
      PROVE  FALSE
  BY <1>0, <1>3, <1>6 DEF Refresh, Logout, Starts
<1>7. ASSUME NEW k \in Requests, Accept(k)
      PROVE  FALSE
  BY <1>0, <1>3, <1>7 DEF Accept
<1>8. ASSUME NEW k \in Requests, Refuse(k), k # q
      PROVE  FALSE
  BY <1>0, <1>3, <1>8 DEF Refuse, Answered
<1>9. ~UNCHANGED vars /\ ~(\E t \in sessions : Expire(t)) /\ ~(\E r \in Replicas : Boot(r))
  BY <1>1 DEF vars, Expire, Boot
<1>10. ~(\E k \in Requests : RedisFails(k))
  BY <1>2 DEF RedisFails, IInv, RequestsSound, Sound
<1> QED
  BY <1>2, <1>4, <1>5, <1>6, <1>7, <1>8, <1>9, <1>10 DEF Next, Kill

-----------------------------------------------------------------------------
(* Theorems.                                                               *)

\* Every variable of the auth service's model has its type.
THEOREM AuthTypeCorrect == Spec => []TypeOK
<1>1. IInv => TypeOK
  BY DEF IInv
<1> QED
  BY <1>1, AlwaysIInv, PTL

\* A refresh token is accepted by the process that issued it and by no other:
\* a user's id is known to one process only, where he registered.
THEOREM AcceptedAtHome == Spec => AcceptedAtHomeOnly
<1>1. ASSUME IInv, [Next]_vars
      PROVE  [\A q \in Requests : Accepts(q) => AtHome(q)]_vars
  BY <1>1, OnlyAccept, AcceptedHome DEF Accept, At
<1> QED
  BY <1>1, AlwaysIInv, PTL DEF Spec, AcceptedAtHomeOnly

\* What its home has begun to revoke is not accepted of a later request by
\* anybody: the home has it on its blacklist, and nobody else has its user.
THEOREM RevokedFinal == Spec => RevokedAtHomeFinal
<1>1. ASSUME IInv, [Next]_vars
      PROVE  [\A q \in Requests : Accepts(q) => ~request[q].late]_vars
  <2>1. ASSUME NEW q \in Requests, Accepts(q)
        PROVE  ~request[q].late
    <3>1. request[q].step = "got" /\ AtHome(q)
      BY <1>1, <2>1, OnlyAccept, AcceptedHome DEF Accept, At
    <3>2. Away(request[q])
      BY <1>1 DEF IInv, RequestsSound
    <3> QED
      BY <3>1, <3>2 DEF Away, AtHome
  <2> QED
    BY <2>1
<1> QED
  BY <1>1, AlwaysIInv, PTL DEF Spec, RevokedAtHomeFinal

\* The process that issued a token has it in memory until somebody begins to
\* revoke it, so it refuses it for no other reason than a user it has no more.
THEOREM RefusedJustly == Spec => RefusedForReason
<1>1. ASSUME IInv, [Next]_vars
      PROVE  [\A q \in Requests :
                Refuses(q) /\ AtHome(q) => revoked[request[q].token] # {} \/ ~HasUser(q)]_vars
  <2>1. ASSUME NEW q \in Requests, Refuses(q), AtHome(q), HasUser(q)
        PROVE  revoked[request[q].token] # {}
    <3>1. request[q].step = "got" /\ request[q].token \notin memory[request[q].replica]
      BY <1>1, <2>1, OnlyRefuse DEF Refuse, At, HasSession
    <3>2. up[request[q].replica] /\ request[q].token \in Tokens
      BY <1>1, <3>1 DEF IInv, RequestsSound, Sound
    <3>3. HomeRuns(request[q].token)
      BY <2>1, <3>2 DEF AtHome, HomeRuns
    <3> QED
      BY <1>1, <2>1, <3>1, <3>2, <3>3 DEF IInv, RevokedAtHome, AtHome
  <2> QED
    BY <2>1
<1> QED
  BY <1>1, AlwaysIInv, PTL DEF Spec, RefusedForReason

-----------------------------------------------------------------------------
(* What a refresh hands out.                                               *)

\* A token that was handed out for another one is younger than that, belongs to
\* the same user and the same process, and that process had begun to revoke the
\* other one.  (That it was handed out for no third one as well is what
\* TokenExchangedOnce claims and nothing in the code ensures.)
ExchangedAtHome ==
  \A s \in Tokens :
    issued[s].from # 0 =>
      LET t == issued[s].from
      IN  /\ t \in 1 .. s - 1
          /\ issued[t].user = issued[s].user
          /\ issued[t].replica = issued[s].replica /\ issued[t].boot = issued[s].boot
          /\ issued[s].replica \in revoked[t]

\* A request x that is about to hand out a token for another one.
Exchanging(x) ==
  \/ x.step = "deleting" /\ x.kind = "refresh"
  \/ x.step = "saving" /\ x.token # 0

\* Such a request has found the other token at its home, and revoked it.
Carries(x, revocations) ==
  /\ x.step \in {"hashing", "comparing"} => x.token = 0
  /\ Exchanging(x) =>
       /\ x.token \in Tokens
       /\ issued[x.token].user = x.user
       /\ issued[x.token].replica = x.replica /\ issued[x.token].boot = boots[x.replica]
       /\ x.replica \in revocations[x.token]

ExchangeInv == ExchangedAtHome /\ \A q \in Requests : Carries(request[q], revoked)

LEMMA ExchangeStep ==
  ASSUME IInv, ExchangeInv, NEW q \in Requests, NEW new, Carries(new, revoked'),
         request' = [request EXCEPT ![q] = new],
         UNCHANGED <<boots, issued>>,
         \A t \in Tokens : revoked[t] \subseteq revoked'[t]
  PROVE  ExchangeInv'
<1>1. request'[q] = new /\ \A k \in Requests : k # q => request'[k] = request[k]
  BY DEF IInv, TypeOK
<1>2. Tokens' = Tokens /\ Tokens \subseteq Nat /\ \A s \in Tokens : 1 .. s - 1 \subseteq Tokens
  BY DEF Tokens, IInv, TypeOK
<1>3. ExchangedAtHome'
  BY <1>2 DEF ExchangeInv, ExchangedAtHome
<1>4. ASSUME NEW k \in Requests
      PROVE  Carries(request[k], revoked)'
  <2>1. CASE k = q
    BY <1>1, <1>2, <2>1 DEF Carries, Exchanging
  <2>2. CASE k # q
    <3>1. PICK x : x = request[k] /\ x = request'[k] /\ Carries(x, revoked)
      BY <1>1, <2>2 DEF ExchangeInv
    <3>2. Carries(x, revoked')
      BY <3>1 DEF Carries
    <3> QED
      BY <1>2, <3>1, <3>2 DEF Carries, Exchanging
  <2> QED
    BY <2>1, <2>2
<1> QED
  BY <1>3, <1>4 DEF ExchangeInv

LEMMA ExchangeStill ==
  ASSUME ExchangeInv, UNCHANGED <<boots, request, issued, revoked>>
  PROVE  ExchangeInv'
BY DEF ExchangeInv, ExchangedAtHome, Carries, Exchanging, Tokens

\* A request that goes on, or ends, without a token of its own to revoke.
LEMMA ExchangeGoesOn ==
  ASSUME IInv, ExchangeInv, NEW q \in Requests,
         \/ Hashed(q) \/ Compared(q) \/ RedisGets(q) \/ Refuse(q) \/ RedisDeletes(q)
  PROVE  ExchangeInv'
<1>1. request[q] \in Request /\ Carries(request[q], revoked)
  BY DEF ExchangeInv, IInv, TypeOK
<1>2. UNCHANGED <<boots, issued, revoked>>
  BY DEF Hashed, Compared, RedisGets, Refuse, RedisDeletes
<1>3. PICK new : request' = [request EXCEPT ![q] = new] /\ Carries(new, revoked)
  <2>1. CASE Answered(q)
    <3>1. Carries(NoRequest, revoked)
      BY DEF Carries, Exchanging, NoRequest
    <3> QED
      BY <2>1, <3>1 DEF Answered
  <2>2. CASE Goes(q, "saving") /\ request[q].step \in {"hashing", "comparing", "deleting"}
             /\ (request[q].step = "deleting" => request[q].kind = "refresh")
    <3> DEFINE w == [request[q] EXCEPT !.step = "saving"]
    <3>1. /\ w.step = "saving" /\ w.token = request[q].token /\ w.user = request[q].user
          /\ w.replica = request[q].replica
      BY <1>1 DEF Request
    <3>2. request' = [request EXCEPT ![q] = w]
      BY <2>2 DEF Goes
    <3> HIDE DEF w
    <3>3. Carries(w, revoked)
      BY <1>1, <2>2, <3>1 DEF Carries, Exchanging
    <3> QED
      BY <3>2, <3>3
  <2>3. CASE RedisGets(q)
    <3> DEFINE w == [request[q] EXCEPT !.step = "got", !.found = request[q].token \in sessions]
    <3>1. w.step = "got"
      BY <1>1 DEF Request
    <3>2. request' = [request EXCEPT ![q] = w]
      BY <2>3 DEF RedisGets
    <3> HIDE DEF w
    <3>3. Carries(w, revoked)
      BY <3>1 DEF Carries, Exchanging
    <3> QED
      BY <3>2, <3>3
  <2> QED
    BY <2>1, <2>2, <2>3 DEF Hashed, Compared, Refuse, RedisDeletes, At
<1> QED
  BY <1>2, <1>3, ExchangeStep

\* A request that comes in, other than to revoke.
LEMMA ExchangeStarts ==
  ASSUME IInv, ExchangeInv, NEW q \in Requests, NEW r \in Replicas,
         \/ \E e \in Emails : Register(q, r, e) \/ Login(q, r, e)
         \/ \E t \in Tokens : Refresh(q, r, t)
  PROVE  ExchangeInv'
<1>1. UNCHANGED <<boots, issued, revoked>>
  BY DEF Register, Login, Refresh
<1>2. PICK new : request' = [request EXCEPT ![q] = new] /\ Carries(new, revoked)
  <2>1. ASSUME NEW e \in Emails, Register(q, r, e)
        PROVE  \E w : request' = [request EXCEPT ![q] = w] /\ Carries(w, revoked)
    <3> DEFINE w == [NoRequest EXCEPT !.kind = "register", !.replica = r, !.step = "hashing",
                                      !.email = e, !.user = registered + 1]
    <3>1. w.step = "hashing" /\ w.token = 0 /\ request' = [request EXCEPT ![q] = w]
      BY <2>1 DEF NoRequest, Register, Starts
    <3> HIDE DEF w
    <3> QED
      BY <3>1 DEF Carries, Exchanging
  <2>2. ASSUME NEW e \in Emails, Login(q, r, e)
        PROVE  \E w : request' = [request EXCEPT ![q] = w] /\ Carries(w, revoked)
    <3> DEFINE w == [NoRequest EXCEPT !.kind = "login", !.replica = r, !.step = "comparing",
                                      !.email = e, !.user = users[r][e]]
    <3>1. w.step = "comparing" /\ w.token = 0 /\ request' = [request EXCEPT ![q] = w]
      BY <2>2 DEF NoRequest, Login, Starts
    <3> HIDE DEF w
    <3> QED
      BY <3>1 DEF Carries, Exchanging
  <2>3. ASSUME NEW t \in Tokens, Refresh(q, r, t)
        PROVE  \E w : request' = [request EXCEPT ![q] = w] /\ Carries(w, revoked)
    <3> DEFINE w == [NoRequest EXCEPT !.kind = "refresh", !.replica = r, !.step = "getting",
                                      !.token = t, !.late = issued[t].replica \in revoked[t]]
    <3>1. w.step = "getting" /\ request' = [request EXCEPT ![q] = w]
      BY <2>3 DEF NoRequest, Refresh, Starts
    <3> HIDE DEF w
    <3> QED
      BY <3>1 DEF Carries, Exchanging
  <2> QED
    BY <2>1, <2>2, <2>3
<1> QED
  BY <1>1, <1>2, ExchangeStep

\* Revocations are never taken back.
LEMMA RevokedGrows ==
  ASSUME IInv, NEW r \in Replicas, NEW t \in Tokens, Revoke(r, t)
  PROVE  r \in revoked'[t] /\ \A k \in Tokens : revoked[k] \subseteq revoked'[k]
<1>1. revoked \in Seq(SUBSET Replicas) /\ t \in DOMAIN revoked /\ Tokens = DOMAIN revoked
  BY DEF IInv, TypeOK, Tokens
<1> QED
  BY <1>1 DEF Revoke

LEMMA ExchangeRevokes ==
  ASSUME IInv, ExchangeInv, NEW q \in Requests,
         Accept(q) \/ \E r \in Replicas, t \in Tokens : Logout(q, r, t)
  PROVE  ExchangeInv'
<1>1. CASE Accept(q)
  <2>1. PICK x \in Request :
          /\ x = request[q] /\ x.replica \in Replicas /\ x.token \in Tokens /\ AtHome(q)
    BY <1>1, AcceptedHome DEF Accept, At, IInv, TypeOK, RequestsSound, Sound
  <2>2. x.replica \in revoked'[x.token] /\ \A k \in Tokens : revoked[k] \subseteq revoked'[k]
    BY <1>1, <2>1, RevokedGrows DEF Accept
  <2>3. PICK u \in Nat : u = issued[x.token].user
    BY <2>1, TokenFacts
  <2> DEFINE w == [x EXCEPT !.step = "deleting", !.user = u]
  <2>4. request' = [request EXCEPT ![q] = w]
    BY <1>1, <2>1, <2>3 DEF Accept
  <2>5. w.step = "deleting" /\ w.token = x.token /\ w.user = u /\ w.replica = x.replica
    BY <2>1 DEF Request
  <2> HIDE DEF w
  <2>6. Carries(w, revoked')
    BY <2>1, <2>2, <2>3, <2>5 DEF Carries, Exchanging, AtHome
  <2> QED
    BY <1>1, <2>2, <2>4, <2>6, ExchangeStep DEF Accept
<1>2. ASSUME NEW r \in Replicas, NEW t \in Tokens, Logout(q, r, t)
      PROVE  ExchangeInv'
  <2> DEFINE w == [NoRequest EXCEPT !.kind = "logout", !.replica = r, !.step = "deleting",
                                    !.token = t]
  <2>1. request' = [request EXCEPT ![q] = w]
    BY <1>2 DEF Logout, Starts
  <2>2. w.step = "deleting" /\ w.kind = "logout"
    BY DEF NoRequest
  <2> HIDE DEF w
  <2>3. Carries(w, revoked')
    BY <2>2 DEF Carries, Exchanging
  <2>4. \A k \in Tokens : revoked[k] \subseteq revoked'[k]
    BY <1>2, RevokedGrows DEF Logout
  <2> QED
    BY <1>2, <2>1, <2>3, <2>4, ExchangeStep DEF Logout
<1> QED
  BY <1>1, <1>2

\* The token that is handed out, and what the request behind it carried.
LEMMA ExchangeSaves ==
  ASSUME IInv, ExchangeInv, NEW q \in Requests, Save(q)
  PROVE  ExchangeInv'
<1>1. PICK x \in Request :
        x = request[q] /\ x.step = "saving" /\ x.replica \in Replicas /\ Carries(x, revoked)
  BY DEF Save, At, ExchangeInv, IInv, TypeOK, RequestsSound, Sound
<1>2. PICK k \in Token :
        /\ issued' = Append(issued, k)
        /\ k.user = x.user /\ k.replica = x.replica /\ k.boot = boots[x.replica]
        /\ k.from = x.token
  <2> DEFINE w == [user |-> x.user, replica |-> x.replica, boot |-> boots[x.replica],
                   from |-> x.token]
  <2>1. w \in Token
    BY <1>1 DEF Token, Request, IInv, TypeOK
  <2> QED
    BY <1>1, <2>1 DEF Save
<1>3. PICK n \in Nat : n = Len(issued) /\ Tokens = 1 .. n
  BY DEF IInv, TypeOK, Tokens
<1>4. /\ Tokens' = 1 .. n + 1
      /\ issued'[n + 1] = k
      /\ \A j \in 1 .. n : issued'[j] = issued[j]
  BY <1>2, <1>3, AppendProperties DEF IInv, TypeOK, Tokens
<1>5. \A j \in 1 .. n : revoked'[j] = revoked[j]
  <2>1. revoked' = Append(revoked, {}) /\ {} \in SUBSET Replicas
    BY DEF Save
  <2> QED
    BY <1>3, <2>1, AppendProperties DEF IInv, TypeOK, Tokens
<1>6. ExchangedAtHome'
  <2>1. SUFFICES ASSUME NEW s \in 1 .. n + 1, issued'[s].from # 0
                 PROVE  LET t == issued'[s].from
                        IN  /\ t \in 1 .. s - 1
                            /\ issued'[t].user = issued'[s].user
                            /\ issued'[t].replica = issued'[s].replica
                            /\ issued'[t].boot = issued'[s].boot
                            /\ issued'[s].replica \in revoked'[t]
    BY <1>4 DEF ExchangedAtHome
  <2>2. CASE s = n + 1
    BY <1>1, <1>2, <1>3, <1>4, <1>5, <2>1, <2>2 DEF Carries, Exchanging
  <2>3. CASE s \in 1 .. n
    <3>1. issued'[s] = issued[s]
      BY <1>4, <2>3
    <3>2. LET t == issued[s].from
          IN  /\ t \in 1 .. s - 1
              /\ issued[t].user = issued[s].user
              /\ issued[t].replica = issued[s].replica /\ issued[t].boot = issued[s].boot
              /\ issued[s].replica \in revoked[t]
      BY <1>3, <2>1, <2>3, <3>1 DEF ExchangeInv, ExchangedAtHome
    <3>3. issued[s].from \in 1 .. n
      BY <2>3, <3>2
    <3> QED
      BY <1>4, <1>5, <3>1, <3>2, <3>3
  <2> QED
    BY <2>2, <2>3
<1>7. ASSUME NEW j \in Requests
      PROVE  Carries(request[j], revoked)'
  <2>1. boots' = boots
    BY DEF Save
  <2>2. CASE j = q
    <3>1. request'[j] = NoRequest
      BY <2>2 DEF Save, Answered, IInv, TypeOK
    <3> QED
      BY <3>1 DEF Carries, Exchanging, NoRequest
  <2>3. CASE j # q
    <3>1. request'[j] = request[j]
      BY <2>3 DEF Save, Answered, IInv, TypeOK
    <3>2. Carries(request[j], revoked)
      BY DEF ExchangeInv
    <3> QED
      BY <1>3, <1>4, <1>5, <2>1, <3>1, <3>2 DEF Carries, Exchanging
  <2> QED
    BY <2>2, <2>3
<1> QED
  BY <1>6, <1>7 DEF ExchangeInv

\* No request is under way in a process that starts; those of one that ends end.
LEMMA ExchangeProcesses ==
  ASSUME IInv, ExchangeInv, NEW r \in Replicas, Boot(r) \/ Die(r)
  PROVE  ExchangeInv'
<1>1. UNCHANGED <<issued, revoked>>
  BY DEF Boot, Die
<1>2. ExchangedAtHome'
  BY <1>1 DEF ExchangeInv, ExchangedAtHome, Tokens
<1>3. ASSUME NEW j \in Requests
      PROVE  Carries(request[j], revoked)'
  <2>1. Carries(request[j], revoked) /\ Sound(request[j])
    BY DEF ExchangeInv, IInv, RequestsSound
  <2>2. CASE Boot(r)
    <3>1. request'[j] = request[j] /\ ~up[r] /\ \A p \in Replicas : p # r => boots'[p] = boots[p]
      BY <2>2 DEF Boot, IInv, TypeOK
    <3>2. Exchanging(request[j]) => request[j].replica \in Replicas /\ request[j].replica # r
      BY <2>1, <3>1 DEF Sound, Exchanging
    <3> QED
      BY <1>1, <2>1, <3>1, <3>2 DEF Carries, Exchanging, Tokens
  <2>3. CASE Die(r)
    <3>1. request'[j] = NoRequest \/ request'[j] = request[j]
      BY <2>3 DEF Die
    <3>2. boots' = boots
      BY <2>3 DEF Die
    <3>3. CASE request'[j] = NoRequest
      BY <3>3 DEF Carries, Exchanging, NoRequest
    <3>4. CASE request'[j] = request[j]
      BY <1>1, <2>1, <3>2, <3>4 DEF Carries, Exchanging, Tokens
    <3> QED
      BY <3>1, <3>3, <3>4
  <2> QED
    BY <2>2, <2>3
<1> QED
  BY <1>2, <1>3 DEF ExchangeInv

\* A refresh that hands out a token has revoked, in the same process, the token
\* of the same user it was called with.
THEOREM ExchangesAtHome == Spec => []ExchangedAtHome
<1>1. Init => ExchangeInv
  BY DEF Init, ExchangeInv, ExchangedAtHome, Carries, Exchanging, NoRequest, Tokens
<1>2. ASSUME IInv, ExchangeInv, [Next]_vars
      PROVE  ExchangeInv'
  <2>1. ASSUME NEW r \in Replicas, Boot(r) \/ Kill(r)
        PROVE  ExchangeInv'
    BY <1>2, <2>1, ExchangeProcesses DEF Kill
  <2>2. ASSUME NEW q \in Requests, RedisFails(q)
        PROVE  ExchangeInv'
    <3>1. request[q].replica \in Replicas /\ Die(request[q].replica)
      BY <1>2, <2>2 DEF RedisFails, IInv, RequestsSound, Sound
    <3> QED
      BY <1>2, <3>1, ExchangeProcesses
  <2>3. ASSUME NEW q \in Requests,
               \/ Hashed(q) \/ Compared(q) \/ Save(q)
               \/ RedisGets(q) \/ Refuse(q) \/ Accept(q) \/ RedisDeletes(q)
        PROVE  ExchangeInv'
    BY <1>2, <2>3, ExchangeGoesOn, ExchangeSaves, ExchangeRevokes
  <2>4. ASSUME NEW q \in Requests, NEW r \in Replicas,
               \/ \E e \in Emails : Register(q, r, e) \/ Login(q, r, e)
               \/ \E t \in Tokens : Refresh(q, r, t) \/ Logout(q, r, t)
        PROVE  ExchangeInv'
    BY <1>2, <2>4, ExchangeStarts, ExchangeRevokes
  <2>5. CASE (\E t \in sessions : Expire(t)) \/ UNCHANGED vars
    BY <1>2, <2>5, ExchangeStill DEF Expire, vars
  <2> QED
    BY <1>2, <2>1, <2>2, <2>3, <2>4, <2>5 DEF Next
<1>3. ExchangeInv => ExchangedAtHome
  BY DEF ExchangeInv
<1> QED
  BY <1>1, <1>2, <1>3, AlwaysIInv, PTL DEF Spec

=============================================================================

--------------------------- MODULE AuthSessions ---------------------------
(***************************************************************************)
(* Users and refresh tokens of the auth service: two replicas that share a *)
(* Redis.  Users live in the memory of the replica they registered at,     *)
(* sessions in Redis and in the memory of the replica that issued them,    *)
(* the blacklist that is consulted in the memory of the replica that       *)
(* revoked.  A handler runs without interruption from one await to the     *)
(* next; bcrypt and Redis are awaited.  A Redis command that fails rejects *)
(* the handler, which nobody catches, and node ends the process.           *)
(***************************************************************************)
EXTENDS Integers, Sequences

CONSTANTS
  Replicas,  \* the replicas
  Emails,    \* the emails users register with
  Requests,  \* requests a replica may be working on at a time
  UserCap,   \* bound on the users registered
  TokenCap,  \* bound on the refresh tokens issued
  BootCap    \* bound on the starts of each replica

ASSUME AuthAssumption == UserCap \in Nat /\ TokenCap \in Nat /\ BootCap \in Nat

VARIABLES
  up,         \* up[r]: the process of replica r runs
  boots,      \* boots[r]: how often it was started (history)
  users,      \* users[r]: the Map users, the id of each email's user, 0 for none
  memory,     \* memory[r]: the tokens in TokenStore.memory
  blacklist,  \* blacklist[r]: the tokens in TokenStore.blacklist
  sessions,   \* the tokens with a key session:<token> in Redis
  request,    \* the requests, NoRequest between one and the next
  registered, \* how many user ids were handed out
  issued,     \* the refresh tokens issued, which are numbered (history)
  revoked     \* revoked[t]: the replicas that began to revoke t (history)

vars == <<up, boots, users, memory, blacklist, sessions, request, registered,
          issued, revoked>>

Tokens == 1 .. Len(issued)

NoRequest == [kind |-> "none", replica |-> 0, step |-> "idle", email |-> 0,
              user |-> 0, token |-> 0, found |-> FALSE, late |-> FALSE]

Init ==
  /\ up = [r \in Replicas |-> FALSE]
  /\ boots = [r \in Replicas |-> 0]
  /\ users = [r \in Replicas |-> [e \in Emails |-> 0]]
  /\ memory = [r \in Replicas |-> {}]
  /\ blacklist = [r \in Replicas |-> {}]
  /\ sessions = {}
  /\ request = [q \in Requests |-> NoRequest]
  /\ registered = 0
  /\ issued = <<>>
  /\ revoked = <<>>

Starts(q, new) == request' = [request EXCEPT ![q] = new]

Goes(q, step) == request' = [request EXCEPT ![q].step = step]

Answered(q) == request' = [request EXCEPT ![q] = NoRequest]

At(q, step) == request[q].step = step

-----------------------------------------------------------------------------
(* The processes.                                                          *)

Boot(r) ==
  /\ ~up[r] /\ boots[r] < BootCap
  /\ up' = [up EXCEPT ![r] = TRUE]
  /\ boots' = [boots EXCEPT ![r] = @ + 1]
  /\ UNCHANGED <<users, memory, blacklist, sessions, request, registered, issued, revoked>>

Die(r) ==
  /\ up' = [up EXCEPT ![r] = FALSE]
  /\ users' = [users EXCEPT ![r] = [e \in Emails |-> 0]]
  /\ memory' = [memory EXCEPT ![r] = {}]
  /\ blacklist' = [blacklist EXCEPT ![r] = {}]
  /\ request' = [q \in Requests |->
       IF request[q].replica = r THEN NoRequest ELSE request[q]]
  /\ UNCHANGED <<boots, sessions, registered, issued, revoked>>

Kill(r) == up[r] /\ Die(r)

\* A Redis command fails: the handler that awaits it takes the process along.
RedisFails(q) ==
  /\ request[q].step \in {"getting", "deleting", "saving"}
  /\ Die(request[q].replica)

-----------------------------------------------------------------------------
(* POST /auth/register and POST /auth/login.  A request that is refused    *)
(* before its first await changes nothing.                                 *)

Register(q, r, e) ==
  /\ At(q, "idle") /\ up[r]
  /\ users[r][e] = 0
  /\ registered < UserCap
  /\ registered' = registered + 1
  /\ Starts(q, [NoRequest EXCEPT !.kind = "register", !.replica = r, !.step = "hashing",
                                 !.email = e, !.user = registered + 1])
  /\ UNCHANGED <<up, boots, users, memory, blacklist, sessions, issued, revoked>>

\* The password is hashed: users.set(email, user), whoever has the email now.
Hashed(q) ==
  /\ At(q, "hashing")
  /\ users' = [users EXCEPT ![request[q].replica][request[q].email] = request[q].user]
  /\ Goes(q, "saving")
  /\ UNCHANGED <<up, boots, memory, blacklist, sessions, registered, issued, revoked>>

Login(q, r, e) ==
  /\ At(q, "idle") /\ up[r]
  /\ users[r][e] # 0
  /\ Starts(q, [NoRequest EXCEPT !.kind = "login", !.replica = r, !.step = "comparing",
                                 !.email = e, !.user = users[r][e]])
  /\ UNCHANGED <<up, boots, users, memory, blacklist, sessions, registered, issued, revoked>>

\* The password is compared, and matches or does not.
Compared(q) ==
  /\ At(q, "comparing")
  /\ Goes(q, "saving") \/ Answered(q)
  /\ UNCHANGED <<up, boots, users, memory, blacklist, sessions, registered, issued, revoked>>

\* Slip: the session is not saved under the id that is handed out.
OwnId == Len(issued) + 2

NewToken == Len(issued) + 1

\* issueTokens: the session is saved in Redis, then in memory, and the answer
\* hands out the token.
Save(q) ==
  /\ At(q, "saving")
  /\ Len(issued) < TokenCap
  /\ LET r == request[q].replica
         t == NewToken
     IN  /\ issued' = Append(issued, [user |-> request[q].user, replica |-> r,
                                      boot |-> boots[r], from |-> request[q].token])
         /\ sessions' = sessions \cup {t}
         /\ memory' = [memory EXCEPT ![r] = @ \cup {t}]
  /\ revoked' = Append(revoked, {})
  /\ Answered(q)
  /\ UNCHANGED <<up, boots, users, blacklist, registered>>

-----------------------------------------------------------------------------
(* POST /auth/refresh and POST /auth/logout.                               *)

\* Slip: the memory is cleaned only, Redis has the session until it is deleted.
RevokeUnlisted(r, t) ==
  /\ blacklist' = blacklist
  /\ memory' = [memory EXCEPT ![r] = @ \ {t}]
  /\ revoked' = [revoked EXCEPT ![t] = @ \cup {r}]

\* revoke up to its first await.
Revoke(r, t) ==
  /\ blacklist' = [blacklist EXCEPT ![r] = @ \cup {t}]
  /\ memory' = [memory EXCEPT ![r] = @ \ {t}]
  /\ revoked' = [revoked EXCEPT ![t] = @ \cup {r}]

\* get looks at this replica's blacklist and asks Redis.
Refresh(q, r, t) ==
  /\ At(q, "idle") /\ up[r]
  /\ t \notin blacklist[r]
  /\ Starts(q, [NoRequest EXCEPT !.kind = "refresh", !.replica = r, !.step = "getting",
                                 !.token = t, !.late = issued[t].replica \in revoked[t]])
  /\ UNCHANGED <<up, boots, users, memory, blacklist, sessions, registered, issued, revoked>>

\* Redis answers; the answer is on its way.
RedisGets(q) ==
  /\ At(q, "getting")
  /\ request' = [request EXCEPT ![q].step = "got",
                                ![q].found = request[q].token \in sessions]
  /\ UNCHANGED <<up, boots, users, memory, blacklist, sessions, registered, issued, revoked>>

\* Slip: the memory is not asked when Redis has nothing.
OnlyRedis(q) == request[q].found

\* get falls back on the memory of this replica.
HasSession(q) ==
  request[q].found \/ request[q].token \in memory[request[q].replica]

\* Slip: the session's user need not be a user here.
AnyUser(q) == TRUE

HasUser(q) ==
  \E e \in Emails : users[request[q].replica][e] = issued[request[q].token].user

\* No session, or nobody with the id it names: 401.
Refuse(q) ==
  /\ At(q, "got")
  /\ ~(HasSession(q) /\ HasUser(q))
  /\ Answered(q)
  /\ UNCHANGED <<up, boots, users, memory, blacklist, sessions, registered, issued, revoked>>

Accept(q) ==
  /\ At(q, "got")
  /\ HasSession(q) /\ HasUser(q)
  /\ Revoke(request[q].replica, request[q].token)
  /\ request' = [request EXCEPT ![q].step = "deleting",
                                ![q].user = issued[request[q].token].user]
  /\ UNCHANGED <<up, boots, users, sessions, registered, issued>>

Logout(q, r, t) ==
  /\ At(q, "idle") /\ up[r]
  /\ Revoke(r, t)
  /\ Starts(q, [NoRequest EXCEPT !.kind = "logout", !.replica = r, !.step = "deleting",
                                 !.token = t])
  /\ UNCHANGED <<up, boots, users, sessions, registered, issued>>

\* Redis deletes the session.  (The key blacklist:<token> that revoke sets next
\* is read nowhere.)  A refresh goes on to issue new tokens.
RedisDeletes(q) ==
  /\ At(q, "deleting")
  /\ sessions' = sessions \ {request[q].token}
  /\ IF request[q].kind = "refresh" THEN Goes(q, "saving") ELSE Answered(q)
  /\ UNCHANGED <<up, boots, users, memory, blacklist, registered, issued, revoked>>

\* Seven days later: only Redis forgets the session, nothing reads expiresAt.
Expire(t) ==
  /\ sessions' = sessions \ {t}
  /\ UNCHANGED <<up, boots, users, memory, blacklist, request, registered, issued, revoked>>

-----------------------------------------------------------------------------

Next ==
  \/ \E r \in Replicas : Boot(r) \/ Kill(r)
  \/ \E q \in Requests :
       \/ RedisFails(q) \/ Hashed(q) \/ Compared(q) \/ Save(q)
       \/ RedisGets(q) \/ Refuse(q) \/ Accept(q) \/ RedisDeletes(q)
       \/ \E r \in Replicas, e \in Emails : Register(q, r, e) \/ Login(q, r, e)
       \/ \E r \in Replicas, t \in Tokens : Refresh(q, r, t) \/ Logout(q, r, t)
  \/ \E t \in sessions : Expire(t)

Spec == Init /\ [][Next]_vars

-----------------------------------------------------------------------------
(* Properties.                                                             *)

Request ==
  [kind : {"none", "register", "login", "refresh", "logout"},
   replica : Replicas \cup {0},
   step : {"idle", "hashing", "comparing", "saving", "getting", "got", "deleting"},
   email : Emails \cup {0}, user : Nat, token : Nat, found : BOOLEAN, late : BOOLEAN]

Token == [user : Nat, replica : Replicas, boot : Nat, from : Nat]

\* Every variable has its type.
TypeOK ==
  /\ up \in [Replicas -> BOOLEAN] /\ boots \in [Replicas -> Nat]
  /\ users \in [Replicas -> [Emails -> Nat]]
  /\ memory \in [Replicas -> SUBSET Tokens] /\ blacklist \in [Replicas -> SUBSET Tokens]
  /\ sessions \subseteq Tokens
  /\ request \in [Requests -> Request]
  /\ registered \in Nat
  /\ issued \in Seq(Token)
  /\ revoked \in Seq(SUBSET Replicas) /\ Len(revoked) = Len(issued)

Accepts(q) == At(q, "got") /\ request'[q].step = "deleting"
Refuses(q) == At(q, "got") /\ request'[q].step = "idle" /\ up'[request[q].replica]

\* The process q runs in is the one that issued q's token.
AtHome(q) ==
  LET t == request[q].token
      r == request[q].replica
  IN  issued[t].replica = r /\ issued[t].boot = boots[r]

\* A refresh token is accepted by the very process that issued it and by no
\* other, neither another replica nor a restarted one, although sessions are in
\* Redis: users are not.
AcceptedAtHomeOnly == [][\A q \in Requests : Accepts(q) => AtHome(q)]_vars

\* Once the replica that issued a token has begun to revoke it, by a logout or
\* by a refresh, a refresh that comes in later is accepted nowhere, not even
\* while the session is still in Redis or after a crash before it was deleted.
RevokedAtHomeFinal == [][\A q \in Requests : Accepts(q) => ~request[q].late]_vars

\* The process that issued a token refuses it only when somebody began to
\* revoke it or its user was registered over, whatever became of it in Redis.
RefusedForReason ==
  [][\A q \in Requests :
       Refuses(q) /\ AtHome(q) => revoked[request[q].token] # {} \/ ~HasUser(q)]_vars

\* Claimed by docs/source-documentation.md: "every refresh call invalidates the
\* old token and issues a new pair".  No token is exchanged twice.
TokenExchangedOnce ==
  \A s, t \in Tokens : s # t /\ issued[s].from # 0 => issued[s].from # issued[t].from

=============================================================================

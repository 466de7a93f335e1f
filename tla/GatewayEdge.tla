---------------------------- MODULE GatewayEdge ----------------------------
(***************************************************************************)
(* What decides where the API gateways send a request and whom they let    *)
(* in: the routing table each reads once, while it starts, and the public  *)
(* key each fetches once from the auth service, in the background, while   *)
(* requests may come in already.  The auth service makes a new key pair at *)
(* every start.  A promise that is rejected with nobody awaiting it ends   *)
(* the process; the container runtime starts it again.                     *)
(***************************************************************************)
EXTENDS Integers

CONSTANTS
  Gateways,   \* the gateways
  Redis,      \* the store they share
  Default,    \* the table DEFAULT_ROUTES
  Tables,     \* the tables that are put
  Unusable,   \* those of them that cannot be attached: no list, or no target
  Unset,      \* no table
  Attempts,   \* how often the key is asked for, 10 in the code
  PairCap,    \* bound on the starts of the auth service
  PutCap,     \* bound on the tables put
  KillCap     \* bound on the crashes that come from outside

ASSUME EdgeAssumption ==
  /\ Attempts \in Nat \ {0} /\ PairCap \in Nat /\ PutCap \in Nat /\ KillCap \in Nat
  /\ Redis \notin Gateways
  /\ Unusable \subseteq Tables /\ Default \notin Unusable
  /\ Unset \notin Tables \cup {Default}

VARIABLES
  unsigned,  \* NODE_ENV is test or ALLOW_DEV_UNSIGNED_JWT is set
  inMemory,  \* NODE_ENV is test or DISABLE_REDIS is set
  redisUp,   \* Redis answers, where it is used
  routes,    \* the table at gateway:routes in each store
  pairs,     \* the key pairs the auth service has made, which are numbered
  signing,   \* the pairs that running auth processes sign with
  phase,     \* "down", "starting" up to attachProxyRoutes, then "serving"
  table,     \* the table a gateway has attached
  key,       \* publicKeyPromise of each gateway
  puts,
  edgeKills,
  accepted,  \* the pairs whose tokens this process has let in (history)
  moved      \* the table was put or expired since the gateway read it (history)

auth == <<pairs, signing>>
edgeVars == <<unsigned, inMemory, redisUp, routes, auth, phase, table, key, puts,
              edgeKills, accepted, moved>>

NoKey == [state |-> "loading", pair |-> 0, tries |-> 0, awaited |-> FALSE]

EdgeInit ==
  /\ unsigned \in BOOLEAN
  /\ inMemory \in BOOLEAN
  /\ redisUp = TRUE
  /\ routes = [s \in Gateways \cup {Redis} |-> Unset]
  /\ pairs = 0
  /\ signing = {}
  /\ phase = [g \in Gateways |-> "down"]
  /\ table = [g \in Gateways |-> Unset]
  /\ key = [g \in Gateways |-> NoKey]
  /\ puts = 0
  /\ edgeKills = 0
  /\ accepted = [g \in Gateways |-> {}]
  /\ moved = [g \in Gateways |-> FALSE]

-----------------------------------------------------------------------------
(* The store of the table.                                                 *)

\* createRedis.
Store(g) == IF inMemory THEN g ELSE Redis

Reachable == inMemory \/ redisUp

Holds(s, t) ==
  /\ routes' = [routes EXCEPT ![s] = t]
  /\ moved' = [g \in Gateways |-> moved[g] \/ Store(g) = s]

getRoutes(g) == IF routes[Store(g)] = Unset THEN Default ELSE routes[Store(g)]

\* Slip: the table is set without an expiry.
NeverExpiring(s) == FALSE

Expiring(s) == routes[s] # Unset

\* An hour after it was put the table is gone.
RouteExpires(s) ==
  /\ Expiring(s)
  /\ Holds(s, Unset)
  /\ UNCHANGED <<unsigned, inMemory, redisUp, auth, phase, table, key, puts, edgeKills, accepted>>

RedisTurns ==
  /\ ~inMemory
  /\ redisUp' = ~redisUp
  /\ UNCHANGED <<unsigned, inMemory, routes, auth, phase, table, key, puts, edgeKills,
                 accepted, moved>>

-----------------------------------------------------------------------------
(* The auth service.                                                       *)

\* readOrCreateKeys: no key files, a new pair.
AuthStarts ==
  /\ pairs < PairCap
  /\ pairs' = pairs + 1
  /\ signing' = signing \cup {pairs + 1}
  /\ UNCHANGED <<unsigned, inMemory, redisUp, routes, phase, table, key, puts, edgeKills,
                 accepted, moved>>

AuthStops(p) ==
  /\ signing' = signing \ {p}
  /\ UNCHANGED <<unsigned, inMemory, redisUp, routes, pairs, phase, table, key, puts,
                 edgeKills, accepted, moved>>

-----------------------------------------------------------------------------
(* A gateway starts.                                                       *)

Dies(g) ==
  /\ phase' = [phase EXCEPT ![g] = "down"]
  /\ table' = [table EXCEPT ![g] = Unset]
  /\ key' = [key EXCEPT ![g] = NoKey]
  /\ accepted' = [accepted EXCEPT ![g] = {}]
  /\ UNCHANGED <<unsigned, inMemory, redisUp, auth, puts>>

Boot(g) ==
  /\ phase[g] = "down"
  /\ phase' = [phase EXCEPT ![g] = "starting"]
  /\ routes' = [routes EXCEPT ![g] = Unset]
  /\ UNCHANGED <<unsigned, inMemory, redisUp, auth, table, key, puts, edgeKills, accepted, moved>>

\* Slip: the default routes are attached, whatever is configured.
AttachesDefault(g) == table' = [table EXCEPT ![g] = Default]

Attaches(g) == table' = [table EXCEPT ![g] = getRoutes(g)]

\* The rest of createApp, and listen.
Serves(g) ==
  /\ phase[g] = "starting"
  /\ Reachable /\ getRoutes(g) \notin Unusable
  /\ Attaches(g)
  /\ phase' = [phase EXCEPT ![g] = "serving"]
  /\ moved' = [moved EXCEPT ![g] = FALSE]
  /\ UNCHANGED <<unsigned, inMemory, redisUp, routes, auth, key, puts, edgeKills, accepted>>

\* createApp is rejected, for want of Redis or by a table it cannot attach, and
\* start exits.
Exits(g) ==
  /\ phase[g] = "starting"
  /\ ~(Reachable /\ getRoutes(g) \notin Unusable)
  /\ Dies(g)
  /\ UNCHANGED <<routes, edgeKills, moved>>

KillGateway(g) ==
  /\ phase[g] # "down" /\ edgeKills < KillCap
  /\ edgeKills' = edgeKills + 1
  /\ Dies(g)
  /\ UNCHANGED <<routes, moved>>

-----------------------------------------------------------------------------
(* loadPublicKey.                                                          *)

\* Slip: the loop goes on after it has the key.
FetchesOn(g) == phase[g] # "down" /\ key[g].tries < Attempts

Fetches(g) == phase[g] # "down" /\ key[g].state = "loading" /\ key[g].tries < Attempts

\* One round of the loop.
Fetch(g) ==
  /\ Fetches(g)
  /\ \/ \E p \in signing : key' = [key EXCEPT ![g].state = "loaded", ![g].pair = p]
     \/ signing = {} /\ key' = [key EXCEPT ![g].tries = @ + 1]
  /\ UNCHANGED <<unsigned, inMemory, redisUp, routes, auth, phase, table, puts, edgeKills,
                 accepted, moved>>

\* Slip: nothing ends the process.
SurvivesAlways(g) == TRUE

\* The rejection is handled when a request has awaited the promise.
Survives(g) == key[g].awaited

\* All attempts are used up: the promise becomes null where unsigned tokens are
\* allowed, and is rejected elsewhere.
GivesUp(g) ==
  /\ phase[g] # "down"
  /\ key[g].state = "loading" /\ key[g].tries = Attempts
  /\ IF unsigned \/ Survives(g)
     THEN /\ key' = [key EXCEPT ![g].state = IF unsigned THEN "null" ELSE "rejected"]
          /\ UNCHANGED <<unsigned, inMemory, redisUp, auth, phase, table, puts, accepted>>
     ELSE Dies(g)
  /\ UNCHANGED <<routes, edgeKills, moved>>

-----------------------------------------------------------------------------
(* Requests, none of them to a public route.                               *)

\* requireJwt lets in a request with a token signed with pair p; without a key
\* everybody is the user dev-user.
LetsIn(g, p) ==
  key[g].state = "null" \/ (key[g].state = "loaded" /\ key[g].pair = p)

\* A request with a token comes while the key is being loaded.
Await(g) ==
  /\ phase[g] = "serving" /\ key[g].state = "loading"
  /\ key' = [key EXCEPT ![g].awaited = TRUE]
  /\ UNCHANGED <<unsigned, inMemory, redisUp, routes, auth, phase, table, puts, edgeKills,
                 accepted, moved>>

\* A request is let in and sent on.
Verify(g, p) ==
  /\ phase[g] = "serving"
  /\ LetsIn(g, p)
  /\ accepted' = [accepted EXCEPT ![g] = @ \cup {p}]
  /\ UNCHANGED <<unsigned, inMemory, redisUp, routes, auth, phase, table, key, puts,
                 edgeKills, moved>>

\* PUT /api/v1/routes, by a super_admin with a token of pair p.
PutRoutes(g, p, t) ==
  /\ phase[g] = "serving"
  /\ LetsIn(g, p)
  /\ Reachable /\ puts < PutCap
  /\ puts' = puts + 1
  /\ Holds(Store(g), t)
  /\ UNCHANGED <<unsigned, inMemory, redisUp, auth, phase, table, key, edgeKills, accepted>>

\* GET or PUT /api/v1/routes while Redis cannot be reached: the handler is
\* rejected, and with it the process ends.
RoutesRejected(g, p) ==
  /\ phase[g] = "serving"
  /\ LetsIn(g, p)
  /\ ~Reachable
  /\ Dies(g)
  /\ UNCHANGED <<routes, edgeKills, moved>>

-----------------------------------------------------------------------------

EdgeNext ==
  \/ \E g \in Gateways :
       \/ Boot(g) \/ Serves(g) \/ Exits(g) \/ KillGateway(g)
       \/ Fetch(g) \/ GivesUp(g) \/ Await(g)
       \/ \E p \in 1 .. pairs :
            Verify(g, p) \/ RoutesRejected(g, p) \/ \E t \in Tables : PutRoutes(g, p, t)
  \/ AuthStarts
  \/ \E p \in signing : AuthStops(p)
  \/ RedisTurns
  \/ \E s \in Gateways \cup {Redis} : RouteExpires(s)

EdgeSpec == EdgeInit /\ [][EdgeNext]_edgeVars

-----------------------------------------------------------------------------
(* Properties.                                                             *)

Key ==
  [state : {"loading", "loaded", "null", "rejected"}, pair : 0 .. PairCap,
   tries : 0 .. Attempts, awaited : BOOLEAN]

\* Every variable has its type.
EdgeTypeOK ==
  /\ unsigned \in BOOLEAN /\ inMemory \in BOOLEAN /\ redisUp \in BOOLEAN
  /\ routes \in [Gateways \cup {Redis} -> Tables \cup {Unset}]
  /\ pairs \in 0 .. PairCap /\ signing \subseteq 1 .. pairs
  /\ phase \in [Gateways -> {"down", "starting", "serving"}]
  /\ table \in [Gateways -> (Tables \ Unusable) \cup {Default, Unset}]
  /\ key \in [Gateways -> Key]
  /\ puts \in 0 .. PutCap /\ edgeKills \in 0 .. KillCap
  /\ accepted \in [Gateways -> SUBSET (1 .. pairs)]
  /\ moved \in [Gateways -> BOOLEAN]

\* Whose tokens a process has let in once it lets in until it ends, although
\* the auth processes come and go and each has a pair of its own.
AcceptedStaysAccepted ==
  \A g \in Gateways : \A p \in accepted[g] : LetsIn(g, p)

\* A gateway sends requests where GET /api/v1/routes says, at every gateway of
\* its store, as long as the table has neither been put nor expired since it
\* started: only then do the two, and two gateways, differ.
TableAsReported ==
  \A g \in Gateways : phase[g] = "serving" /\ ~moved[g] => table[g] = getRoutes(g)

\* Once Redis answers for good every gateway serves again and again: a table
\* that ends every start is gone within the hour.  (It does not serve for good
\* while the auth service is away.)
ComesUp ==
  <>[]Reachable => \A g \in Gateways : []<>(phase[g] = "serving")

\* Once Redis and the auth service answer for good every gateway gets its key
\* for good, or is one that was asked for something while it was loading: that
\* keeps alive a process that may never have a key.
KeyArrives ==
  <>[](Reachable /\ signing # {}) =>
    \A g \in Gateways : <>[](key[g].state \in {"loaded", "null"}) \/ <>[]key[g].awaited

=============================================================================

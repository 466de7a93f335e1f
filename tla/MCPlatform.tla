----------------------------- MODULE MCPlatform -----------------------------
(***************************************************************************)
(* Four parts of the platform that share no state, checked one beside the  *)
(* other: at the start one of them is chosen, and only that one takes      *)
(* steps.  Any behaviour of the four together is, for the variables of a   *)
(* part, a behaviour of that part alone.                                   *)
(***************************************************************************)
EXTENDS GatewayEdge, Dashboard, UserService, DataService

VARIABLE part

Parts == {"gateways", "dashboards", "users", "data"}

parts == <<part, edgeVars, dashboardVars, userVars, dataVars>>

Init ==
  /\ part \in Parts
  /\ EdgeInit /\ DashboardInit /\ UserInit /\ DataInit
  /\ part # "gateways" => ~unsigned /\ ~inMemory

Gateways_Next ==
  part = "gateways" /\ EdgeNext /\ UNCHANGED <<part, dashboardVars, userVars, dataVars>>

Dashboards_Next ==
  part = "dashboards" /\ DashboardNext /\ UNCHANGED <<part, edgeVars, userVars, dataVars>>

Users_Next ==
  part = "users" /\ UserNext /\ UNCHANGED <<part, edgeVars, dashboardVars, dataVars>>

Data_Next ==
  part = "data" /\ DataNext /\ UNCHANGED <<part, edgeVars, dashboardVars, userVars>>

Next == Gateways_Next \/ Dashboards_Next \/ Users_Next \/ Data_Next

Spec == Init /\ [][Next]_parts

\* In the gateways the runtime starts what is down, a start and the loop of
\* loadPublicKey go on, and keys in Redis expire; Redis answers sooner than the
\* loop gives up, at least in some of infinitely many starts.
GatewaysFair ==
  /\ \A g \in Gateways :
       /\ WF_edgeVars(part = "gateways" /\ Boot(g))
       /\ SF_edgeVars(part = "gateways" /\ Serves(g))
       /\ WF_edgeVars(part = "gateways" /\ Exits(g))
       /\ WF_edgeVars(part = "gateways" /\ Fetch(g))
       /\ WF_edgeVars(part = "gateways" /\ GivesUp(g))
  /\ \A s \in Gateways \cup {Redis} : WF_edgeVars(part = "gateways" /\ RouteExpires(s))

\* A hub that consumes polls.
HubsFair == \A t \in Topics : WF_dashboardVars(part = "dashboards" /\ Emit(t))

FairSpec == Spec /\ GatewaysFair /\ HubsFair

-----------------------------------------------------------------------------

\* Every variable of every part has its type.
PlatformTypeOK ==
  part \in Parts /\ EdgeTypeOK /\ DashboardTypeOK /\ UserTypeOK /\ DataTypeOK

\* ComesUp, of the gateways that were chosen.
GatewaysComeUp == part = "gateways" => ComesUp

\* KeyArrives, of the gateways that were chosen.
KeysArrive == part = "gateways" => KeyArrives

=============================================================================

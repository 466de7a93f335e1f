---------------------------- MODULE UserService ----------------------------
(***************************************************************************)
(* The user service: profiles of several tenants in the Map store of one   *)
(* process.  Handlers never await between reading and writing it: each is  *)
(* one action, and the two that read are the operators Found and Listed.   *)
(* A restart, and every other replica, begins with an empty store.         *)
(***************************************************************************)
EXTENDS Integers

CONSTANTS
  Tenants,     \* what the header x-tenant-id of a request may say
  Limbo,       \* a tenant_id that no request comes with
  Names,       \* values of email and name, which are kept as one field
  Blank,       \* an empty or missing email or name
  ProfileCap   \* bound on the profiles created

ASSUME UserAssumption ==
  ProfileCap \in Nat /\ Limbo \notin Tenants /\ Blank \notin Names

VARIABLES
  store,    \* the Map: the profiles by the id they were created under
  created,  \* how many were created; an id is random and never comes again
  caller    \* the tenant of the request handled last (history)

userVars == <<store, created, caller>>

Keys == 1 .. created

\* The fields of a profile that the handlers look at; deleted_at is kept as
\* whether it is set, metadata, role and the two stamps are left out.
Profile ==
  [id : 1 .. ProfileCap, tenant_id : Tenants \cup {Limbo},
   name : Names \cup {Blank}, deleted_at : BOOLEAN]

\* A PATCH may come with any fields and any values.
Body ==
  {[f \in F |-> p[f]] : F \in SUBSET {"id", "tenant_id", "name", "deleted_at"}, p \in Profile}

UserInit ==
  /\ store = [k \in {} |-> 0]
  /\ created = 0
  /\ caller = Limbo

-----------------------------------------------------------------------------
(* The handlers.                                                           *)

Owned(t, k) == k \in DOMAIN store /\ store[k].tenant_id = t

\* GET /users/:id answers with the profile.
Found(t, k) == Owned(t, k) /\ ~store[k].deleted_at

\* GET /users, by the keys of the profiles in the list.
Listed(t) == {k \in DOMAIN store : Found(t, k)}

\* POST /users.  Without an email or a name: 400.
Create(t, name) ==
  /\ created < ProfileCap
  /\ name # Blank
  /\ created' = created + 1
  /\ store' = [k \in DOMAIN store \cup {created + 1} |->
       IF k = created + 1
       THEN [id |-> k, tenant_id |-> t, name |-> name, deleted_at |-> FALSE]
       ELSE store[k]]
  /\ caller' = t

Assign(user, body) ==
  [f \in DOMAIN user |-> IF f \in DOMAIN body THEN body[f] ELSE user[f]]

\* Slip: a deleted profile is patched like any other.
MayPatchDeleted(t, k) == Owned(t, k)

MayPatch(t, k) == Found(t, k)

\* PATCH /users/:id.  The fields are not checked as POST checks them.
Patch(t, k, body) ==
  /\ MayPatch(t, k)
  /\ store' = [store EXCEPT ![k] = Assign(@, body)]
  /\ caller' = t
  /\ UNCHANGED created

\* Slip: the tenant is not compared.
MayDeleteAny(t, k) == k \in DOMAIN store

MayDelete(t, k) == Owned(t, k)

\* DELETE /users/:id, which is answered again for a profile that is deleted.
Delete(t, k) ==
  /\ MayDelete(t, k)
  /\ store' = [store EXCEPT ![k].deleted_at = TRUE]
  /\ caller' = t
  /\ UNCHANGED created

\* The process ends, and is started again.
UserRestart ==
  /\ store' = [k \in {} |-> 0]
  /\ caller' = Limbo
  /\ UNCHANGED created

UserNext ==
  \/ \E t \in Tenants :
       \/ \E name \in Names \cup {Blank} : Create(t, name)
       \/ \E k \in Keys : Delete(t, k) \/ \E body \in Body : Patch(t, k, body)
  \/ UserRestart

UserSpec == UserInit /\ [][UserNext]_userVars

-----------------------------------------------------------------------------
(* Properties.                                                             *)

\* Every variable has its type.
UserTypeOK ==
  /\ created \in 0 .. ProfileCap
  /\ DOMAIN store \subseteq Keys
  /\ \A k \in DOMAIN store : store[k] \in Profile
  /\ caller \in Tenants \cup {Limbo}

\* A profile that was deleted, by DELETE or by a PATCH that set deleted_at,
\* is in no list again, whatever PATCH and DELETE come after it and whichever
\* tenant it was handed to before.
DeletedIsFinal ==
  [][\A k \in DOMAIN store :
       store[k].deleted_at => \A t \in Tenants : k \notin Listed(t)']_userVars

\* Only the tenant a profile is in changes, deletes or hands over that profile,
\* so that a profile reaches a tenant by being created there or by a PATCH of
\* the tenant that had it, and one that was put into limbo stays as it is.
ChangedByItsTenant ==
  [][\A k \in DOMAIN store \cap DOMAIN store' :
       store'[k] # store[k] => caller' = store[k].tenant_id]_userVars

=============================================================================

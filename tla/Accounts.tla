------------------------------ MODULE Accounts ------------------------------
(***************************************************************************)
(* User management (api/router.py): administrators create, change and       *)
(* delete the accounts of their tenant.  What a request may do is decided   *)
(* by the role in its access token, which was true when the token was       *)
(* issued.  Deleting reads the number of owners and deletes in one READ     *)
(* COMMITTED transaction, so another request may commit between the two.    *)
(***************************************************************************)
EXTENDS Integers, FiniteSets

CONSTANTS
  Users,       \* user ids
  First,       \* the owner the database is seeded with
  None,        \* no request
  MaxChanges   \* bound: committed changes of accounts

ASSUME AccountsAssumption == MaxChanges \in Nat /\ None \notin Users /\ First \in Users

Roles  == {"viewer", "admin", "owner"}   \* an analyst may do what a viewer may
NoRole == {"unused", "deleted"}          \* ids not given yet, and not any more

VARIABLES
  role,      \* user id -> the role of its account, or a member of NoRole
  active,    \* user -> whether it may sign in
  claim,     \* user -> the role in its access token, "unused" without one
  deleting,  \* user -> the account its request counted owners for, or None
  changes,   \* committed changes
  overtaken, \* history: an owner left between the count and the delete
  updated    \* history: the last active owner was demoted or deactivated

accountVars == <<role, active, claim, deleting, changes, overtaken, updated>>

Owners == {u \in Users : role[u] = "owner" /\ active[u]}

\* seed_saas_defaults.
AccountsInit ==
  /\ role   = [u \in Users |-> IF u = First THEN "owner" ELSE "unused"]
  /\ active = [u \in Users |-> u = First]
  /\ claim = [u \in Users |-> "unused"]
  /\ deleting = [u \in Users |-> None]
  /\ changes = 0 /\ overtaken = FALSE /\ updated = FALSE

Change == changes < MaxChanges /\ changes' = changes + 1
Administers(u) == claim[u] \in {"admin", "owner"}

\* login, and refresh after the token expired: the role is read again.
SignIn(u) ==
  /\ role[u] \in Roles /\ active[u]
  /\ claim' = [claim EXCEPT ![u] = role[u]]
  /\ UNCHANGED <<role, active, deleting, changes, overtaken, updated>>
\* ACCESS_TTL: fifteen minutes.
TokenExpires(u) ==
  /\ claim[u] # "unused" /\ deleting[u] = None
  /\ claim' = [claim EXCEPT ![u] = "unused"]
  /\ UNCHANGED <<role, active, deleting, changes, overtaken, updated>>

\* An owner leaves while one of these requests is past its count.
Undercut(requests) == overtaken \/ \E v \in requests : deleting[v] # None

\* create_user: only an owner makes an owner.
CreateUser(u, new, r) ==
  /\ Administers(u) /\ role[new] = "unused" /\ Change
  /\ r = "owner" => claim[u] = "owner"
  /\ role'   = [role EXCEPT ![new] = r]
  /\ active' = [active EXCEPT ![new] = TRUE]
  /\ UNCHANGED <<claim, deleting, overtaken, updated>>

\* update_user: a role, only an owner granting "owner"; nobody is counted.
ChangeRole(u, target, r) ==
  /\ Administers(u) /\ role[target] \in Roles \ {r} /\ Change
  /\ r = "owner" => claim[u] = "owner"
  /\ role' = [role EXCEPT ![target] = r]
  /\ updated' = (updated \/ Owners = {target})
  /\ overtaken' = IF target \in Owners THEN Undercut(Users) ELSE overtaken
  /\ UNCHANGED <<active, claim, deleting>>
\* update_user: the active flag, of others only when it is taken away.
SetActive(u, target, b) ==
  /\ Administers(u) /\ role[target] \in Roles /\ active[target] # b /\ Change
  /\ ~b => target # u
  /\ active' = [active EXCEPT ![target] = b]
  /\ updated' = (updated \/ Owners = {target})
  /\ overtaken' = IF target \in Owners THEN Undercut(Users) ELSE overtaken
  /\ UNCHANGED <<role, claim, deleting>>

\* Mutation: off by one.
CountsAny(target) == role[target] = "owner" => Cardinality(Owners) >= 1
\* "Never allow removing the last owner of a tenant."
OwnersSuffice(target) == role[target] = "owner" => Cardinality(Owners) > 1

\* delete_user, its checks...
CountOwners(u, target) ==
  /\ Administers(u) /\ deleting[u] = None
  /\ target # u /\ role[target] \in Roles
  /\ OwnersSuffice(target)
  /\ deleting' = [deleting EXCEPT ![u] = target]
  /\ UNCHANGED <<role, active, claim, changes, overtaken, updated>>
\* ...and its DELETE.
Delete(u) ==
  /\ deleting[u] # None /\ Change
  /\ deleting' = [deleting EXCEPT ![u] = None]
  /\ role'   = [role EXCEPT ![deleting[u]] = "deleted"]
  /\ active' = [active EXCEPT ![deleting[u]] = FALSE]
  /\ overtaken' = IF deleting[u] \in Owners THEN Undercut(Users \ {u}) ELSE overtaken
  /\ UNCHANGED <<claim, updated>>

AccountStep ==
  \E u \in Users :
    \/ SignIn(u) \/ TokenExpires(u) \/ Delete(u)
    \/ \E target \in Users :
         \/ CountOwners(u, target)
         \/ \E r \in Roles : CreateUser(u, target, r) \/ ChangeRole(u, target, r)
         \/ \E b \in BOOLEAN : SetActive(u, target, b)

----------------------------------------------------------------------------
(* Properties. *)

AccountsTypeOK ==
  /\ role \in [Users -> Roles \cup NoRole]
  /\ active \in [Users -> BOOLEAN]
  /\ claim \in [Users -> Roles \cup {"unused"}]
  /\ deleting \in [Users -> Users \cup {None}]
  /\ changes \in 0..MaxChanges

\* router.py:1110: "Never allow removing the last owner of a tenant".  Deleting
\* never does, whatever stale tokens the requests carry, unless an owner left
\* between the count and the delete; changing a role or deactivating may.
OwnerRemains == Owners # {} \/ overtaken \/ updated

=============================================================================

------------------------------ MODULE Membership ------------------------------
(***************************************************************************)
(* Who is a member of a tenant, and whom a login leads to                  *)
(* (models/User.js, controllers/membershipController.js, findOrCreateUser  *)
(* in controllers/authController.js, routes/user.js, routes/tenant.js).    *)
(*                                                                         *)
(* The users of one tenant: the keys of both indexes start with the        *)
(* tenant's id.  An identity is an account at a login provider; the e-mail *)
(* address it comes with may be another one at every login.                *)
(*                                                                         *)
(* A definition named ...Fault is the definition that follows it with a    *)
(* plausible mistake in it, which the properties are expected to notice.   *)
(***************************************************************************)
EXTENDS Naturals, Maps

CONSTANTS
    Identities,     \* pairs of provider and providerId
    Emails,         \* e-mail addresses, trimmed and in lower case
    None,           \* null
    MaxUsers        \* bound: users ever created

ASSUME MembershipConstants ==
    /\ MaxUsers \in Nat
    /\ None \notin Nat /\ None \notin Identities /\ None \notin Emails

VARIABLES
    tenant,         \* whether the tenant is still there
    users,          \* store.users
    emailIndex,     \* store.usersByEmailIndex
    providerIndex,  \* store.usersByProviderIndex
    drawn,          \* history: how many user ids were given out
    entered,        \* history: identity -> the user it last logged in as
    ownerLeft       \* history: an owner was removed or became something else

vars == <<tenant, users, emailIndex, providerIndex, drawn, entered, ownerLeft>>

-----------------------------------------------------------------------------
Roles == {"owner", "admin", "member"}

Statuses == {"active", "invited"}

\* What a request may ask for as a role.
Requested == Roles \cup {"other"}

UserRow ==
    [identity : Identities \cup {None}, email : Emails, role : Roles, status : Statuses]

\* findByProviderId: an index entry of a removed user leads nowhere.
FindByProviderId(i) ==
    IF i \in DOMAIN providerIndex /\ providerIndex[i] \in DOMAIN users
    THEN providerIndex[i] ELSE None

FindByEmail(e) ==
    IF e \in DOMAIN emailIndex /\ emailIndex[e] \in DOMAIN users
    THEN emailIndex[e] ELSE None

-----------------------------------------------------------------------------
(* Coming                                                                    *)

\* UserRepository.create, which throws for an address that is taken.
Create(u, identity, e, role, status) ==
    /\ drawn < MaxUsers
    /\ u = drawn + 1
    /\ e \in Emails \ DOMAIN emailIndex
    /\ drawn' = u
    /\ users' = Put(users, u, [identity |-> identity, email |-> e,
                               role |-> role, status |-> status])
    /\ emailIndex' = Put(emailIndex, e, u)
    /\ providerIndex' = IF identity = None THEN providerIndex
                        ELSE Put(providerIndex, identity, u)

LinkProviderIdentityFault(u, i) ==   \* the identity linked before is replaced
    /\ users' = Put(users, u, [users[u] EXCEPT !.identity = i, !.status = "active"])
    /\ providerIndex' = Put(Drop(providerIndex, {users[u].identity}), i, u)

\* Another identity linked before stays in the index.
LinkProviderIdentity(u, i) ==
    /\ users' = Put(users, u, [users[u] EXCEPT !.identity = i, !.status = "active"])
    /\ providerIndex' = Put(providerIndex, i, u)

FirstRole == IF DOMAIN users = {} THEN "owner" ELSE "member"

\* findOrCreateUser: by identity, else by e-mail address, else a new user.
LoginKnown(i) ==
    /\ FindByProviderId(i) # None
    /\ entered' = Put(entered, i, FindByProviderId(i))
    /\ UNCHANGED <<tenant, users, emailIndex, providerIndex, drawn, ownerLeft>>

LoginLinked(i, e) ==
    /\ FindByProviderId(i) = None
    /\ FindByEmail(e) # None
    /\ LinkProviderIdentity(FindByEmail(e), i)
    /\ entered' = Put(entered, i, FindByEmail(e))
    /\ UNCHANGED <<tenant, emailIndex, drawn, ownerLeft>>

LoginNew(i, e) ==
    /\ FindByProviderId(i) = None
    /\ FindByEmail(e) = None
    /\ Create(drawn + 1, i, e, FirstRole, "active")
    /\ entered' = Put(entered, i, drawn + 1)
    /\ UNCHANGED <<tenant, ownerLeft>>

\* The provider may leave out the address.
Login(i, e) ==
    /\ tenant
    /\ LoginKnown(i) \/ LoginLinked(i, e) \/ LoginNew(i, e)

\* inviteMember, asked for by a member or by platform support, who act in any
\* tenant without being a member of it (requirePermission).
Invite(e, role) ==
    /\ tenant
    /\ role \in Roles
    /\ FindByEmail(e) = None
    /\ Create(drawn + 1, None, e, role, "invited")
    /\ UNCHANGED <<tenant, entered, ownerLeft>>

-----------------------------------------------------------------------------
(* Changing and leaving                                                      *)

UpdateUserFault(u, role, status) ==   \* the role is taken as it comes
    /\ users' = Put(users, u, [users[u] EXCEPT !.role = role, !.status = status])
    /\ ownerLeft' = (ownerLeft \/ (users[u].role = "owner" /\ role # "owner"))
    /\ UNCHANGED <<tenant, emailIndex, providerIndex, drawn, entered>>

\* PATCH /users/:id, for the fields that are not presentation or rates.
UpdateUser(u, role, status) ==
    /\ role \in Roles
    /\ users' = Put(users, u, [users[u] EXCEPT !.role = role, !.status = status])
    /\ ownerLeft' = (ownerLeft \/ (users[u].role = "owner" /\ role # "owner"))
    /\ UNCHANGED <<tenant, emailIndex, providerIndex, drawn, entered>>

\* UserRepository.update with an address, which no route sends yet.
ChangeEmail(u, e) ==
    /\ e \notin DOMAIN emailIndex
    /\ emailIndex' = Put(Drop(emailIndex, {users[u].email}), e, u)
    /\ users' = Put(users, u, [users[u] EXCEPT !.email = e])
    /\ UNCHANGED <<tenant, providerIndex, drawn, entered, ownerLeft>>

DeleteFault(U) ==   \* the address stays taken
    /\ users' = Drop(users, U)
    /\ providerIndex' = Drop(providerIndex, {users[u].identity : u \in U})
    /\ ownerLeft' = (ownerLeft \/ \E u \in U : users[u].role = "owner")
    /\ UNCHANGED <<emailIndex, drawn, entered>>

\* UserRepository.delete, for each of U: the index entries of the address and
\* of the identity linked last.
Delete(U) ==
    /\ users' = Drop(users, U)
    /\ emailIndex' = Drop(emailIndex, {users[u].email : u \in U})
    /\ providerIndex' = Drop(providerIndex, {users[u].identity : u \in U})
    /\ ownerLeft' = (ownerLeft \/ \E u \in U : users[u].role = "owner")
    /\ UNCHANGED <<drawn, entered>>

\* DELETE /users/:id and DELETE /tenants/:idOrSlug/members/:userId.
RemoveUser(u) ==
    /\ Delete({u})
    /\ UNCHANGED tenant

\* DELETE /tenants/:idOrSlug.
DeleteTenant ==
    /\ tenant
    /\ Delete(DOMAIN users)
    /\ tenant' = FALSE

-----------------------------------------------------------------------------
Init ==
    /\ tenant = TRUE
    /\ users = << >>
    /\ emailIndex = << >>
    /\ providerIndex = << >>
    /\ drawn = 0
    /\ entered = << >>
    /\ ownerLeft = FALSE

Next ==
    \/ \E i \in Identities, e \in Emails \cup {None} : Login(i, e)
    \/ \E e \in Emails, role \in Requested : Invite(e, role)
    \/ \E u \in DOMAIN users :
          \/ RemoveUser(u)
          \/ \E role \in Requested, status \in Statuses : UpdateUser(u, role, status)
          \/ \E e \in Emails : ChangeEmail(u, e)
    \/ DeleteTenant

Spec == Init /\ [][Next]_vars

-----------------------------------------------------------------------------
(* Properties                                                                *)

\* Rows have the shape that create and update give them, and no index entry
\* names an id that was never given out.
TypeOK ==
    /\ tenant \in BOOLEAN /\ ownerLeft \in BOOLEAN
    /\ drawn \in 0..MaxUsers
    /\ DOMAIN users \subseteq 1..drawn
    /\ \A u \in DOMAIN users : users[u] \in UserRow
    /\ DOMAIN emailIndex \subseteq Emails
    /\ DOMAIN providerIndex \subseteq DOMAIN entered
    /\ \A i \in DOMAIN providerIndex : providerIndex[i] \in 1..drawn
    /\ DOMAIN entered \subseteq Identities
    /\ \A i \in DOMAIN entered : entered[i] \in 1..drawn

\* The e-mail index is exact, so that one address is one account, a pending
\* invitation is found, and the address of somebody who left is free again
\* (create, update, delete).
EmailsLeadToUsers ==
    /\ \A u \in DOMAIN users : users[u].email \in DOMAIN emailIndex
    /\ \A e \in DOMAIN emailIndex :
          emailIndex[e] \in DOMAIN users /\ users[emailIndex[e]].email = e
    /\ \A u \in DOMAIN users : emailIndex[users[u].email] = u

\* An identity leads to the account it logged in to last, whatever was linked
\* to that account since, and to nobody once that account is gone, although
\* delete leaves index entries behind (linkProviderIdentity, findByProviderId).
IdentitiesLeadHome ==
    \A i \in Identities :
       FindByProviderId(i) = IF i \in DOMAIN entered /\ entered[i] \in DOMAIN users
                             THEN entered[i] ELSE None

\* "The very first user ever created for a tenant (i.e. not via invite) is made
\* 'owner' so a newly created tenant always has someone who can manage it"
\* (controllers/authController.js:22-24): once somebody has logged in, and until an owner
\* leaves, a tenant with members has an owner, or at least an admin.  Not so
\* when its first member was invited.
NewTenantsAreManaged ==
    DOMAIN entered # {} /\ DOMAIN users # {} /\ ~ownerLeft =>
       \E u \in DOMAIN users : users[u].role \in {"owner", "admin"}
=============================================================================

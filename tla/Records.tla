------------------------------- MODULE Records --------------------------------
(***************************************************************************)
(* The tenants of one process and what they own: members, customers,       *)
(* opportunities, jobs, the papers of a job (its estimates and its time    *)
(* entries), the shelf (catalog items and estimate templates) and the      *)
(* overrides of role permissions (models/Tenant.js, Customer.js,           *)
(* Opportunity.js, Job.js, CatalogItem.js, EstimateTemplate.js,            *)
(* RolePermissions.js, and the routes of these).  The store checks no      *)
(* reference: every route and every cascade must.                          *)
(*                                                                         *)
(* What happens to one job's papers, and to one tenant's members, is in    *)
(* Estimates, TimeTracking, Messaging and Membership; here a row is what   *)
(* it belongs to.  The opportunity of a job is left out: nothing reads it. *)
(*                                                                         *)
(* A definition named ...Fault is the definition that follows it with a    *)
(* plausible mistake in it, which the properties are expected to notice.   *)
(***************************************************************************)
EXTENDS Naturals, Maps

CONSTANTS
    Slugs,      \* trimmed and in lower case
    Roles,      \* VALID_ROLES
    None,       \* null
    MaxIds      \* bound: ids ever drawn

ASSUME RecordsConstants ==
    /\ MaxIds \in Nat
    /\ None \notin Nat

VARIABLES
    tenants,        \* store.tenants: id -> slug
    slugIndex,      \* store.tenantsBySlug
    logins,         \* logins under way: the tenant their state names, and
                    \* (history) the slug it had when they were started
    members,        \* store.users: id -> tenant, and (history) the tenant
                    \* that the invitation or the login was meant for
    customers,      \* store.customers
    opportunities,  \* store.opportunities
    jobs,           \* store.jobs
    papers,         \* store.estimates and store.timeEntries
    shelf,          \* store.catalogItems and store.estimateTemplates
    overrides,      \* store.rolePermissionOverrides: its keys
    drawn           \* how many ids were drawn

office == <<tenants, slugIndex, overrides>>
work == <<customers, opportunities, jobs, papers>>
vars == <<office, work, logins, members, shelf, drawn>>

-----------------------------------------------------------------------------
\* What matters of a stage: whether the opportunity is won.
Stages == {"open", "won"}

Kinds == {"item", "template"}

\* findById of a repository: the row, unless it is another tenant's.
Has(rows, t, n) == n \in DOMAIN rows /\ rows[n].tenant = t

OfTenantFault(rows, t) == DOMAIN rows   \* the filter is forgotten

\* listByTenant.
OfTenant(rows, t) == {n \in DOMAIN rows : rows[n].tenant = t}

\* listByCustomer.
OfCustomer(rows, t, c) == {n \in OfTenant(rows, t) : rows[n].customer = c}

\* deleteAllForJob, for each of J: neither repository asks whether the job is
\* still stored.
PapersOf(t, J) == {n \in OfTenant(papers, t) : papers[n].job \in J}

\* randomUUID.
Draw(n) ==
    /\ drawn < MaxIds
    /\ n = drawn + 1
    /\ drawn' = n

-----------------------------------------------------------------------------
(* Tenants (models/Tenant.js, routes/tenant.js)                              *)

\* POST /tenants.
CreateTenant(s) ==
    /\ s \notin DOMAIN slugIndex
    /\ Draw(drawn + 1)
    /\ tenants' = Put(tenants, drawn + 1, s)
    /\ slugIndex' = Put(slugIndex, s, drawn + 1)
    /\ UNCHANGED <<overrides, work, logins, members, shelf>>

RenameTenantFault(t, s) ==   \* the old slug still leads here
    /\ s \in DOMAIN slugIndex => slugIndex[s] = t
    /\ tenants' = Put(tenants, t, s)
    /\ slugIndex' = Put(slugIndex, s, t)
    /\ UNCHANGED <<overrides, work, logins, members, shelf, drawn>>

\* PATCH /tenants/:idOrSlug, with a slug.
RenameTenant(t, s) ==
    /\ s \in DOMAIN slugIndex => slugIndex[s] = t
    /\ tenants' = Put(tenants, t, s)
    /\ slugIndex' = Put(Drop(slugIndex, {tenants[t]}), s, t)
    /\ UNCHANGED <<overrides, work, logins, members, shelf, drawn>>

\* DELETE /tenants/:idOrSlug: each repository's deleteAllForTenant, inactive
\* items included, clearAllForTenant, and the tenant itself.
DeleteTenant(t) ==
    /\ papers' = Drop(papers, OfTenant(papers, t))
    /\ jobs' = Drop(jobs, OfTenant(jobs, t))
    /\ shelf' = Drop(shelf, OfTenant(shelf, t))
    /\ opportunities' = Drop(opportunities, OfTenant(opportunities, t))
    /\ customers' = Drop(customers, OfTenant(customers, t))
    /\ members' = Drop(members, OfTenant(members, t))
    /\ overrides' = overrides \ ({t} \X Roles)
    /\ tenants' = Drop(tenants, {t})
    /\ slugIndex' = Drop(slugIndex, {tenants[t]})
    /\ UNCHANGED <<logins, drawn>>

\* PUT and DELETE /tenants/:idOrSlug/role-permissions/:role.
SetOverride(t, role) ==
    /\ overrides' = overrides \cup {<<t, role>>}
    /\ UNCHANGED <<tenants, slugIndex, work, logins, members, shelf, drawn>>

ClearOverride(t, role) ==
    /\ overrides' = overrides \ {<<t, role>>}
    /\ UNCHANGED <<tenants, slugIndex, work, logins, members, shelf, drawn>>

\* GET /auth/:provider: the tenant is resolved now, and its id is the state.
\* A login may be given up, or come back more than once.
StartLogin(t) ==
    /\ logins' = logins \cup {[tenant |-> t, slug |-> tenants[t]]}
    /\ UNCHANGED <<office, work, members, shelf, drawn>>

AddMember(t, meant) ==
    /\ Draw(drawn + 1)
    /\ members' = Put(members, drawn + 1, [tenant |-> t, meantFor |-> meant])
    /\ UNCHANGED <<office, work, logins, shelf>>

FinishLoginFault(login) ==   \* the state is trusted
    AddMember(login.tenant, login.tenant)

FinishLoginBySlugFault(login) ==   \* the state names the slug, looked up now
    /\ login.slug \in DOMAIN slugIndex
    /\ AddMember(slugIndex[login.slug], login.tenant)

\* GET /auth/:provider/callback, for somebody new: findOrCreateUser throws if
\* the tenant is gone meanwhile.
FinishLogin(login) ==
    /\ login.tenant \in DOMAIN tenants
    /\ AddMember(login.tenant, login.tenant)

\* POST /tenants/:idOrSlug/members/invite.
Invite(t) == AddMember(t, t)

\* DELETE of a member, by either route.
RemoveMember(n) ==
    /\ members' = Drop(members, {n})
    /\ UNCHANGED <<office, work, logins, shelf, drawn>>

-----------------------------------------------------------------------------
(* Customers, opportunities, jobs (routes/customer.js, opportunity.js,       *)
(* job.js; convertOpportunityToJob in controllers/estimateController.js)     *)

CreateCustomer(t) ==
    /\ Draw(drawn + 1)
    /\ customers' = Put(customers, drawn + 1, [tenant |-> t])
    /\ UNCHANGED <<office, opportunities, jobs, papers, logins, members, shelf>>

DeleteCustomerFault(t, c) ==   \* the jobs go first, so their papers stay
    /\ customers' = Drop(customers, {c})
    /\ opportunities' = Drop(opportunities, OfCustomer(opportunities, t, c))
    /\ jobs' = Drop(jobs, OfCustomer(jobs, t, c))
    /\ UNCHANGED <<office, papers, logins, members, shelf, drawn>>

\* DELETE /customers/:id.
DeleteCustomer(t, c) ==
    /\ customers' = Drop(customers, {c})
    /\ opportunities' = Drop(opportunities, OfCustomer(opportunities, t, c))
    /\ papers' = Drop(papers, PapersOf(t, OfCustomer(jobs, t, c)))
    /\ jobs' = Drop(jobs, OfCustomer(jobs, t, c))
    /\ UNCHANGED <<office, logins, members, shelf, drawn>>

CreateOpportunity(t, c, stage) ==
    /\ Has(customers, t, c)
    /\ Draw(drawn + 1)
    /\ opportunities' = Put(opportunities, drawn + 1,
                            [tenant |-> t, customer |-> c, stage |-> stage])
    /\ UNCHANGED <<office, customers, jobs, papers, logins, members, shelf>>

\* PATCH /opportunities/:id.  Null is no customer to check, and is stored.
UpdateOpportunity(t, o, c, stage) ==
    /\ c # None => Has(customers, t, c)
    /\ opportunities' = Put(opportunities, o,
                            [tenant |-> t, customer |-> c, stage |-> stage])
    /\ UNCHANGED <<office, customers, jobs, papers, logins, members, shelf, drawn>>

DeleteOpportunity(o) ==
    /\ opportunities' = Drop(opportunities, {o})
    /\ UNCHANGED <<office, customers, jobs, papers, logins, members, shelf, drawn>>

\* JobRepository.create, whose callers have checked the customer, or trust the
\* opportunity for it.
NewJob(t, c) ==
    /\ c # None
    /\ Draw(drawn + 1)
    /\ jobs' = Put(jobs, drawn + 1, [tenant |-> t, customer |-> c])

CreateJob(t, c) ==
    /\ Has(customers, t, c)
    /\ NewJob(t, c)
    /\ UNCHANGED <<office, customers, opportunities, papers, logins, members, shelf>>

Win(o) == opportunities' = [opportunities EXCEPT ![o].stage = "won"]

\* POST /opportunities/:id/convert-to-job.
ConvertToJob(t, o) ==
    /\ Win(o)
    /\ NewJob(t, opportunities[o].customer)
    /\ UNCHANGED <<office, customers, papers, logins, members, shelf>>

\* ... when the job is refused, for want of a customer or for photos that are
\* not a list: the opportunity was marked before.
ConvertRefused(o) ==
    /\ Win(o)
    /\ UNCHANGED <<office, customers, jobs, papers, logins, members, shelf, drawn>>

\* DELETE /jobs/:id.
DeleteJob(t, j) ==
    /\ jobs' = Drop(jobs, {j})
    /\ papers' = Drop(papers, PapersOf(t, {j}))
    /\ UNCHANGED <<office, customers, opportunities, logins, members, shelf, drawn>>

\* An estimate or a time entry: both are created on a job of the tenant.
AddPaper(t, j) ==
    /\ Draw(drawn + 1)
    /\ papers' = Put(papers, drawn + 1, [tenant |-> t, job |-> j])
    /\ UNCHANGED <<office, customers, opportunities, jobs, logins, members, shelf>>

DeletePaper(n) ==
    /\ papers' = Drop(papers, {n})
    /\ UNCHANGED <<office, customers, opportunities, jobs, logins, members, shelf, drawn>>

-----------------------------------------------------------------------------
(* The shelf (routes/catalogItem.js, routes/estimateTemplate.js)             *)

ShelfRow(t, kind) == [tenant |-> t, kind |-> kind, active |-> TRUE]

AddToShelf(t, kind) ==
    /\ Draw(drawn + 1)
    /\ shelf' = Put(shelf, drawn + 1, ShelfRow(t, kind))
    /\ UNCHANGED <<office, work, logins, members>>

\* seedDefaultCatalog: fresh copies at every call; one item and one template
\* stand for the starter set.
SeedDefaults(t) ==
    /\ drawn + 2 <= MaxIds
    /\ drawn' = drawn + 2
    /\ shelf' = Put(Put(shelf, drawn + 1, ShelfRow(t, "item")),
                    drawn + 2, ShelfRow(t, "template"))
    /\ UNCHANGED <<office, work, logins, members>>

SetActiveFault(n, active) ==   \* the row is replaced by the update
    /\ shelf' = Put(shelf, n, [active |-> active])
    /\ UNCHANGED <<office, work, logins, members, drawn>>

\* PATCH of either, and DELETE /catalog-items/:id, which only deactivates.
SetActive(n, active) ==
    /\ shelf' = [shelf EXCEPT ![n].active = active]
    /\ UNCHANGED <<office, work, logins, members, drawn>>

DeleteTemplate(n) ==
    /\ shelf[n].kind = "template"
    /\ shelf' = Drop(shelf, {n})
    /\ UNCHANGED <<office, work, logins, members, drawn>>

-----------------------------------------------------------------------------
Init ==
    /\ tenants = << >> /\ slugIndex = << >>
    /\ logins = {}
    /\ members = << >> /\ customers = << >> /\ opportunities = << >>
    /\ jobs = << >> /\ papers = << >> /\ shelf = << >>
    /\ overrides = {}
    /\ drawn = 0

\* Requests about the tenant itself.
OfficeRequest(t) ==
    \/ \E s \in Slugs : RenameTenant(t, s)
    \/ DeleteTenant(t)
    \/ \E role \in Roles : SetOverride(t, role) \/ ClearOverride(t, role)
    \/ StartLogin(t)
    \/ Invite(t)
    \/ \E n \in OfTenant(members, t) : RemoveMember(n)

\* Requests about its customers and their work.
WorkRequest(t) ==
    \/ CreateCustomer(t)
    \/ \E c \in OfTenant(customers, t) : DeleteCustomer(t, c)
    \/ \E c \in DOMAIN customers :
          \/ \E stage \in Stages : CreateOpportunity(t, c, stage)
          \/ CreateJob(t, c)
    \/ \E o \in OfTenant(opportunities, t) :
          \/ \E c \in DOMAIN customers \cup {None}, stage \in Stages :
                UpdateOpportunity(t, o, c, stage)
          \/ DeleteOpportunity(o)
          \/ ConvertToJob(t, o)
          \/ ConvertRefused(o)
    \/ \E j \in OfTenant(jobs, t) : DeleteJob(t, j) \/ AddPaper(t, j)
    \/ \E n \in OfTenant(papers, t) : DeletePaper(n)

ShelfRequest(t) ==
    \/ \E kind \in Kinds : AddToShelf(t, kind)
    \/ SeedDefaults(t)
    \/ \E n \in OfTenant(shelf, t) :
          \/ \E active \in BOOLEAN : SetActive(n, active)
          \/ DeleteTemplate(n)

Next ==
    \/ \E s \in Slugs : CreateTenant(s)
    \/ \E login \in logins : FinishLogin(login)
    \/ \E t \in DOMAIN tenants : OfficeRequest(t) \/ WorkRequest(t) \/ ShelfRequest(t)

Spec == Init /\ [][Next]_vars

-----------------------------------------------------------------------------
(* Properties                                                                *)

\* The rows have the shape their repositories give them, and no two rows of
\* the store have the same id.
TypeOK ==
    /\ drawn \in 0..MaxIds
    /\ tenants \in [DOMAIN tenants -> Slugs]
    /\ DOMAIN slugIndex \subseteq Slugs
    /\ logins \subseteq [tenant : 1..drawn, slug : Slugs]
    /\ overrides \subseteq (1..drawn) \X Roles
    /\ members \in [DOMAIN members -> [tenant : 1..drawn, meantFor : 1..drawn]]
    /\ customers \in [DOMAIN customers -> [tenant : 1..drawn]]
    /\ opportunities \in [DOMAIN opportunities ->
          [tenant : 1..drawn, customer : (1..drawn) \cup {None}, stage : Stages]]
    /\ jobs \in [DOMAIN jobs -> [tenant : 1..drawn, customer : 1..drawn]]
    /\ papers \in [DOMAIN papers -> [tenant : 1..drawn, job : 1..drawn]]
    /\ shelf \in [DOMAIN shelf ->
          [tenant : 1..drawn, kind : Kinds, active : BOOLEAN]]
    /\ UNION {DOMAIN tenants, DOMAIN members, DOMAIN customers,
              DOMAIN opportunities, DOMAIN jobs, DOMAIN papers,
              DOMAIN shelf} \subseteq 1..drawn

\* The slug index is exact: a slug leads to the tenant that has it now, and a
\* slug that was given up, by renaming or deleting, is free (Tenant.js).
SlugsLeadHome ==
    /\ \A t \in DOMAIN tenants :
          tenants[t] \in DOMAIN slugIndex /\ slugIndex[tenants[t]] = t
    /\ \A s \in DOMAIN slugIndex :
          slugIndex[s] \in DOMAIN tenants /\ tenants[slugIndex[s]] = s

Homed(rows) == \A n \in DOMAIN rows : rows[n].tenant \in DOMAIN tenants

TenantsStand ==
    /\ Homed(members) /\ Homed(customers) /\ Homed(opportunities)
    /\ Homed(jobs) /\ Homed(papers) /\ Homed(shelf)
    /\ \A x \in overrides : x[1] \in DOMAIN tenants

CustomersStand ==
    /\ \A n \in DOMAIN opportunities :
          opportunities[n].customer # None =>
             Has(customers, opportunities[n].tenant, opportunities[n].customer)
    /\ \A n \in DOMAIN jobs : Has(customers, jobs[n].tenant, jobs[n].customer)

PapersStand ==
    \A n \in DOMAIN papers : Has(jobs, papers[n].tenant, papers[n].job)

MembersStand ==
    \A n \in DOMAIN members : members[n].meantFor = members[n].tenant

\* No row outlives what it belongs to, and what it belongs to is the same
\* tenant's: a deleted tenant leaves nothing behind, not even through a login
\* that was under way; such a login makes a member of the tenant it was started
\* for, and never of one that has taken its slug since; an opportunity's
\* customer is there when the opportunity is converted, which is not checked
\* then (the cascades of routes/tenant.js, routes/customer.js and
\* routes/job.js; the state of routes/auth.js).
NothingDangles ==
    TenantsStand /\ MembersStand /\ CustomersStand /\ PapersStand

\* What a tenant owns.
Owned(t) ==
    [members |-> Restrict(members, OfTenant(members, t)),
     customers |-> Restrict(customers, OfTenant(customers, t)),
     opportunities |-> Restrict(opportunities, OfTenant(opportunities, t)),
     jobs |-> Restrict(jobs, OfTenant(jobs, t)),
     papers |-> Restrict(papers, OfTenant(papers, t)),
     shelf |-> Restrict(shelf, OfTenant(shelf, t)),
     overrides |-> {x \in overrides : x[1] = t}]

OneTenantChanges ==
    \A t, u \in DOMAIN tenants :
       Owned(t)' # Owned(t) /\ Owned(u)' # Owned(u) => t = u

\* No request reaches into two tenants: whatever it deletes along, the rows of
\* every other tenant stay as they are.
TenantsKeepApart == [][OneTenantChanges]_vars
===============================================================================

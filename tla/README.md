# DrainBid: a verification project

DrainBid is a multi-tenant Node/Express application for trade businesses:
customers, jobs, estimates with revision chains and public share links, time
tracking, SMS, login. This directory holds TLA+ models of its core, TLC
configurations that check them on small instances, and TLAPS proofs of the
properties that matter most.

Paths below are relative to the repository (`src/models/Estimate.js` is listed
as `src/src/models/Estimate.js` in `PROJECT.json`).

## How the program runs, and what that means for a model

- One Node process, one in-memory store (`src/models/db.js`): a `Map` per table
  and a few index maps. Nothing is persisted, so there is no crash recovery to
  model: a restart is `Init`.
- Every request handler is synchronous from the first read to the last write,
  so **a request is one atomic step**, and concurrency is the order in which
  requests of staff, customers and webhooks arrive. The one exception is
  `sendMessage`, which awaits the SMS provider between creating a message and
  recording the outcome.
- A handler that throws after it has written something leaves a partial write.
  Each such case is an action of its own (`CreateEstimateThrows`,
  `ReviseEstimateThrows`, `UpdateEstimateThrows`, `MarkSentThrows`,
  `UpdateTimesRefused`, `ConvertRefused`).
- Requests that are refused (403, 404, 409, 410) change nothing and are
  stuttering steps. Permissions only decide which requests get through, so the
  models let any request arrive at any time.

## Inventory

| Component | State | Operations | Hard about it | What makes it correct |
|---|---|---|---|---|
| Estimates (`models/Estimate.js`, `controllers/estimateController.js`, `routes/estimate.js`) | rows with status, version, chain pointers, validity; token index | create, from-template, update, revise, change order, send, approve, reject, expire, regenerate link, delete, cascade | orders of requests of several people; pointers to deleted drafts; tokens issued before validation | linear chains, one live link per estimate, only the latest version is open to a new answer, agreements are permanent |
| Public links (`routes/publicEstimate.js`) | none of its own | view, accept, reject | races with staff; retries; expiry | answers in time, recorded once |
| Acceptance ledger (`models/EstimateAcceptance.js`) | append-only events | record | idempotence decided by the estimate's status alone | agrees with the estimates |
| Jobs (`models/Job.js`, `routes/job.js`) | status, pricing model, current estimate, final price | create, update, finalize, delete with cascade | the cached current estimate | never points at a replaced version; a final number is final |
| Time tracking (`models/TimeEntry.js`, `controllers/timeTrackingController.js`, `routes/timeEntry.js`) | entries with times, rates, lock | clock in/out, force, manual, correct, delete, lock | corrections against running entries and finalization; partial writes | nobody in two places, consistent entries, closed once finalized |
| Pricing summary (`services/timeTrackingCalculations.js`) | none | summarize, build summary | what is billed in which model | the snapshot is what the entries come to |
| Estimate calculations (`services/estimateCalculations.js`, `config/estimateDefaults.js`) | none | line, totals, tax, deposit, markup projection | rounding at every step | parts add up to totals, a discount is never a surcharge |
| Messaging (`models/Message.js`, `controllers/messagingController.js`, `routes/smsWebhook.js`) | messages with status and match | send (asynchronous), inbound and status webhooks, reconcile, cascades | state used after an await; lost, repeated, reordered webhooks | a status belongs to its message; matches stay in their tenant |
| Sessions (`controllers/authController.js`, `models/RefreshToken.js`, `models/TokenBlocklist.js`, `middleware/auth.js`) | refresh tokens, blocklist | login, refresh, logout | rotation under retries; expiry boundaries | a revoked token stays revoked |
| Users, membership (`models/User.js`, `controllers/membershipController.js`) | users, two indexes | login linking, invite, update, remove | indexes updated in several places | one account per address; an identity leads to its own account or to none |
| Tenants (`models/Tenant.js`, `routes/tenant.js`) | rows, slug index | create, rename, delete with cascade over ten repositories | slugs given up and taken over; logins under way | a slug leads to the tenant that has it; a deleted tenant leaves nothing |
| Customers, opportunities (`models/Customer.js`, `models/Opportunity.js` and their routes) | rows | CRUD, cascade, conversion | cascades written call by call; a reference checked at one time and used at another | nothing refers to a deleted row, or to another tenant's |
| Catalog, templates, seed (`models/CatalogItem.js`, `models/EstimateTemplate.js`, `seed/`) | rows with an active flag | create, seed, (de)activate, delete | inactive rows are hidden from the default listing | go with their tenant; estimates keep their copies |
| Rate limiter (`middleware/rateLimit.js`) | count and end of window per key | request, reset | window boundary | bounded bursts, no refusal without cause, no lasting exclusion |
| Permissions (`models/RolePermissions.js`, `config/permissions.js`) | overrides by tenant and role | set, clear | go with their tenant | decide only which requests arrive |
| Platform administration, audit, redaction, glue | audit log | record | nothing the order of steps could break | tests reach it |

Who calls whom: the routes call controllers or repositories directly; the
estimate controller writes jobs (`setCurrentEstimate`, the step to `approved`)
and the ledger; finalizing reads the job's current estimate and all its time
entries, and writes both tables; deleting a customer or a job cascades into
estimates, time entries and messages. There are no callbacks and no timers.

The hazards this leaves, each at its line and with the properties that would
catch it, are listed in `PROJECT.json`.

## Modules

| Module | What it is |
|---|---|
| `Maps` | the store's `Map`s as functions with a changing domain: `Put` and `Drop` |
| `Estimates` | jobs, estimates, share links, acceptance ledger of one tenant |
| `MCEstimates` | its TLC instances |
| `EstimatesProofs` | its theorems |
| `TimeTracking` | jobs, time entries, default rates, finalization of one tenant |
| `MCTimeTracking` | its TLC instances |
| `TimeTrackingProofs` | its theorems |
| `Messaging` | messages, customers and jobs of several tenants, sends in flight, the SMS provider |
| `MCMessaging` | its TLC instances |
| `MessagingProofs` | its theorems |
| `LiveSessions` | what logging in promises: sessions start, end, and stay ended |
| `Sessions` | access and refresh tokens, blocklist, users; implements `LiveSessions` |
| `MCSessions` | its TLC instance |
| `SessionsProofs` | its theorems |
| `Membership` | the users of a tenant, both indexes, logins and invitations |
| `MCMembership` | its TLC instances |
| `MembershipProofs` | its theorems |
| `PricingMath` | what an estimate comes to, in cents; pure operators |
| `Billing` | `Estimates` and `TimeTracking` composed in one store, with prices from `PricingMath`; implements `TimeTracking` |
| `MCBilling` | its TLC instances, and the edits of an offer that `PricingMath` is checked on |
| `BillingProofs` | its theorems |
| `Records` | several tenants and what they own, slugs, logins under way, every cascade |
| `MCRecords` | its TLC instance |
| `RecordsProofs` | its theorems |
| `RateLimiter` | the fixed-window counter, its clients and a clock |
| `MCRateLimiter` | its TLC instance |
| `RateLimiterProofs` | its theorems |

### Estimates

`jobs`, `estimates`, `tokenIndex` and `ledger` are the four Maps of the store;
`today` is the clock that `isPastValidity` reads. Two variables are history:
`answered` holds the answers customers were told had succeeded, `drawn` counts
the ids given out. `randomUUID` is a counter: all the code relies on is that a
value is never given out twice.

One action per handler, with everything the handler calls: `ReviseEstimate` is
`createRevision` *and* `setCurrentEstimate`, `RecordApproval` is `approve`
*and* the job's step out of `estimating`, `FirstAnswer` is that *and* the
ledger entry. `IssueShareToken` writes the index before the row exists, as the
code does, which is why a refused list of line items leaves a token behind.

Abstractions: what an estimate says (line items, scope, terms, price) is one
value of `Contents`; a validity period is any number of days, also a negative one; one
the request leaves out, or that is no number, is the default period; and
`DatelessDays` are the periods so long that the date overflows, where
`computeValidUntil` throws: after the token was indexed, after an edit was written
(`UpdateEstimateThrows`), or after the status became `sent` (`MarkSentThrows`).
`approvedBy`/`rejectedBy` become `decidedBy` (staff or
customer); `viewedAt`/`viewCount` become `shown`, what the link last showed.
`Expire` is a repository operation no route calls yet; it is included.
Creating from a template is `CreateEstimate` with other contents.

### TimeTracking

`jobs` keeps the pricing model, `snapshots` is `finalizedAt` with
`finalPriceSnapshot`, `entries` the time entries, `rates` the members' default
rates. What the estimate workflow does to a job's price is one action,
`QuoteChanges`, which may set the quote to anything at any time: whatever holds
here holds for every estimate workflow. The workflow there really is comes with
`Billing`.

The clock counts half minutes, the coarsest unit in which `Math.round` in
`minutesBetween` shows. Prices are minutes times rate, exact, before the
rounding to cents. `hourlyCost` is snapshotted, overridden and summed exactly
like `billingRate`, so one rate stands for both.

Outside the model: a platform admin who clocks in while impersonating a tenant
(a user without a row, whose rates are null); a wall clock that is set back;
overlapping manual entries are allowed, as in the code.

### Messaging

`sendMessage` is cut in two at its `await`: `SendMessage` is what runs before
it, `SendAnswered` and `SendFailed` are the two ways it resumes. In between the
send is an entry of `calls`, and any other request may run: the message, its
customer and its tenant may be gone when it resumes, and the two updates then
find no row and do nothing.

The provider is an environment. `ProviderTakes` gives a message its provider
id; whether the answer reaches the program is another step, so a text may be
taken and still be recorded as failed. Once `ProviderReports` has emitted a
status, the webhook may arrive any number of times, in any order, before the
send is answered, or never.

Abstractions: a phone number is its last ten digits, the part `findAllByPhone`
compares; all providers share one id space; the provider's id of an inbound
text is left out, as no status report names it. `attached` is history: what an
admin reconciled. Rate limits decide which webhooks get through and are left out.
So are signatures: every status report is assumed to be the provider's own. The
code makes sure of that only when `SMS_WEBHOOK_STRICT_VERIFICATION` is set; by
default an unverified webhook is processed with a warning (`routes/smsWebhook.js:15-21`).

### Sessions

The two tokens of a pair have one number. `refreshTokens` and `blocklist` are
the Maps of the store; `accessTokens` are the JWTs, which only their holders
keep: any of them may be presented at any time, so a retry after a lost
response, a second tab and an old device are all the same nondeterministic
choice. `session` (in a refresh row), `drawn`, `loggedOut` and `cut` are
history; `session` is the login a pair comes from.

The clock counts half seconds, because the two expiries are compared
differently: `jwt.verify` compares whole seconds, rounded down, while refresh
rows and blocklist entries are compared in milliseconds. `isRevoked` drops an
entry it finds expired; as `requireAuth` verifies the token first, that never
happens to an entry that still matters, which is what `LoggedOutTokensStayOut`
is about.

`LiveSessions` is the abstract specification: a set of live sessions, each with
its user, that grows by a login and otherwise only shrinks. The refinement
mapping takes the sessions of the refresh tokens that could be exchanged now;
time, revocation and removal all come out as `End`, a refresh as a stutter.

Outside the model: the tokens issued to a platform admin who impersonates a
tenant, which have no refresh token; the tenant check of `requireAuth`, as the
model is of one tenant; users created after the start.

### Membership

`users`, `emailIndex` and `providerIndex` are the three Maps of the store, for
one tenant (the keys of the indexes start with its id). A login is
`findOrCreateUser`, one action for each way it can end: the identity is known,
its address is, or neither. `entered` (whom an identity last logged in as),
`drawn` and `ownerLeft` are history. The provider may report another address
for the same identity at every login, or none.

`delete` removes the index entry of the identity that was linked last and leaves
the others; `findByProviderId` then finds an id without a user, which is as good
as finding nothing. That this is always so, and that the entry that is removed
is never somebody else's, is `IdentitiesLeadHome`.

`ChangeEmail` is the part of `User.update` that no route uses yet. Requests are
not limited to members: platform support acts in a tenant without being a
member of it (`requirePermission`).

### PricingMath and Billing

`PricingMath` translates `calculateEstimateTotals`, `calculateDeposit`,
`projectMarkupChange`, the labor split of `buildJobPricingSummary` and
`normalizeLineItem`. Money is in cents, quantities in hundredths, percentages
in hundredths of a percent; `Round2` rounds a half up, as `Math.round` does,
also below zero. A sum of rounded amounts is a sum of integers here; in the code it
is rounded once more, which only removes floating-point noise. `LineItems` and
`Offers` are what `normalizeLineItem` and `create` let through: a number is any
number, so a credit (a negative cost), a negative markup and a negative tax are
offers too, and the properties say what they need instead of excluding them.

`Billing` extends `Estimates`, whose contents become offers, and adds the variables
of `TimeTracking`, which it takes as an instance `T`: the `quote` of `TimeTracking`
is no variable any more but computed from the job's current estimate, as
`getJobPricingSummary` does at every call. Creating and deleting a job are steps
of both; every other request is a step of one. Where `TimeTracking` says that
the quote of one job may become anything, here the estimate workflow runs, and
`TimeTrackingIsKept == T!Spec` says that it never does more than that:
`TimeTracking` is the abstract specification, `Billing` implements it. The two
clocks stay independent: one counts days for validity dates, the other half minutes.

### Records

Everything the other models fix in advance: tenants come and go, take each
other's slugs, and own members, customers, opportunities, jobs, papers (a job's
estimates and time entries), a shelf (catalog items and templates) and
overrides of permissions. A row is reduced to what it belongs to. Every `Map`
has one action per route that writes it; a cascade is one action, as the
handler runs it in one go. `PapersOf` is `deleteAllForJob` of both repositories,
which look only at tenant and job id, so it does not matter to them that the
job's row is gone already.

A login is two requests, `StartLogin` and `FinishLogin`: the tenant is named
by the OAuth `state` and looked up again when the provider redirects back, by
which time it may be gone, or renamed and its slug another's. The slug it was
started under, and in a member's row the tenant the member signed in to, are
history: `NothingDangles` says that the two tenants of a member are one. `ConvertRefused` is the conversion whose job is
refused after the opportunity was marked as won. `UpdateOpportunity` may take
the customer away: a null id is not checked, and is stored.

Abstractions: the stages before `won` are one stage; a job's `opportunityId`,
which nothing reads, is left out (it dangles when the opportunity is deleted);
messages are in `Messaging`; the two collections of the starter set are
one item and one template.

### RateLimiter

`hits` is the `Map`. Beyond `Max + 1` a count is not told apart, which `>` does not do
either. `passed` and `last` are history. The code keeps expired entries for
ever, and so does the model. One limiter is modelled: each route has its own,
with a map of its own.

### Faults

A definition named `...Fault` is not part of a specification. It is the
definition that follows it with a plausible mistake in it (a dropped guard, a
forgotten cascade, ids by counting), and each is noticed by the property that
`PROJECT.json` pairs it with.

## Runs

| Run | Instance | Distinct states | What it shows |
|---|---|---|---|
| `workflow` | 1 job, 3 estimates, 1 content, 3 tokens, 2 days, 1 period without a date | 2.74 million | links, ledger, expiry, linear chains, only the latest version is open, current estimate |
| `clock` | 1 member, 2 jobs, 2 entries, rates {0, 2}, 2 instants | 405 thousand | entries consistent, nobody clocked in twice, no orphans, closed once finalized, the snapshot stands |
| `billing` | 1 job, 2 estimates, 2 offers, 2 tokens, 1 entry | 749 thousand | only the newest estimate is billed; agreements, sent estimates and final numbers stay; prices add up; `TimeTracking` is implemented |
| `messages` | 2 tenants, 2 customers, 1 phone number, 1 job, 2 messages, 1 taken by the provider | 645 thousand | no message without its customer, about a foreign job, with a status of another message, back from deletion, or guessed |
| `tokens` | 2 users, 3 pairs, access tokens of 1 s, refresh tokens of 1.5 s, 2.5 s | 1.14 million | rotation, both logouts, removal and expiry; the tokens implement `LiveSessions` |
| `members` | 3 identities, 2 addresses, 4 users | 23 thousand | the indexes agree with the users; identities lead home |
| `records` | 2 slugs, 1 role, 5 ids of any kind | 905 thousand | slugs lead home, nothing dangles, tenants keep apart |
| `rate` | 2 clients, windows of 2 requests and 2 instants, a clock from 0 to 5 | 121 thousand | bounded bursts, refusals with a cause, and being let in again |
| `every_answer_recorded` | 2 estimates, 2 contents | violated | see Findings |
| `accepted_what_was_shown` | 2 estimates, 2 contents | violated | see Findings |
| `approved_price_is_billed` | as `billing` | violated | see Findings |
| `new_tenants_are_managed` | as `members` | violated | see Findings |

Why the bounds are enough to be interesting: three estimates give a chain that
branches if it can, or two chains of one job; three tokens leave one for a regenerated link
or a refused request while two estimates are stored, and the day that passes
ends every validity date. A period without a date can be asked for anywhere in
`workflow`, for one estimate at a time (`OneIsDateless`); `billing`, where no day passes
and no price depends on a date, leaves it out. Nothing in `workflow` looks at what an estimate says, so one
content does; that agreements and sent estimates keep saying it is checked by `billing`,
with two. There, two offers of different totals and different shares of labor tell which one was
billed, the materials-only one without tax; one entry of no minutes is enough to hold up or
be locked by a finalization, as the amounts of time are the business of `clock`; so is a
member who leaves, after whom `billing` goes no further (`MembersStay`).
The arithmetic is checked on each offer and on 2,184 edits of it: up to two more lines of two
categories, credits among them, both kinds of markup and quantities, costs and markups chosen to
fall on both sides of half a cent, also below zero, two tax rates, both kinds of deposit, also one
above the total, and projected by three changes of markup. Two entries are what
one member needs to overlap with herself; two jobs let an entry be on the other
one; two half-minute instants give durations that round up and to zero. Two customers may share the one phone
number or not, in one tenant or in two; of two messages one is in flight while
the other comes in, and one report is all it takes to be early or late. Three pairs are two sessions,
one of them refreshed, or one refreshed twice; a refresh token outlives an access
token, and 2.5 s let both expire while others are still good. Three identities and two
addresses let one account have two of them while another takes an address over.
Five ids are two tenants and three rows, or one tenant and a customer with an opportunity or job and
a paper; deleted ids are used up too, so a slug changes hands. That no larger set of rows, and
no second role, makes a difference is what the proofs are for. A window of two
requests is the smallest where a burst on each side of a boundary is more than one
request; a clock from 0 to 5 holds two whole windows and half of a third.
All ids are bounded by
counters (`MaxJobs`, `MaxEstimates`, `MaxTokens`, `MaxEntries`, `MaxCustomers`,
`MaxMessages`, `MaxTaken`, `MaxPairs`,
`MaxUsers`, `MaxIds`), the clocks by `MaxDay` and `MaxTime`; the two constraints named
above are the only others. When the counters are used up and everything is answered the
model stops, which the code does not, so these runs do not check deadlock (`rate` does:
a request can always be made). The
proofs need none of the bounds to be small.

`Tenants`, `Users`, `Identities` and `Emails`, and `Contents` where it has two
model values, are symmetry sets: nothing in the code compares contents, and the others are
only compared for being the same.

Fairness: only `RateLimiter` assumes any. Nothing happens in this program unless
somebody sends a request, and no code promises that somebody will, so the
other properties are safety properties. The limiter promises something to a client who keeps asking:
`LetInAgain` says that a refusal ends with the window, however often the client
asks meanwhile. It assumes that time passes (`WF(Tick)`) and that the client
does ask again (`WF(Request(k))`), which is the client's part of the bargain, not the
code's; it speaks of refusals whose window ends before the clock's bound. Nothing
is assumed of `Reset`, which only tests call.

## Findings

Four sentences of the code's comments and documents are refuted by what the code does, each
by a run that expects the violation:

- *"Always writes a permanent entry to the EstimateAcceptance ledger"*
  (`controllers/estimateController.js:181`): not when staff recorded the
  same answer first, an approval or a rejection. The customer's own is answered with
  success and recorded nowhere (`EveryAnswerRecorded`; the trace TLC prints is one of the
  two, as both take the branch at line 198).
- *"always an honest record of what the customer actually saw and agreed to"*
  (`models/Estimate.js:244-247`): a draft's link already works, so staff can
  edit the draft between the customer's reading and accepting it
  (`AcceptedWhatWasShown`). What does hold, and is proved, is that nothing
  changes once the estimate is sent or approved.
- *"the approved estimate's price is what the customer pays, full stop"*
  (`models/Job.js:22-23`, and `README.md:318-319`): not when another estimate or a
  change order was started after the approval. Finalizing bills the job's current
  estimate, which every new draft becomes; the row's comment, *"the latest approved
  version if a change order is in flight"* (`models/Job.js:84-86`), is not what
  `reviseEstimate` does (`ApprovedPriceIsBilled`). What does hold, and is
  proved, is that the newest of the job's stored estimates is billed: `NewestIsBilled`.
- *"The very first user ever created for a tenant (i.e. not via invite) is made 'owner'
  so a newly created tenant always has someone who can manage it"*
  (`controllers/authController.js:22-24`): not when its first member was invited,
  as support can do before anybody has logged in. Invited users count as
  members, so no login is the first one any more (`NewTenantsAreManaged`).

Seen on the way, by reading and modelling, without a run:

- *"`supersededBy` points forward to the new version so the chain is easy to walk
  in both directions"* (`models/Estimate.js:299-300`): not when the new version was
  deleted as a draft. The parent stays superseded by nothing and can never be
  revised again. What does hold, and is proved, is the way back: `ChainsWalkBack`.
- *"Manually attaches a previously-unmatched inbound message"*
  (`models/Message.js:162`): whatever message it is, matched or not. Two admins
  who work from one list leave the text with the later one's customer.
- Deleting the draft a job points at leaves `currentEstimateId` naming a row that
  is gone: a fixed-price job then finalizes at a price of null.
- The final price of a time-and-materials job is billed time plus the quoted
  non-labor lines, without the estimate's tax, which the fixed price includes
  (`services/timeTrackingCalculations.js:112-121`).
- Creating a template fills a missing markup with 0, updating one stores the line
  as it came, and copying that to an estimate fills in the category's default
  (`models/EstimateTemplate.js:57`, `:92-95`).
- A cost, a markup and a tax rate may be negative: `normalizeLineItem` and `create`
  only ask for a number. For a line whose percent markup is below zero, projecting *no*
  change shows a higher total than the estimate's own, because `projectMarkupChange`
  floors the markup at 0 (`services/estimateCalculations.js:133`); for a line that costs
  less than nothing, a smaller markup makes the total larger. `ProjectsInOrder` names
  both conditions.
- An opportunity whose conversion is refused stays won, without a job
  (`controllers/estimateController.js:232-236`).

## Proofs

The theorems hold for every value of the constants that satisfies the modules'
named assumptions (`ConstantsAssumption`: the statuses the code itself sets are
among the statuses, periods that have a date are integers, and not those that have none, null is no id, content or number; `TimeConstants`: rates and
prices are integers, bounds natural numbers; `BillingConstants`: contents are offers, a
request makes offers of them; `MessagingConstants`: bounds are natural
numbers, null is none of the rest; `SessionsConstants`: lifetimes and bounds are natural
numbers; `MembershipConstants`: null is no id, identity or address;
`RecordsConstants`: null is no id; `LimiterConstants`: limit and window are
positive). TLC evaluates all eight.

**Estimates.** `TypeOK` is inductive by itself. The other invariants are not:
that a revision does not fork a chain depends on where every pointer of the
chain points, that a customer's answer is in the ledger once depends on which
statuses an answered estimate can still reach. The inductive invariant is
`IInv == TypeOK /\ Chains /\ Answers`:

- `Chains` says that every id referred to has been drawn, so that a new id is
  new everywhere (`IdsDrawn`); that each estimate has its job, that only a first
  version has nothing behind it, and that a replaced version is approved or
  superseded (`RowsLinked`); that every version but the latest stored one of its
  chain has been replaced (`OlderAreReplaced`); and, with them, `LinearHistory`,
  `ChainsWalkBack`, `CurrentIsNotOutdated` and `ShareLinksResolve`.
- `Answers` ties the ledger to the estimates: one entry per estimate, only for
  estimates a customer decided, with the statuses they may have since then, and
  in time.

`ShareLinksAlwaysResolve`, `ChainsAreLinear`, `ChainsAlwaysWalkBack`,
`CurrentIsNeverOutdated`, `OnlyLatestCanBeOpen`, `LedgerAlwaysAgrees` and `AlwaysAnsweredInTime` follow from it.
`JobsPointAtTheirLast` is inductive next to it: where an estimate is stored, its job
points at it or at one created later, because a new estimate is pointed at at once and
nothing ever moves the pointer back. The action
properties `RetiredLinksNeverReturn` and `SentEstimatesAreRecords` follow from `TypeOK` and one lemma per action. The
first needs that tokens and ids are drawn in increasing order: an index entry
without an estimate can never be met by a new estimate of the same id.

**TimeTracking.** `IInv == TypeOK /\ Clock /\ Closed`. `Clock` strengthens
`ClockedInOnce` with the order of untouched entries and the clock (none started
in the future, so a running entry ends after all the others did); `Closed` is
`EntriesHaveJobs`, `FinalizedIsClosed` and `SnapshotStands` together, because the
snapshot stands only as long as the entries behind it are locked;
`EntriesFollowTheirJobs`, which the run checks, is the first two. What a sum of time
comes to matters to none of this: two lemmas say that a job's time is the same
function before and after every step that leaves its entries alone.

**Messaging.** `IInv == TypeOK /\ Rows /\ Delivery`. `Rows` adds to the two
invariants about messages that customers and jobs belong to what exists
(`Belonging`); with it, one lemma shows what makes a cascade complete, and the
deletions of a customer and a tenant are instances of it. `Delivery` adds to
`StatusIsHonest` that a send in flight is answered with the id of its own
message (`CallsAreTaken`): without it an answer could be written to a wrong row.
That deleted messages stay deleted needs only that ids are drawn once.

**Sessions.** `IInv == TypeOK /\ Rotation /\ Blocked /\ Lifetimes /\ CutsHold`.
`OneGoodTokenPerSession` looks at tokens that could be exchanged now, and which
those are changes with the clock; `Rotation` says the same of unrevoked tokens,
which is inductive, and that a session is one user's. `Blocked` says until when
a blocklist entry lasts, `Lifetimes` that no access token outlives one lifetime
from now, and `CutsHold` fixes both at the moment of a cut. The refinement
`TokensKeepThePromise` has one lemma for every step that only ends sessions, one
for a login and one for a refresh.

**Membership.** `IInv == TypeOK /\ EmailsLeadToUsers /\ RowsAreIndexed /\
IdentitiesLeadHome`. `RowsAreIndexed` says that the identity an account was
linked to last leads to it: without it, the entry `delete` takes away could be
another account's. One lemma covers both ways an identity can come to lead to
an account (linking and creating), one every deletion.

**RateLimiter.** The invariant speaks of each client's row: `Windowed` (the last
requests that passed are those the entry counts, inside its window), `SpacedOut`
(the ones before them came before the window, and all but the last `Max` of those
before the window in front of it) and `Caused` (a refusal has its `Max` requests).
`BurstsAreBounded` follows, because of 2 * `Max` + 1 requests the first lies
at least one window behind the last.

**Records.** `IInv == TypeOK /\ SlugsLeadHome /\ NothingDangles`, with rows typed by
the ids drawn so far and one lemma that widens them when an id is drawn.
`TenantsAlwaysKeepApart` has a lemma for what leaves a tenant's slice of a table
alone (`Drop` of rows that are not its own, `Put` of another's row), and one step
per action.

**Billing.** `WorkflowIsKept` (every step is a step of `Estimates` or leaves it
alone) carries the theorems of `EstimatesProofs` over. `Together` ties the two
parts: the same jobs, the same count of drawn ids, snapshots of existing jobs only.
With it and the `IInv` of `Estimates`, `BillingImplementsTimeTracking` needs one fact
of every request about estimates: apart from the job of the estimate it is about,
no job's pointer, and no estimate such a pointer leads to, changes
(`EstimateRequestKeepsOthers`); that the pointer leads to an estimate of the
pointing job, and never to an id yet to be drawn, is `CurrentIsNotOutdated` and
`IdsDrawn`. Creating and deleting a job require the quotes to move as `T` says;
`QuotesFollowTheJobs` shows that they do so by themselves, so that requirement
hides no behaviour. `NewestVersionIsBilled` puts `CurrentIsNotOutdated` and `JobsPointAtTheirLast`
together: what a job points at, while it is stored, is its own, and nothing of the job
is newer.

`TimeTrackingHolds` takes the theorems of `TimeTrackingProofs` back: as `Billing`
implements `TimeTracking`, what is proved there of quotes that may become anything
holds of quotes that are computed. The assumption it rests on, that prices are
integers, is a theorem here (`QuotedPricesAreAmounts`).

**Prices.** A total is a fold over the lines, and the induction a proof about it needs
is not one the library's induction theorems can give, as they take an operator. Here it
is stated with a set for what is to be shown: what holds of a finite set whenever it
holds of all its proper subsets holds of all finite sets (`BySmallerSets`), because
strict inclusion is well founded on them. From that:

1. there is a fold over every finite set, and two folds of one function agree
   wherever both are defined (`SomeFold`, `OneFold`), so `SumFunctionOnSet`, which is a
   `CHOOSE`, is the sum (`SumUnfolds`);
2. any element may be taken first (`SumSplitsOff`), hence sums of sums, sums over a
   part and the rest, over the classes of a partition, and of what is nowhere more
   (`SumAdds`, `SumSplits`, `SumOfClasses`, `SumIsMonotone`);
3. rounding is the nearest cent, keeps order, and keeps a share of an amount a part of it
   (`RoundsToNearest`, `RoundIsMonotone`, `ShareIsAPart`).

`OffersAddUp` and `OffersProjectInOrder` put these together for every offer, with any
number of lines, and `NormalizedIsALineItem` says that what a request leaves behind
is a line they speak of. `PricesAlwaysAddUp` states them of whatever is stored.
Writing them down for all numbers is what brought up the negative ones: the
conditions in `AddsUp` and `ProjectsInOrder` are those without which they are false.

**Only model-checked:** the four refuted sentences and `LetInAgain`, as liveness under
fairness is out of the prover's reach. Every other property of the runs is proved.

## What is not modelled

- What an override of permissions allows: a table lookup in front of each route, which
  decides which requests arrive. The models let any request arrive.
- Redaction and the audit log: presentation, and rows no decision reads.
- The contents of catalog items and templates, names, notes, addresses, photos.
- Provider adapters, OAuth, route mounting: I/O and configuration.
- Floating point: `PricingMath` is exact in cents, so the noise that `round2`
  guards against with `Number.EPSILON` does not occur. Labor billed by time is
  minutes times rate, not rounded to cents.
- A wall clock that is set back.

`Estimates`, `TimeTracking` and `Billing` are of one tenant: every repository method filters by
`tenantId`, except the share-token lookup, the provider-id lookup, the phone-number
lookup and the refresh-token lookup; `Sessions` is of one tenant too, as a refresh
token's row names its tenant. Several tenants are in `Records` and `Messaging`.
Each component's part is in `PROJECT.json`.

## Plan

Done: `Estimates`, `TimeTracking`, `Messaging`, `Sessions` with `LiveSessions`,
`Membership`, `PricingMath`, `Billing`, `Records`, `RateLimiter`, each with its run
and its theorems. Left, in this order:

1. What `Billed` comes to in `TimeTracking`: that the price of a job's time is that of
   its completed billable entries, one by one, from the lemmas about sums.
2. An abstract specification of agreements (an offer is on the table, is agreed to once,
   and stands), implemented by `Estimates`.
3. A refinement between `Records` and the one-tenant models: that a tenant's slice
   behaves as `Membership` and `Estimates` say.
4. Larger instances of `Billing`: two jobs, and a clock that moves while the
   estimates do.

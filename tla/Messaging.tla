------------------------------- MODULE Messaging -------------------------------
(***************************************************************************)
(* Text messages between the tenants and their customers                   *)
(* (models/Message.js, controllers/messagingController.js, routes/         *)
(* message.js, smsWebhook.js, platformAdmin.js, and the cascades of        *)
(* routes/customer.js, job.js, tenant.js).                                 *)
(*                                                                         *)
(* sendMessage is the program's one asynchronous handler: it creates the   *)
(* row, awaits the SMS provider, and records the outcome.  A send between  *)
(* the two is an entry of `calls`, and any request may run meanwhile.      *)
(* Every other handler is one atomic step.                                 *)
(*                                                                         *)
(* The provider is an environment.  It may take a text and still not       *)
(* answer; its status reports arrive in any order, several times, early,   *)
(* late or never.  Every report that arrives is taken to be the provider's *)
(* own, as strict signature verification would have it.                    *)
(*                                                                         *)
(* A phone number is the last ten digits of it, which is all that          *)
(* findAllByPhone compares.  All tenants share one number of their own.    *)
(*                                                                         *)
(* A definition named ...Fault is the definition that follows it with a    *)
(* plausible mistake in it, which the properties are expected to notice.   *)
(***************************************************************************)
EXTENDS Naturals, FiniteSets, Maps

CONSTANTS
    Tenants,        \* the tenants that have registered
    Phones,         \* phone numbers
    None,           \* null
    MaxCustomers, MaxJobs, MaxMessages, MaxTaken    \* bounds: ids drawn

ASSUME MessagingConstants ==
    /\ {MaxCustomers, MaxJobs, MaxMessages, MaxTaken} \subseteq Nat
    /\ None \notin Nat \cup Tenants \cup Phones

VARIABLES
    tenants,    \* store.tenants
    customers,  \* store.customers: id -> row
    jobs,       \* store.jobs: id -> row
    messages,   \* store.messages: id -> row
    calls,      \* sends in flight: message -> what the provider answers, or None
    taken,      \* the provider: its message id -> which message, what it reported
    attached,   \* history: messages an admin attached by hand
    drawn       \* history: how many ids of each kind have been drawn

vars == <<tenants, customers, jobs, messages, calls, taken, attached, drawn>>

-----------------------------------------------------------------------------
(* Rows                                                                      *)

CustomerIds == 1..MaxCustomers
JobIds == 1..MaxJobs
MessageIds == 1..MaxMessages
ProviderIds == 1..MaxTaken

Statuses == {"queued", "sent", "delivered", "failed", "received"}
MatchStatuses == {"matched", "unmatched", "ambiguous"}
Answers == {"queued", "sent"}                   \* what send() resolves to
Reports == {"sent", "delivered", "failed"}      \* what parseStatusWebhook returns

CustomerRow == [tenantId : Tenants, phone : Phones \cup {None}]
JobRow == [tenantId : Tenants, customerId : CustomerIds]

\* The provider's id of an inbound text is never one a status report names: it
\* is None here.
MessageRow ==
    [direction : {"outbound", "inbound"},
     tenantId : Tenants \cup {None},
     customerId : CustomerIds \cup {None},
     jobId : JobIds \cup {None},
     status : Statuses,
     matchStatus : MatchStatuses,
     providerMessageId : ProviderIds \cup {None}]

TakenRow == [message : MessageIds, reports : SUBSET Reports]

-----------------------------------------------------------------------------
(* Lookups                                                                   *)

CustomersOf(t) == {c \in DOMAIN customers : customers[c].tenantId = t}
JobsOf(t) == {j \in DOMAIN jobs : jobs[j].tenantId = t}
JobsOfCustomer(c) == {j \in DOMAIN jobs : jobs[j].customerId = c}

FindAllByPhone(phone) == {c \in DOMAIN customers : customers[c].phone = phone}

ListByTenant(t) == {m \in DOMAIN messages : messages[m].tenantId = t}
ListByCustomer(t, c) == {m \in ListByTenant(t) : messages[m].customerId = c}
ListByJob(t, j) == {m \in ListByTenant(t) : messages[m].jobId = j}

FindByProviderMessageId(p) ==
    {m \in DOMAIN messages : messages[m].providerMessageId = p}

-----------------------------------------------------------------------------
(* Customers, jobs and tenants                                               *)

CreateCustomer(t, phone) ==
    LET c == drawn.customers + 1 IN
    /\ c \in CustomerIds
    /\ customers' = Put(customers, c, [tenantId |-> t, phone |-> phone])
    /\ drawn' = [drawn EXCEPT !.customers = c]
    /\ UNCHANGED <<tenants, jobs, messages, calls, taken, attached>>

ChangePhone(c, phone) ==
    /\ customers' = [customers EXCEPT ![c].phone = phone]
    /\ UNCHANGED <<tenants, jobs, messages, calls, taken, attached, drawn>>

CreateJob(c) ==
    LET j == drawn.jobs + 1 IN
    /\ j \in JobIds
    /\ jobs' = Put(jobs, j, [tenantId |-> customers[c].tenantId, customerId |-> c])
    /\ drawn' = [drawn EXCEPT !.jobs = j]
    /\ UNCHANGED <<tenants, customers, messages, calls, taken, attached>>

DeleteCustomerFault(c) ==   \* the cascade goes by the customer's jobs only
    /\ customers' = Drop(customers, {c})
    /\ jobs' = Drop(jobs, JobsOfCustomer(c))
    /\ messages' = Drop(messages, {m \in DOMAIN messages :
                                     messages[m].jobId \in JobsOfCustomer(c)})
    /\ UNCHANGED <<tenants, calls, taken, attached, drawn>>

\* The messages go by customer: one an admin attached to this customer's job
\* but to another customer stays.
DeleteCustomer(c) ==
    /\ customers' = Drop(customers, {c})
    /\ jobs' = Drop(jobs, JobsOfCustomer(c))
    /\ messages' = Drop(messages, ListByCustomer(customers[c].tenantId, c))
    /\ UNCHANGED <<tenants, calls, taken, attached, drawn>>

DeleteJob(j) ==
    /\ jobs' = Drop(jobs, {j})
    /\ messages' = Drop(messages, ListByJob(jobs[j].tenantId, j))
    /\ UNCHANGED <<tenants, customers, calls, taken, attached, drawn>>

DeleteTenant(t) ==
    /\ messages' = Drop(messages, ListByTenant(t))
    /\ jobs' = Drop(jobs, JobsOf(t))
    /\ customers' = Drop(customers, CustomersOf(t))
    /\ tenants' = tenants \ {t}
    /\ UNCHANGED <<calls, taken, attached, drawn>>

-----------------------------------------------------------------------------
(* Sending                                                                   *)

OutboundRow(c, j) ==
    [direction |-> "outbound",
     tenantId |-> customers[c].tenantId, customerId |-> c, jobId |-> j,
     status |-> "queued", matchStatus |-> "matched",
     providerMessageId |-> None]

SendMessageFault(c, j) ==   \* any job of the tenant will do
    LET m == drawn.messages + 1 IN
    /\ m \in MessageIds
    /\ customers[c].phone # None
    /\ j # None => jobs[j].tenantId = customers[c].tenantId
    /\ messages' = Put(messages, m, OutboundRow(c, j))
    /\ calls' = Put(calls, m, None)
    /\ drawn' = [drawn EXCEPT !.messages = m]
    /\ UNCHANGED <<tenants, customers, jobs, taken, attached>>

\* sendMessage up to the await.
SendMessage(c, j) ==
    LET m == drawn.messages + 1 IN
    /\ m \in MessageIds
    /\ customers[c].phone # None
    /\ j # None => jobs[j].customerId = c
    /\ messages' = Put(messages, m, OutboundRow(c, j))
    /\ calls' = Put(calls, m, None)
    /\ drawn' = [drawn EXCEPT !.messages = m]
    /\ UNCHANGED <<tenants, customers, jobs, taken, attached>>

SendAnsweredFault(m, status) ==   \* the row read before the await is stored again
    /\ calls[m] # None
    /\ \E c \in DOMAIN customers :
          messages' = Put(messages, m,
             [OutboundRow(c, None) EXCEPT !.providerMessageId = calls[m],
                                          !.status = status])
    /\ calls' = Drop(calls, {m})
    /\ UNCHANGED <<tenants, customers, jobs, taken, attached, drawn>>

\* The provider has answered: setProviderMessageId and updateStatus, each of
\* which does nothing when the message has been deleted meanwhile.
SendAnswered(m, status) ==
    /\ calls[m] # None
    /\ messages' = [x \in DOMAIN messages |->
                      IF x # m THEN messages[x]
                      ELSE [messages[x] EXCEPT !.providerMessageId = calls[m],
                                               !.status = status]]
    /\ calls' = Drop(calls, {m})
    /\ UNCHANGED <<tenants, customers, jobs, taken, attached, drawn>>

SendFailedFault(m) ==   \* the error is thrown to the caller instead
    /\ calls' = Drop(calls, {m})
    /\ UNCHANGED <<tenants, customers, jobs, messages, taken, attached, drawn>>

\* The provider refused, or its answer was lost on the way.
SendFailed(m) ==
    /\ messages' = [x \in DOMAIN messages |->
                      IF x # m THEN messages[x]
                      ELSE [messages[x] EXCEPT !.status = "failed"]]
    /\ calls' = Drop(calls, {m})
    /\ UNCHANGED <<tenants, customers, jobs, taken, attached, drawn>>

-----------------------------------------------------------------------------
(* The provider                                                              *)

ProviderTakes(m) ==
    LET p == drawn.taken + 1 IN
    /\ p \in ProviderIds
    /\ calls[m] = None
    /\ taken' = Put(taken, p, [message |-> m, reports |-> {}])
    /\ calls' = [calls EXCEPT ![m] = p]
    /\ drawn' = [drawn EXCEPT !.taken = p]
    /\ UNCHANGED <<tenants, customers, jobs, messages, attached>>

ProviderReports(p, status) ==
    /\ taken' = [taken EXCEPT ![p].reports = @ \cup {status}]
    /\ UNCHANGED <<tenants, customers, jobs, messages, calls, attached, drawn>>

-----------------------------------------------------------------------------
(* Webhooks                                                                  *)

InboundRow(t, c, match) ==
    [direction |-> "inbound", tenantId |-> t, customerId |-> c, jobId |-> None,
     status |-> "received", matchStatus |-> match, providerMessageId |-> None]

RecordInboundFault(row) ==   \* ids by counting the rows
    LET m == Cardinality(DOMAIN messages) + 1 IN
    /\ m \in MessageIds
    /\ messages' = Put(messages, m, row)
    /\ UNCHANGED <<tenants, customers, jobs, calls, taken, attached, drawn>>

RecordInbound(row) ==
    LET m == drawn.messages + 1 IN
    /\ m \in MessageIds
    /\ messages' = Put(messages, m, row)
    /\ drawn' = [drawn EXCEPT !.messages = m]
    /\ UNCHANGED <<tenants, customers, jobs, calls, taken, attached>>

InboundMatchedFault(phone) ==   \* the first of several customers
    \E c \in FindAllByPhone(phone) :
       RecordInbound(InboundRow(customers[c].tenantId, c, "matched"))

InboundMatched(phone) ==
    \E c \in FindAllByPhone(phone) :
       /\ FindAllByPhone(phone) = {c}
       /\ RecordInbound(InboundRow(customers[c].tenantId, c, "matched"))

InboundUnmatched(phone) ==
    /\ FindAllByPhone(phone) = {}
    /\ RecordInbound(InboundRow(None, None, "unmatched"))

InboundAmbiguousFault(phone) ==   \* keeps the first customer as a suggestion
    \E c, d \in FindAllByPhone(phone) :
       /\ c # d
       /\ RecordInbound(InboundRow(customers[c].tenantId, c, "ambiguous"))

InboundAmbiguous(phone) ==
    \E c, d \in FindAllByPhone(phone) :
       /\ c # d
       /\ RecordInbound(InboundRow(None, None, "ambiguous"))

HandleInboundWebhook(phone) ==
    InboundMatched(phone) \/ InboundUnmatched(phone) \/ InboundAmbiguous(phone)

HandleStatusWebhookFault(p, status) ==   \* falls back on what has no id yet
    /\ \E m \in FindByProviderMessageId(p) \cup FindByProviderMessageId(None) :
          messages' = [messages EXCEPT ![m].status = status]
    /\ UNCHANGED <<tenants, customers, jobs, calls, taken, attached, drawn>>

\* A report about an id that no message has, because it came before the send
\* was answered or after the message was deleted, changes nothing.
HandleStatusWebhook(p, status) ==
    /\ \E m \in FindByProviderMessageId(p) :
          messages' = [messages EXCEPT ![m].status = status]
    /\ UNCHANGED <<tenants, customers, jobs, calls, taken, attached, drawn>>

-----------------------------------------------------------------------------
(* Reconciling                                                               *)

\* Whatever the message is, and whether or not it is attached already; the job
\* is one of the tenant's, or stays what it was when none is given.
Reconcile(m, t, c, j) ==
    /\ customers[c].tenantId = t
    /\ messages' = [messages EXCEPT ![m].tenantId = t, ![m].customerId = c,
                                    ![m].jobId = j, ![m].matchStatus = "matched"]
    /\ attached' = attached \cup {m}
    /\ UNCHANGED <<tenants, customers, jobs, calls, taken, drawn>>

-----------------------------------------------------------------------------
Init ==
    /\ tenants = Tenants
    /\ customers = << >>
    /\ jobs = << >>
    /\ messages = << >>
    /\ calls = << >>
    /\ taken = << >>
    /\ attached = {}
    /\ drawn = [customers |-> 0, jobs |-> 0, messages |-> 0, taken |-> 0]

StaffRequest ==
    \/ \E t \in tenants :
          \/ \E phone \in Phones \cup {None} : CreateCustomer(t, phone)
          \/ DeleteTenant(t)
    \/ \E c \in DOMAIN customers :
          \/ \E phone \in Phones \cup {None} : ChangePhone(c, phone)
          \/ CreateJob(c)
          \/ DeleteCustomer(c)
          \/ \E j \in DOMAIN jobs \cup {None} : SendMessage(c, j)
    \/ \E j \in DOMAIN jobs : DeleteJob(j)

Provider ==
    \/ \E m \in DOMAIN calls :
          \/ ProviderTakes(m)
          \/ \E status \in Answers : SendAnswered(m, status)
          \/ SendFailed(m)
    \/ \E p \in DOMAIN taken, status \in Reports : ProviderReports(p, status)

Webhook ==
    \/ \E phone \in Phones : HandleInboundWebhook(phone)
    \/ \E p \in DOMAIN taken : \E status \in taken[p].reports :
          HandleStatusWebhook(p, status)

AdminRequest ==
    \E m \in DOMAIN messages, t \in tenants, c \in DOMAIN customers :
       \E j \in JobsOf(t) \cup {None, messages[m].jobId} : Reconcile(m, t, c, j)

Next == StaffRequest \/ Provider \/ Webhook \/ AdminRequest

Spec == Init /\ [][Next]_vars

-----------------------------------------------------------------------------
(* Properties                                                                *)

\* Every table holds rows of the shape the code writes (models/Message.js,
\* models/Customer.js, models/Job.js), and only drawn ids are in use.
TypeOK ==
    /\ tenants \subseteq Tenants
    /\ drawn \in [customers : 0..MaxCustomers, jobs : 0..MaxJobs,
                  messages : 0..MaxMessages, taken : 0..MaxTaken]
    /\ DOMAIN customers \subseteq 1..drawn.customers
    /\ \A c \in DOMAIN customers : customers[c] \in CustomerRow
    /\ DOMAIN jobs \subseteq 1..drawn.jobs
    /\ \A j \in DOMAIN jobs : jobs[j] \in JobRow
    /\ DOMAIN messages \subseteq 1..drawn.messages
    /\ \A m \in DOMAIN messages : messages[m] \in MessageRow
    /\ DOMAIN calls \subseteq 1..drawn.messages
    /\ \A m \in DOMAIN calls : calls[m] \in DOMAIN taken \cup {None}
    /\ DOMAIN taken = 1..drawn.taken
    /\ \A p \in DOMAIN taken : taken[p] \in TakenRow
    /\ attached \subseteq 1..drawn.messages

Listed(row) ==
    IF row.matchStatus = "matched"
    THEN /\ row.customerId \in DOMAIN customers
         /\ customers[row.customerId].tenantId = row.tenantId
         /\ row.tenantId \in tenants
    ELSE row.tenantId = None /\ row.customerId = None

\* Every message is listed somewhere and only in one place: in the tenant of a
\* customer who exists, or, while it is attached to nobody, among the unmatched
\* (listByTenant, listUnmatched).  No deletion, and no await, leaves a message
\* behind whose customer is gone.
MessagesAreListedOnce == \A m \in DOMAIN messages : Listed(messages[m])

\* A message the system itself placed is about no job, or about a job that
\* exists and is of the message's customer (sendMessage and the two cascades).
MessagesAreAboutTheirJobs ==
    \A m \in DOMAIN messages \ attached :
       LET row == messages[m] IN
       row.jobId # None =>
          /\ row.jobId \in DOMAIN jobs
          /\ jobs[row.jobId].customerId = row.customerId

Honest(m, row) ==
    LET p == row.providerMessageId IN
    /\ row.direction = "inbound" => row.status = "received" /\ p = None
    /\ m \in DOMAIN calls => row.status = "queued" /\ p = None
    /\ p # None =>
          /\ p \in DOMAIN taken
          /\ taken[p].message = m
          /\ row.status \in Answers \cup taken[p].reports
    /\ row.direction = "outbound" /\ p = None /\ m \notin DOMAIN calls =>
          row.status = "failed"

\* What a message says of its sending was said of it.  One in flight is queued;
\* one that is not carries the id under which the provider took this very
\* message, with a status the provider answered or reported of that id, or none
\* and has failed.  A text that was taken may be recorded as failed, and a later
\* report may say less than an earlier one (sendMessage, handleStatusWebhook).
StatusIsHonest == \A m \in DOMAIN messages : Honest(m, messages[m])

NoneComesBack ==
    \A m \in 1..drawn.messages : m \notin DOMAIN messages => m \notin DOMAIN messages'

\* A deleted message does not come back, whichever send was in flight when it
\* was deleted, and no new message takes its id.
DeletedMessagesStayDeleted == [][NoneComesBack]_vars

OnlyUniqueSendersMatch ==
    \A m \in DOMAIN messages' \ DOMAIN messages :
       /\ messages'[m].direction = "inbound"
       /\ messages'[m].matchStatus = "matched"
       => \A c \in DOMAIN customers :
             customers[c].phone = customers[messages'[m].customerId].phone =>
                c = messages'[m].customerId

\* A text is never guessed to be somebody's: it is attached on arrival only if
\* no other customer of any tenant could have sent it (handleInboundWebhook).
InboundIsNeverGuessed == [][OnlyUniqueSendersMatch]_vars
=============================================================================

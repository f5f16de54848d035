---------------------------- MODULE MessagingProofs ----------------------------
(***************************************************************************)
(* Messaging, proved for any number of tenants, customers, jobs, messages  *)
(* and sends in flight: every message stays with a customer who exists and *)
(* about a job that does, and no status is that of another message.        *)
(***************************************************************************)
EXTENDS Messaging, TLAPS

-----------------------------------------------------------------------------
(* The inductive invariant                                                   *)

\* Customers and jobs belong to what exists: the cascades leave no orphans.
Belonging ==
    /\ \A c \in DOMAIN customers : customers[c].tenantId \in tenants
    /\ \A j \in DOMAIN jobs :
          /\ jobs[j].customerId \in DOMAIN customers
          /\ jobs[j].tenantId = customers[jobs[j].customerId].tenantId

\* What the provider answers a send with is the id of that very message.
CallsAreTaken ==
    \A m \in DOMAIN calls : calls[m] # None => taken[calls[m]].message = m

Rows == Belonging /\ MessagesAreListedOnce /\ MessagesAreAboutTheirJobs

Delivery == CallsAreTaken /\ StatusIsHonest

IInv == TypeOK /\ Rows /\ Delivery

LEMMA Ids ==
    ASSUME TypeOK
    PROVE  /\ drawn.customers \in Nat /\ drawn.jobs \in Nat
           /\ drawn.messages \in Nat /\ drawn.taken \in Nat
           /\ MaxCustomers \in Nat /\ MaxJobs \in Nat
           /\ MaxMessages \in Nat /\ MaxTaken \in Nat
           /\ None \notin Nat /\ None \notin Tenants /\ None \notin Phones
BY MessagingConstants DEF TypeOK

LEMMA InvariantInit == Init => IInv
BY MessagingConstants
DEF Init, IInv, Rows, Delivery, TypeOK, Belonging, CallsAreTaken,
    MessagesAreListedOnce, MessagesAreAboutTheirJobs, StatusIsHonest

-----------------------------------------------------------------------------
(* Deletions                                                                 *)

\* A cascade is complete when it takes the customers of the deleted tenants,
\* the jobs and the messages of the deleted customers, and the messages about
\* the deleted jobs.
LEMMA CascadeStep ==
    ASSUME IInv, NEW C, NEW J, NEW M,
           tenants' \subseteq tenants,
           customers' = Drop(customers, C),
           jobs' = Drop(jobs, J),
           messages' = Drop(messages, M),
           UNCHANGED <<calls, taken, attached, drawn>>,
           \A c \in DOMAIN customers \ C : customers[c].tenantId \in tenants',
           \A j \in DOMAIN jobs \ J : jobs[j].customerId \notin C,
           \A m \in DOMAIN messages \ M :
              /\ messages[m].matchStatus = "matched" => messages[m].customerId \notin C
              /\ m \notin attached => messages[m].jobId \notin J
    PROVE  IInv'
<1>1. /\ DOMAIN customers' = DOMAIN customers \ C
      /\ \A c \in DOMAIN customers' : customers'[c] = customers[c]
      /\ DOMAIN jobs' = DOMAIN jobs \ J
      /\ \A j \in DOMAIN jobs' : jobs'[j] = jobs[j]
      /\ DOMAIN messages' = DOMAIN messages \ M
      /\ \A m \in DOMAIN messages' : messages'[m] = messages[m]
  BY DEF Drop, Restrict
<1>2. TypeOK'
  BY <1>1 DEF IInv, TypeOK
<1>3. Belonging'
  BY <1>1 DEF IInv, Rows, Belonging
<1>4. MessagesAreListedOnce'
  BY <1>1 DEF IInv, Rows, MessagesAreListedOnce, Listed
<1>5. MessagesAreAboutTheirJobs'
  BY <1>1 DEF IInv, Rows, MessagesAreAboutTheirJobs
<1>6. Delivery'
  BY <1>1 DEF IInv, Delivery, CallsAreTaken, StatusIsHonest, Honest
<1>7. QED
  BY <1>2, <1>3, <1>4, <1>5, <1>6 DEF IInv, Rows


LEMMA DeleteCustomerStep ==
    ASSUME IInv, NEW c \in DOMAIN customers, DeleteCustomer(c)
    PROVE  IInv'
<1> DEFINE J == JobsOfCustomer(c)
           M == ListByCustomer(customers[c].tenantId, c)
<1>1. /\ customers' = Drop(customers, {c}) /\ jobs' = Drop(jobs, J)
      /\ messages' = Drop(messages, M)
      /\ UNCHANGED <<tenants, calls, taken, attached, drawn>>
  BY DEF DeleteCustomer
<1>2. \A d \in DOMAIN customers \ {c} : customers[d].tenantId \in tenants'
  BY <1>1 DEF IInv, Rows, Belonging
<1>3. \A j \in DOMAIN jobs \ J : jobs[j].customerId \notin {c}
  BY DEF JobsOfCustomer
<1>4. ASSUME NEW m \in DOMAIN messages \ M
      PROVE  /\ messages[m].matchStatus = "matched" => messages[m].customerId \notin {c}
             /\ m \notin attached => messages[m].jobId \notin J
  <2>1. messages[m].customerId # c
    <3>1. SUFFICES ASSUME messages[m].customerId = c PROVE FALSE
      OBVIOUS
    <3>2. c # None
      BY Ids DEF IInv, TypeOK
    <3>3. messages[m].tenantId = customers[c].tenantId
      BY <3>1, <3>2 DEF IInv, Rows, MessagesAreListedOnce, Listed
    <3>4. QED
      BY <3>1, <3>3 DEF ListByCustomer, ListByTenant
  <2>2. ASSUME m \notin attached, messages[m].jobId \in J PROVE FALSE
    <3>1. messages[m].jobId # None
      BY <2>2, Ids DEF JobsOfCustomer, IInv, TypeOK
    <3>2. jobs[messages[m].jobId].customerId = messages[m].customerId
      BY <2>2, <3>1 DEF IInv, Rows, MessagesAreAboutTheirJobs
    <3>3. QED
      BY <2>1, <2>2, <3>2 DEF JobsOfCustomer
  <2>3. QED
    BY <2>1, <2>2
<1>5. QED
  BY <1>1, <1>2, <1>3, <1>4, CascadeStep, Zenon

LEMMA DeleteJobStep ==
    ASSUME IInv, NEW j \in DOMAIN jobs, DeleteJob(j)
    PROVE  IInv'
<1> DEFINE M == ListByJob(jobs[j].tenantId, j)
<1>1. /\ jobs' = Drop(jobs, {j}) /\ messages' = Drop(messages, M)
      /\ UNCHANGED <<tenants, customers, calls, taken, attached, drawn>>
  BY DEF DeleteJob
<1>2. /\ DOMAIN jobs' = DOMAIN jobs \ {j}
      /\ \A k \in DOMAIN jobs' : jobs'[k] = jobs[k]
      /\ DOMAIN messages' = DOMAIN messages \ M
      /\ \A m \in DOMAIN messages' : messages'[m] = messages[m]
  BY <1>1 DEF Drop, Restrict
<1>3. ASSUME NEW m \in DOMAIN messages', m \notin attached
      PROVE  messages[m].jobId # j
  <2>1. SUFFICES ASSUME messages[m].jobId = j PROVE FALSE
    OBVIOUS
  <2>2. j # None /\ m \in DOMAIN messages
    BY <1>2, Ids DEF IInv, TypeOK
  <2>3. jobs[j].customerId = messages[m].customerId
    BY <1>3, <2>1, <2>2 DEF IInv, Rows, MessagesAreAboutTheirJobs
  <2>4. messages[m].customerId \in DOMAIN customers /\ messages[m].customerId # None
    BY <2>3, Ids DEF IInv, Rows, Belonging, TypeOK
  <2>5. messages[m].tenantId = customers[messages[m].customerId].tenantId
    BY <2>2, <2>4 DEF IInv, Rows, MessagesAreListedOnce, Listed
  <2>6. messages[m].tenantId = jobs[j].tenantId
    BY <2>3, <2>5 DEF IInv, Rows, Belonging
  <2>7. QED
    BY <1>2, <2>1, <2>2, <2>6 DEF ListByJob, ListByTenant
<1>4. TypeOK'
  BY <1>1, <1>2 DEF IInv, TypeOK
<1>5. Belonging' /\ MessagesAreListedOnce'
  BY <1>1, <1>2 DEF IInv, Rows, Belonging, MessagesAreListedOnce, Listed
<1>6. MessagesAreAboutTheirJobs'
  <2>1. ASSUME NEW m \in DOMAIN messages', m \notin attached',
               messages'[m].jobId # None
        PROVE  /\ messages'[m].jobId \in DOMAIN jobs'
               /\ jobs'[messages'[m].jobId].customerId = messages'[m].customerId
    <3>1. m \in DOMAIN messages /\ messages'[m] = messages[m] /\ m \notin attached
      BY <1>1, <1>2, <2>1
    <3>2. /\ messages[m].jobId \in DOMAIN jobs
          /\ jobs[messages[m].jobId].customerId = messages[m].customerId
      BY <2>1, <3>1 DEF IInv, Rows, MessagesAreAboutTheirJobs
    <3>3. messages[m].jobId # j
      BY <1>3, <2>1, <3>1
    <3>4. QED
      BY <1>2, <3>1, <3>2, <3>3
  <2>2. QED
    BY <2>1 DEF MessagesAreAboutTheirJobs
<1>7. Delivery'
  BY <1>1, <1>2 DEF IInv, Delivery, CallsAreTaken, StatusIsHonest, Honest
<1>8. QED
  BY <1>4, <1>5, <1>6, <1>7 DEF IInv, Rows

LEMMA DeleteTenantStep ==
    ASSUME IInv, NEW t \in tenants, DeleteTenant(t)
    PROVE  IInv'
<1> DEFINE C == CustomersOf(t)
           J == JobsOf(t)
           M == ListByTenant(t)
<1>1. /\ customers' = Drop(customers, C) /\ jobs' = Drop(jobs, J)
      /\ messages' = Drop(messages, M) /\ tenants' = tenants \ {t}
      /\ UNCHANGED <<calls, taken, attached, drawn>>
  BY DEF DeleteTenant
<1>2. \A c \in DOMAIN customers \ C : customers[c].tenantId \in tenants'
  BY <1>1 DEF IInv, Rows, Belonging, CustomersOf
<1>3. \A j \in DOMAIN jobs \ J : jobs[j].customerId \notin C
  BY DEF IInv, Rows, Belonging, CustomersOf, JobsOf
<1>4. ASSUME NEW m \in DOMAIN messages \ M
      PROVE  /\ messages[m].matchStatus = "matched" => messages[m].customerId \notin C
             /\ m \notin attached => messages[m].jobId \notin J
  <2>1. messages[m].tenantId # t
    BY DEF ListByTenant
  <2>2. messages[m].customerId \notin C
    <3>1. SUFFICES ASSUME messages[m].customerId \in C PROVE FALSE
      OBVIOUS
    <3>2. messages[m].customerId # None
      BY <3>1, Ids DEF CustomersOf, IInv, TypeOK
    <3>3. QED
      BY <2>1, <3>1, <3>2 DEF CustomersOf, IInv, Rows, MessagesAreListedOnce, Listed
  <2>3. ASSUME m \notin attached, messages[m].jobId \in J PROVE FALSE
    <3>1. messages[m].jobId # None
      BY <2>3, Ids DEF JobsOf, IInv, TypeOK
    <3>2. /\ messages[m].jobId \in DOMAIN jobs
          /\ jobs[messages[m].jobId].customerId = messages[m].customerId
      BY <2>3, <3>1 DEF IInv, Rows, MessagesAreAboutTheirJobs
    <3>3. QED
      BY <2>2, <2>3, <3>2 DEF JobsOf, CustomersOf, IInv, Rows, Belonging
  <2>4. QED
    BY <2>2, <2>3
<1>5. tenants' \subseteq tenants
  BY <1>1
<1>6. QED
  BY <1>1, <1>2, <1>3, <1>4, <1>5, CascadeStep, Zenon

-----------------------------------------------------------------------------
(* Staff requests that write no message                                      *)

LEMMA CreateCustomerStep ==
    ASSUME IInv, NEW t \in tenants, NEW phone \in Phones \cup {None},
           CreateCustomer(t, phone)
    PROVE  IInv'
<1> DEFINE n == drawn.customers + 1
<1>1. /\ n \in 1..MaxCustomers /\ n \notin DOMAIN customers
      /\ drawn' = [drawn EXCEPT !.customers = n]
      /\ UNCHANGED <<tenants, jobs, messages, calls, taken, attached>>
  BY Ids DEF IInv, TypeOK, CreateCustomer, CustomerIds
<1>2. /\ DOMAIN customers' = DOMAIN customers \cup {n}
      /\ customers'[n] = [tenantId |-> t, phone |-> phone]
      /\ \A c \in DOMAIN customers : customers'[c] = customers[c]
  BY <1>1 DEF CreateCustomer, Put
<1>3. customers'[n] \in CustomerRow /\ customers'[n].tenantId = t
  BY <1>2 DEF CustomerRow, IInv, TypeOK
<1>4. TypeOK'
  BY <1>1, <1>2, <1>3, Ids DEF IInv, TypeOK
<1>5. Rows'
  BY <1>1, <1>2, <1>3
  DEF IInv, Rows, Belonging, MessagesAreListedOnce, Listed,
      MessagesAreAboutTheirJobs
<1>6. Delivery'
  BY <1>1 DEF IInv, Delivery, CallsAreTaken, StatusIsHonest, Honest
<1>7. QED
  BY <1>4, <1>5, <1>6 DEF IInv

LEMMA ChangePhoneStep ==
    ASSUME IInv, NEW c \in DOMAIN customers, NEW phone \in Phones \cup {None},
           ChangePhone(c, phone)
    PROVE  IInv'
<1>1. /\ DOMAIN customers' = DOMAIN customers
      /\ \A d \in DOMAIN customers :
            /\ customers'[d] \in CustomerRow
            /\ customers'[d].tenantId = customers[d].tenantId
      /\ UNCHANGED <<tenants, jobs, messages, calls, taken, attached, drawn>>
  BY DEF ChangePhone, IInv, TypeOK, CustomerRow
<1>2. TypeOK'
  BY <1>1 DEF IInv, TypeOK
<1>3. Rows'
  BY <1>1
  DEF IInv, Rows, Belonging, MessagesAreListedOnce, Listed,
      MessagesAreAboutTheirJobs
<1>4. Delivery'
  BY <1>1 DEF IInv, Delivery, CallsAreTaken, StatusIsHonest, Honest
<1>5. QED
  BY <1>2, <1>3, <1>4 DEF IInv

LEMMA CreateJobStep ==
    ASSUME IInv, NEW c \in DOMAIN customers, CreateJob(c)
    PROVE  IInv'
<1> DEFINE n == drawn.jobs + 1
<1>1. /\ n \in 1..MaxJobs /\ n \notin DOMAIN jobs
      /\ drawn' = [drawn EXCEPT !.jobs = n]
      /\ UNCHANGED <<tenants, customers, messages, calls, taken, attached>>
  BY Ids DEF IInv, TypeOK, CreateJob, JobIds
<1>2. /\ DOMAIN jobs' = DOMAIN jobs \cup {n}
      /\ jobs'[n] = [tenantId |-> customers[c].tenantId, customerId |-> c]
      /\ \A j \in DOMAIN jobs : jobs'[j] = jobs[j]
  BY <1>1 DEF CreateJob, Put
<1>3. /\ jobs'[n] \in JobRow /\ jobs'[n].customerId = c
      /\ jobs'[n].tenantId = customers[c].tenantId
  BY <1>2, Ids DEF JobRow, CustomerRow, CustomerIds, IInv, TypeOK
<1>4. TypeOK'
  BY <1>1, <1>2, <1>3, Ids DEF IInv, TypeOK
<1>5. Rows'
  BY <1>1, <1>2, <1>3
  DEF IInv, Rows, Belonging, MessagesAreListedOnce, Listed,
      MessagesAreAboutTheirJobs
<1>6. Delivery'
  BY <1>1 DEF IInv, Delivery, CallsAreTaken, StatusIsHonest, Honest
<1>7. QED
  BY <1>4, <1>5, <1>6 DEF IInv

-----------------------------------------------------------------------------
(* New messages                                                              *)

LEMMA NewMessageId ==
    ASSUME TypeOK, drawn.messages + 1 \in MessageIds
    PROVE  /\ drawn.messages + 1 \in 1..MaxMessages
           /\ drawn.messages + 1 \notin DOMAIN messages
           /\ drawn.messages + 1 \notin DOMAIN calls
           /\ drawn.messages + 1 \notin attached
           /\ drawn.messages \in Nat
BY Ids DEF TypeOK, MessageIds

LEMMA SendMessageStep ==
    ASSUME IInv, NEW c \in DOMAIN customers, NEW j \in DOMAIN jobs \cup {None},
           SendMessage(c, j)
    PROVE  IInv'
<1> DEFINE n == drawn.messages + 1
           row == OutboundRow(c, j)
<1>1. /\ n \in 1..MaxMessages /\ n \notin DOMAIN messages
      /\ n \notin DOMAIN calls /\ n \notin attached /\ drawn.messages \in Nat
      /\ drawn' = [drawn EXCEPT !.messages = n]
      /\ UNCHANGED <<tenants, customers, jobs, taken, attached>>
      /\ j # None => jobs[j].customerId = c
  BY NewMessageId DEF IInv, SendMessage
<1>2. /\ DOMAIN messages' = DOMAIN messages \cup {n} /\ messages'[n] = row
      /\ \A m \in DOMAIN messages : messages'[m] = messages[m]
      /\ DOMAIN calls' = DOMAIN calls \cup {n} /\ calls'[n] = None
      /\ \A m \in DOMAIN calls : calls'[m] = calls[m]
  BY <1>1 DEF SendMessage, Put
<1>3. /\ row.direction = "outbound" /\ row.tenantId = customers[c].tenantId
      /\ row.customerId = c /\ row.jobId = j /\ row.status = "queued"
      /\ row.matchStatus = "matched" /\ row.providerMessageId = None
  BY DEF OutboundRow
<1>4. row \in MessageRow
  <2>1. c \in CustomerIds /\ customers[c].tenantId \in Tenants
    BY Ids DEF IInv, TypeOK, CustomerRow, CustomerIds
  <2>2. j \in JobIds \cup {None}
    BY Ids DEF IInv, TypeOK, JobIds
  <2>3. QED
    BY <2>1, <2>2 DEF OutboundRow, MessageRow, Statuses, MatchStatuses
<1>5. TypeOK'
  <2> HIDE DEF row
  <2>1. /\ drawn' \in [customers : 0..MaxCustomers, jobs : 0..MaxJobs,
                       messages : 0..MaxMessages, taken : 0..MaxTaken]
        /\ drawn'.customers = drawn.customers /\ drawn'.jobs = drawn.jobs
        /\ drawn'.messages = n /\ drawn'.taken = drawn.taken
        /\ 1..drawn.messages \subseteq 1..n /\ n \in 1..n
    BY <1>1, Ids DEF IInv, TypeOK
  <2>2. \A m \in DOMAIN messages' : messages'[m] \in MessageRow
    BY <1>2, <1>4 DEF IInv, TypeOK
  <2>3. \A m \in DOMAIN calls' : calls'[m] \in DOMAIN taken' \cup {None}
    BY <1>1, <1>2 DEF IInv, TypeOK
  <2>4. QED
    BY <1>1, <1>2, <2>1, <2>2, <2>3 DEF IInv, TypeOK
<1>6. Rows'
  <2> HIDE DEF row
  <2>1. Belonging'
    BY <1>1 DEF IInv, Rows, Belonging
  <2>2. MessagesAreListedOnce'
    BY <1>1, <1>2, <1>3 DEF IInv, Rows, Belonging, MessagesAreListedOnce, Listed
  <2>3. MessagesAreAboutTheirJobs'
    BY <1>1, <1>2, <1>3 DEF IInv, Rows, MessagesAreAboutTheirJobs
  <2>4. QED
    BY <2>1, <2>2, <2>3 DEF Rows
<1>7. Delivery'
  <2> HIDE DEF row
  <2>1. CallsAreTaken'
    BY <1>1, <1>2 DEF IInv, Delivery, CallsAreTaken
  <2>2. StatusIsHonest'
    BY <1>1, <1>2, <1>3 DEF IInv, Delivery, StatusIsHonest, Honest
  <2>3. QED
    BY <2>1, <2>2 DEF Delivery
<1>8. QED
  BY <1>5, <1>6, <1>7 DEF IInv

\* A row of HandleInboundWebhook: attached to a customer, or to nobody.
LEMMA RecordInboundStep ==
    ASSUME IInv, NEW t, NEW c, NEW match \in MatchStatuses,
           RecordInbound(InboundRow(t, c, match)),
           IF match = "matched"
           THEN c \in DOMAIN customers /\ t = customers[c].tenantId
           ELSE t = None /\ c = None
    PROVE  IInv'
<1> DEFINE n == drawn.messages + 1
           row == InboundRow(t, c, match)
<1>1. /\ n \in 1..MaxMessages /\ n \notin DOMAIN messages
      /\ n \notin DOMAIN calls /\ n \notin attached /\ drawn.messages \in Nat
      /\ drawn' = [drawn EXCEPT !.messages = n]
      /\ UNCHANGED <<tenants, customers, jobs, calls, taken, attached>>
  BY NewMessageId DEF IInv, RecordInbound
<1>2. /\ DOMAIN messages' = DOMAIN messages \cup {n} /\ messages'[n] = row
      /\ \A m \in DOMAIN messages : messages'[m] = messages[m]
  BY <1>1 DEF RecordInbound, Put
<1>3. /\ row.direction = "inbound" /\ row.tenantId = t
      /\ row.customerId = c /\ row.jobId = None /\ row.status = "received"
      /\ row.matchStatus = match /\ row.providerMessageId = None
  BY DEF InboundRow
<1>4. row \in MessageRow
  <2>1. c \in CustomerIds \cup {None} /\ t \in Tenants \cup {None}
    BY Ids DEF IInv, TypeOK, CustomerRow, CustomerIds
  <2>2. QED
    BY <2>1 DEF InboundRow, MessageRow, Statuses
<1> HIDE DEF row
<1>5. TypeOK'
  BY <1>1, <1>2, <1>4, Ids DEF IInv, TypeOK
<1>6. Rows'
  <2>1. Belonging'
    BY <1>1 DEF IInv, Rows, Belonging
  <2>2. MessagesAreListedOnce'
    BY <1>1, <1>2, <1>3 DEF IInv, Rows, Belonging, MessagesAreListedOnce, Listed
  <2>3. MessagesAreAboutTheirJobs'
    BY <1>1, <1>2, <1>3 DEF IInv, Rows, MessagesAreAboutTheirJobs
  <2>4. QED
    BY <2>1, <2>2, <2>3 DEF Rows
<1>7. Delivery'
  <2>1. CallsAreTaken'
    BY <1>1 DEF IInv, Delivery, CallsAreTaken
  <2>2. StatusIsHonest'
    BY <1>1, <1>2, <1>3 DEF IInv, Delivery, StatusIsHonest, Honest
  <2>3. QED
    BY <2>1, <2>2 DEF Delivery
<1>8. QED
  BY <1>5, <1>6, <1>7 DEF IInv

LEMMA InboundStep ==
    ASSUME IInv, NEW phone \in Phones, HandleInboundWebhook(phone)
    PROVE  IInv'
<1>1. ASSUME InboundMatched(phone) PROVE IInv'
  <2>1. PICK c \in FindAllByPhone(phone) :
           RecordInbound(InboundRow(customers[c].tenantId, c, "matched"))
    BY <1>1 DEF InboundMatched
  <2>2. c \in DOMAIN customers /\ "matched" \in MatchStatuses
    BY DEF FindAllByPhone, MatchStatuses
  <2>3. QED
    BY <2>1, <2>2, RecordInboundStep
<1>2. ASSUME InboundUnmatched(phone) PROVE IInv'
  <2>1. RecordInbound(InboundRow(None, None, "unmatched"))
    BY <1>2 DEF InboundUnmatched
  <2>2. QED
    BY <2>1, RecordInboundStep DEF MatchStatuses
<1>3. ASSUME InboundAmbiguous(phone) PROVE IInv'
  <2>1. RecordInbound(InboundRow(None, None, "ambiguous"))
    BY <1>3 DEF InboundAmbiguous
  <2>2. QED
    BY <2>1, RecordInboundStep DEF MatchStatuses
<1>4. QED
  BY <1>1, <1>2, <1>3 DEF HandleInboundWebhook

-----------------------------------------------------------------------------
(* Outcomes, reports and reconciling                                         *)

\* A step that writes to the status and the provider's id of messages and
\* leaves them where they are.
LEMMA OutcomeStep ==
    ASSUME IInv,
           UNCHANGED <<tenants, customers, jobs, taken, attached, drawn>>,
           DOMAIN messages' = DOMAIN messages,
           \A m \in DOMAIN messages :
              /\ messages'[m] \in MessageRow
              /\ messages'[m].tenantId = messages[m].tenantId
              /\ messages'[m].customerId = messages[m].customerId
              /\ messages'[m].jobId = messages[m].jobId
              /\ messages'[m].matchStatus = messages[m].matchStatus,
           DOMAIN calls' \subseteq DOMAIN calls,
           \A m \in DOMAIN calls' : calls'[m] = calls[m],
           StatusIsHonest'
    PROVE  IInv'
<1>1. TypeOK'
  BY DEF IInv, TypeOK
<1>2. Belonging'
  BY DEF IInv, Rows, Belonging
<1>3. MessagesAreListedOnce'
  BY DEF IInv, Rows, MessagesAreListedOnce, Listed
<1>4. MessagesAreAboutTheirJobs'
  BY DEF IInv, Rows, MessagesAreAboutTheirJobs
<1>5. CallsAreTaken'
  BY DEF IInv, Delivery, CallsAreTaken
<1>6. QED
  BY <1>1, <1>2, <1>3, <1>4, <1>5 DEF IInv, Rows, Delivery

\* Only a message sent from here is ever in flight.
LEMMA InFlightIsOutbound ==
    ASSUME IInv, NEW m \in DOMAIN calls, m \in DOMAIN messages
    PROVE  /\ messages[m].direction = "outbound" /\ messages[m].status = "queued"
           /\ messages[m].providerMessageId = None
BY DEF IInv, TypeOK, MessageRow, Delivery, StatusIsHonest, Honest

LEMMA SendAnsweredStep ==
    ASSUME IInv, NEW m \in DOMAIN calls, NEW status \in Answers,
           SendAnswered(m, status)
    PROVE  IInv'
<1>1. /\ calls[m] \in DOMAIN taken /\ calls[m] \in ProviderIds
      /\ calls[m] # None /\ taken[calls[m]].message = m
  <2>1. calls[m] # None /\ calls[m] \in DOMAIN taken
    BY DEF IInv, TypeOK, SendAnswered
  <2>2. calls[m] \in ProviderIds
    <3>1. DOMAIN taken = 1..drawn.taken /\ drawn.taken \in 0..MaxTaken
      BY DEF IInv, TypeOK
    <3>2. QED
      BY <2>1, <3>1, Ids DEF IInv, ProviderIds
  <2>3. QED
    BY <2>1, <2>2 DEF IInv, Delivery, CallsAreTaken
<1>2. /\ DOMAIN messages' = DOMAIN messages
      /\ \A x \in DOMAIN messages : x # m => messages'[x] = messages[x]
      /\ m \in DOMAIN messages =>
            messages'[m] = [messages[m] EXCEPT !.providerMessageId = calls[m],
                                               !.status = status]
      /\ DOMAIN calls' = DOMAIN calls \ {m}
      /\ \A x \in DOMAIN calls' : calls'[x] = calls[x]
      /\ UNCHANGED <<tenants, customers, jobs, taken, attached, drawn>>
  BY DEF SendAnswered, Drop, Restrict
<1>3. m \in DOMAIN messages =>
         /\ messages'[m] \in MessageRow
         /\ messages'[m].direction = messages[m].direction
         /\ messages'[m].tenantId = messages[m].tenantId
         /\ messages'[m].customerId = messages[m].customerId
         /\ messages'[m].jobId = messages[m].jobId
         /\ messages'[m].matchStatus = messages[m].matchStatus
         /\ messages'[m].providerMessageId = calls[m]
         /\ messages'[m].status = status
  BY <1>1, <1>2 DEF IInv, TypeOK, MessageRow, Answers, Statuses
<1>4. m \in DOMAIN messages => messages[m].direction = "outbound"
  BY InFlightIsOutbound
<1>5. StatusIsHonest'
  BY <1>1, <1>2, <1>3, <1>4 DEF IInv, Delivery, StatusIsHonest, Honest
<1>6. \A x \in DOMAIN messages :
         /\ messages'[x] \in MessageRow
         /\ messages'[x].tenantId = messages[x].tenantId
         /\ messages'[x].customerId = messages[x].customerId
         /\ messages'[x].jobId = messages[x].jobId
         /\ messages'[x].matchStatus = messages[x].matchStatus
  BY <1>2, <1>3 DEF IInv, TypeOK
<1>7. QED
  BY <1>2, <1>5, <1>6, OutcomeStep

LEMMA SendFailedStep ==
    ASSUME IInv, NEW m \in DOMAIN calls, SendFailed(m)
    PROVE  IInv'
<1>1. /\ DOMAIN messages' = DOMAIN messages
      /\ \A x \in DOMAIN messages : x # m => messages'[x] = messages[x]
      /\ m \in DOMAIN messages =>
            messages'[m] = [messages[m] EXCEPT !.status = "failed"]
      /\ DOMAIN calls' = DOMAIN calls \ {m}
      /\ \A x \in DOMAIN calls' : calls'[x] = calls[x]
      /\ UNCHANGED <<tenants, customers, jobs, taken, attached, drawn>>
  BY DEF SendFailed, Drop, Restrict
<1>2. m \in DOMAIN messages =>
         /\ messages'[m] \in MessageRow
         /\ messages'[m].direction = messages[m].direction
         /\ messages'[m].tenantId = messages[m].tenantId
         /\ messages'[m].customerId = messages[m].customerId
         /\ messages'[m].jobId = messages[m].jobId
         /\ messages'[m].matchStatus = messages[m].matchStatus
         /\ messages'[m].providerMessageId = messages[m].providerMessageId
         /\ messages'[m].status = "failed"
  BY <1>1 DEF IInv, TypeOK, MessageRow, Statuses
<1>3. m \in DOMAIN messages =>
         /\ messages[m].direction = "outbound"
         /\ messages[m].providerMessageId = None
  BY InFlightIsOutbound
<1>4. StatusIsHonest'
  BY <1>1, <1>2, <1>3 DEF IInv, Delivery, StatusIsHonest, Honest
<1>5. \A x \in DOMAIN messages :
         /\ messages'[x] \in MessageRow
         /\ messages'[x].tenantId = messages[x].tenantId
         /\ messages'[x].customerId = messages[x].customerId
         /\ messages'[x].jobId = messages[x].jobId
         /\ messages'[x].matchStatus = messages[x].matchStatus
  BY <1>1, <1>2 DEF IInv, TypeOK
<1>6. QED
  BY <1>1, <1>4, <1>5, OutcomeStep

LEMMA StatusWebhookStep ==
    ASSUME IInv, NEW p \in DOMAIN taken, NEW status \in taken[p].reports,
           HandleStatusWebhook(p, status)
    PROVE  IInv'
<1>1. PICK m \in FindByProviderMessageId(p) :
         messages' = [messages EXCEPT ![m].status = status]
  BY DEF HandleStatusWebhook
<1>2. /\ m \in DOMAIN messages /\ messages[m].providerMessageId = p
      /\ p # None /\ status \in Reports
  BY Ids DEF FindByProviderMessageId, IInv, TypeOK, TakenRow
<1>3. /\ DOMAIN messages' = DOMAIN messages
      /\ \A x \in DOMAIN messages : x # m => messages'[x] = messages[x]
      /\ messages'[m] = [messages[m] EXCEPT !.status = status]
      /\ UNCHANGED <<tenants, customers, jobs, calls, taken, attached, drawn>>
  BY <1>1, <1>2 DEF HandleStatusWebhook
<1>4. /\ messages'[m] \in MessageRow
      /\ messages'[m].direction = messages[m].direction
      /\ messages'[m].tenantId = messages[m].tenantId
      /\ messages'[m].customerId = messages[m].customerId
      /\ messages'[m].jobId = messages[m].jobId
      /\ messages'[m].matchStatus = messages[m].matchStatus
      /\ messages'[m].providerMessageId = p
      /\ messages'[m].status = status
  BY <1>2, <1>3 DEF IInv, TypeOK, MessageRow, Reports, Statuses
<1>5. StatusIsHonest'
  <2>1. /\ messages[m].direction # "inbound" /\ m \notin DOMAIN calls
        /\ taken[p].message = m
    BY <1>2 DEF IInv, Delivery, StatusIsHonest, Honest
  <2>2. /\ messages'[m].direction # "inbound" /\ m \notin DOMAIN calls'
        /\ p \in DOMAIN taken' /\ taken'[p].message = m
        /\ status \in taken'[p].reports
    BY <1>3, <1>4, <2>1
  <2>3. \A x \in DOMAIN messages : x # m => Honest(x, messages[x])'
    BY <1>3 DEF IInv, Delivery, StatusIsHonest, Honest
  <2>4. Honest(m, messages[m])'
    BY <1>2, <1>4, <2>2 DEF Honest
  <2>5. QED
    BY <1>3, <2>3, <2>4 DEF StatusIsHonest
<1>6. \A x \in DOMAIN messages :
         /\ messages'[x] \in MessageRow
         /\ messages'[x].tenantId = messages[x].tenantId
         /\ messages'[x].customerId = messages[x].customerId
         /\ messages'[x].jobId = messages[x].jobId
         /\ messages'[x].matchStatus = messages[x].matchStatus
  BY <1>2, <1>3, <1>4 DEF IInv, TypeOK
<1>7. QED
  BY <1>3, <1>5, <1>6, OutcomeStep

LEMMA ProviderTakesStep ==
    ASSUME IInv, NEW m \in DOMAIN calls, ProviderTakes(m)
    PROVE  IInv'
<1> DEFINE n == drawn.taken + 1
<1>1. /\ n \in 1..MaxTaken /\ n \notin DOMAIN taken
      /\ DOMAIN taken \cup {n} = 1..n
      /\ calls[m] = None
      /\ drawn' = [drawn EXCEPT !.taken = n]
      /\ UNCHANGED <<tenants, customers, jobs, messages, attached>>
  BY Ids DEF IInv, TypeOK, ProviderTakes, ProviderIds
<1>2. /\ DOMAIN taken' = DOMAIN taken \cup {n}
      /\ taken'[n] = [message |-> m, reports |-> {}]
      /\ \A p \in DOMAIN taken : taken'[p] = taken[p]
      /\ DOMAIN calls' = DOMAIN calls /\ calls'[m] = n
      /\ \A x \in DOMAIN calls : x # m => calls'[x] = calls[x]
  BY <1>1 DEF ProviderTakes, Put
<1>3. taken'[n] \in TakenRow /\ taken'[n].message = m
  BY <1>2, Ids DEF IInv, TypeOK, TakenRow, MessageIds
<1>4. TypeOK'
  <2>1. /\ drawn' \in [customers : 0..MaxCustomers, jobs : 0..MaxJobs,
                       messages : 0..MaxMessages, taken : 0..MaxTaken]
        /\ drawn'.customers = drawn.customers /\ drawn'.jobs = drawn.jobs
        /\ drawn'.messages = drawn.messages /\ drawn'.taken = n
    BY <1>1, Ids DEF IInv, TypeOK
  <2>2. \A x \in DOMAIN calls' : calls'[x] \in DOMAIN taken' \cup {None}
    BY <1>2 DEF IInv, TypeOK
  <2>3. \A p \in DOMAIN taken' : taken'[p] \in TakenRow
    BY <1>2, <1>3 DEF IInv, TypeOK
  <2>4. QED
    BY <1>1, <1>2, <2>1, <2>2, <2>3 DEF IInv, TypeOK
<1>5. Rows'
  BY <1>1
  DEF IInv, Rows, Belonging, MessagesAreListedOnce, Listed,
      MessagesAreAboutTheirJobs
<1>6. CallsAreTaken'
  BY <1>2, <1>3 DEF IInv, TypeOK, Delivery, CallsAreTaken
<1>7. StatusIsHonest'
  <2>1. ASSUME NEW x \in DOMAIN messages, messages[x].providerMessageId # None
        PROVE  messages[x].providerMessageId \in DOMAIN taken
    BY <2>1 DEF IInv, Delivery, StatusIsHonest, Honest
  <2>2. QED
    BY <1>1, <1>2, <2>1 DEF IInv, Delivery, StatusIsHonest, Honest
<1>8. QED
  BY <1>4, <1>5, <1>6, <1>7 DEF IInv, Delivery

LEMMA ProviderReportsStep ==
    ASSUME IInv, NEW p \in DOMAIN taken, NEW status \in Reports,
           ProviderReports(p, status)
    PROVE  IInv'
<1>1. /\ DOMAIN taken' = DOMAIN taken
      /\ \A q \in DOMAIN taken :
            /\ taken'[q] \in TakenRow
            /\ taken'[q].message = taken[q].message
            /\ taken[q].reports \subseteq taken'[q].reports
      /\ UNCHANGED <<tenants, customers, jobs, messages, calls, attached, drawn>>
  BY DEF ProviderReports, IInv, TypeOK, TakenRow
<1>2. TypeOK'
  BY <1>1 DEF IInv, TypeOK
<1>3. Rows'
  BY <1>1
  DEF IInv, Rows, Belonging, MessagesAreListedOnce, Listed,
      MessagesAreAboutTheirJobs
<1>4. CallsAreTaken'
  BY <1>1 DEF IInv, TypeOK, Delivery, CallsAreTaken
<1>5. StatusIsHonest'
  BY <1>1 DEF IInv, Delivery, StatusIsHonest, Honest
<1>6. QED
  BY <1>2, <1>3, <1>4, <1>5 DEF IInv, Delivery

LEMMA ReconcileStep ==
    ASSUME IInv, NEW m \in DOMAIN messages, NEW t \in tenants,
           NEW c \in DOMAIN customers,
           NEW j \in JobsOf(t) \cup {None, messages[m].jobId},
           Reconcile(m, t, c, j)
    PROVE  IInv'
<1>1. /\ DOMAIN messages' = DOMAIN messages
      /\ \A x \in DOMAIN messages : x # m => messages'[x] = messages[x]
      /\ messages'[m] = [messages[m] EXCEPT !.tenantId = t, !.customerId = c,
                                            !.jobId = j, !.matchStatus = "matched"]
      /\ attached' = attached \cup {m}
      /\ customers[c].tenantId = t
      /\ UNCHANGED <<tenants, customers, jobs, calls, taken, drawn>>
  BY DEF Reconcile
<1>2. t \in Tenants /\ c \in CustomerIds /\ j \in JobIds \cup {None}
  BY Ids DEF IInv, TypeOK, CustomerIds, JobIds, JobsOf, MessageRow
<1>3. /\ messages'[m] \in MessageRow
      /\ messages'[m].direction = messages[m].direction
      /\ messages'[m].tenantId = t
      /\ messages'[m].customerId = c
      /\ messages'[m].matchStatus = "matched"
      /\ messages'[m].providerMessageId = messages[m].providerMessageId
      /\ messages'[m].status = messages[m].status
  BY <1>1, <1>2 DEF IInv, TypeOK, MessageRow, MatchStatuses
<1>4. TypeOK'
  BY <1>1, <1>3 DEF IInv, TypeOK
<1>5. Belonging'
  BY <1>1 DEF IInv, Rows, Belonging
<1>6. MessagesAreListedOnce'
  <2>1. \A x \in DOMAIN messages : x # m => Listed(messages[x])'
    BY <1>1 DEF IInv, Rows, MessagesAreListedOnce, Listed
  <2>2. Listed(messages[m])'
    BY <1>1, <1>3 DEF Listed
  <2>3. QED
    BY <1>1, <2>1, <2>2 DEF MessagesAreListedOnce
<1>7. MessagesAreAboutTheirJobs'
  BY <1>1 DEF IInv, Rows, MessagesAreAboutTheirJobs
<1>8. CallsAreTaken'
  BY <1>1 DEF IInv, Delivery, CallsAreTaken
<1>9. StatusIsHonest'
  <2>1. \A x \in DOMAIN messages : x # m => Honest(x, messages[x])'
    BY <1>1 DEF IInv, Delivery, StatusIsHonest, Honest
  <2>2. Honest(m, messages[m])'
    BY <1>1, <1>3 DEF IInv, Delivery, StatusIsHonest, Honest
  <2>3. QED
    BY <1>1, <2>1, <2>2 DEF StatusIsHonest
<1>10. QED
  BY <1>4, <1>5, <1>6, <1>7, <1>8, <1>9 DEF IInv, Rows, Delivery

-----------------------------------------------------------------------------
(* The theorems                                                              *)

LEMMA InvariantStep == IInv /\ [Next]_vars => IInv'
<1> SUFFICES ASSUME IInv, [Next]_vars PROVE IInv'
  OBVIOUS
<1>1. CASE StaffRequest
  BY <1>1, CreateCustomerStep, DeleteTenantStep, ChangePhoneStep, CreateJobStep,
     DeleteCustomerStep, SendMessageStep, DeleteJobStep
  DEF StaffRequest
<1>2. CASE Provider
  BY <1>2, ProviderTakesStep, SendAnsweredStep, SendFailedStep,
     ProviderReportsStep
  DEF Provider
<1>3. CASE Webhook
  BY <1>3, InboundStep, StatusWebhookStep DEF Webhook
<1>4. CASE AdminRequest
  BY <1>4, ReconcileStep DEF AdminRequest
<1>5. CASE UNCHANGED vars
  <2>1. TypeOK'
    BY <1>5 DEF IInv, TypeOK, vars
  <2>2. Rows'
    BY <1>5 DEF IInv, Rows, Belonging, MessagesAreListedOnce, Listed,
                MessagesAreAboutTheirJobs, vars
  <2>3. Delivery'
    BY <1>5 DEF IInv, Delivery, CallsAreTaken, StatusIsHonest, Honest, vars
  <2>4. QED
    BY <2>1, <2>2, <2>3 DEF IInv
<1>6. QED
  BY <1>1, <1>2, <1>3, <1>4, <1>5 DEF Next

LEMMA InvariantHolds == Spec => []IInv
<1>1. Init => IInv
  BY InvariantInit
<1>2. IInv /\ [Next]_vars => IInv'
  BY InvariantStep
<1>3. QED
  BY <1>1, <1>2, PTL DEF Spec

\* Every table holds rows of the shape the code writes (models/Message.js).
THEOREM TypeCorrect == Spec => []TypeOK
<1>1. IInv => TypeOK
  BY DEF IInv
<1>2. QED
  BY <1>1, InvariantHolds, PTL

\* Every message is in the tenant of a customer who exists, or unmatched: no
\* cascade and no await leaves one behind (routes/customer.js, tenant.js,
\* messagingController.js).
THEOREM MessagesStayListed == Spec => []MessagesAreListedOnce
<1>1. IInv => MessagesAreListedOnce
  BY DEF IInv, Rows
<1>2. QED
  BY <1>1, InvariantHolds, PTL

\* What no admin has attached by hand is about a job that exists and is of its
\* customer (sendMessage, DELETE /jobs/:id, DELETE /customers/:id).
THEOREM MessagesStayAboutTheirJobs == Spec => []MessagesAreAboutTheirJobs
<1>1. IInv => MessagesAreAboutTheirJobs
  BY DEF IInv, Rows
<1>2. QED
  BY <1>1, InvariantHolds, PTL

\* However late, early, repeated or lost the provider's answers and reports
\* are, a message in the provider's hands has a status given of that very message.
THEOREM StatusStaysHonest == Spec => []StatusIsHonest
<1>1. IInv => StatusIsHonest
  BY DEF IInv, Delivery
<1>2. QED
  BY <1>1, InvariantHolds, PTL

-----------------------------------------------------------------------------
(* Steps                                                                     *)

\* The only message a step may add has an id nobody had before.
LEMMA OnlyNewIds ==
    ASSUME TypeOK, [Next]_vars
    PROVE  \/ DOMAIN messages' \subseteq DOMAIN messages
           \/ DOMAIN messages' = DOMAIN messages \cup {drawn.messages + 1}
<1>1. CASE UNCHANGED vars
  BY <1>1 DEF vars
<1>2. CASE StaffRequest
  BY <1>2 DEF StaffRequest, CreateCustomer, DeleteTenant, ChangePhone, CreateJob,
              DeleteCustomer, SendMessage, DeleteJob, Put, Drop, Restrict
<1>3. CASE Provider
  BY <1>3 DEF Provider, ProviderTakes, SendAnswered, SendFailed, ProviderReports
<1>4. CASE Webhook
  BY <1>4 DEF Webhook, HandleInboundWebhook, InboundMatched, InboundUnmatched,
              InboundAmbiguous, RecordInbound, HandleStatusWebhook, Put
<1>5. CASE AdminRequest
  BY <1>5 DEF AdminRequest, Reconcile
<1>6. QED
  BY <1>1, <1>2, <1>3, <1>4, <1>5 DEF Next

\* A message deleted while its send is in flight does not come back when the
\* send is answered (setProviderMessageId, updateStatus).
THEOREM DeletedStayDeleted == Spec => DeletedMessagesStayDeleted
<1>1. IInv /\ [Next]_vars => [NoneComesBack]_vars
  <2> SUFFICES ASSUME IInv, [Next]_vars PROVE NoneComesBack
    OBVIOUS
  <2>1. drawn.messages + 1 \notin 1..drawn.messages
    BY Ids DEF IInv
  <2>2. QED
    BY <2>1, OnlyNewIds DEF IInv, NoneComesBack
<1>2. QED
  BY <1>1, InvariantHolds, PTL DEF Spec, DeletedMessagesStayDeleted

\* A text that more than one customer of the tenants could have sent is never
\* attached to one of them on arrival (handleInboundWebhook).
THEOREM InboundNeverGuessed == Spec => InboundIsNeverGuessed
<1>1. IInv /\ [Next]_vars => [OnlyUniqueSendersMatch]_vars
  <2> SUFFICES ASSUME IInv, [Next]_vars PROVE OnlyUniqueSendersMatch
    OBVIOUS
  <2> DEFINE n == drawn.messages + 1
  <2>1. CASE DOMAIN messages' \subseteq DOMAIN messages
    BY <2>1 DEF OnlyUniqueSendersMatch
  <2>2. ASSUME NEW c \in DOMAIN customers, NEW j \in DOMAIN jobs \cup {None},
               SendMessage(c, j)
        PROVE  OnlyUniqueSendersMatch
    <3>1. /\ DOMAIN messages' = DOMAIN messages \cup {n}
          /\ messages'[n].direction = "outbound"
      BY <2>2 DEF SendMessage, OutboundRow, Put
    <3>2. QED
      BY <3>1 DEF OnlyUniqueSendersMatch
  <2>3. ASSUME NEW phone \in Phones, HandleInboundWebhook(phone)
        PROVE  OnlyUniqueSendersMatch
    <3>1. ASSUME NEW c \in FindAllByPhone(phone), FindAllByPhone(phone) = {c},
                 RecordInbound(InboundRow(customers[c].tenantId, c, "matched"))
          PROVE  OnlyUniqueSendersMatch
      <4>1. /\ DOMAIN messages' = DOMAIN messages \cup {n}
            /\ messages'[n].customerId = c
        BY <3>1 DEF RecordInbound, InboundRow, Put
      <4>2. \A d \in DOMAIN customers :
               customers[d].phone = customers[c].phone => d = c
        BY <3>1 DEF FindAllByPhone
      <4>3. QED
        BY <4>1, <4>2 DEF OnlyUniqueSendersMatch
    <3>2. ASSUME NEW match \in {"unmatched", "ambiguous"},
                 RecordInbound(InboundRow(None, None, match))
          PROVE  OnlyUniqueSendersMatch
      <4>1. /\ DOMAIN messages' = DOMAIN messages \cup {n}
            /\ messages'[n].matchStatus # "matched"
        BY <3>2 DEF RecordInbound, InboundRow, Put
      <4>2. QED
        BY <4>1 DEF OnlyUniqueSendersMatch
    <3>3. QED
      BY <2>3, <3>1, <3>2
      DEF HandleInboundWebhook, InboundMatched, InboundUnmatched, InboundAmbiguous
  <2>4. CASE UNCHANGED vars
    BY <2>1, <2>4 DEF vars
  <2>5. CASE StaffRequest
    BY <2>1, <2>2, <2>5
    DEF StaffRequest, CreateCustomer, DeleteTenant, ChangePhone, CreateJob,
        DeleteCustomer, DeleteJob, Drop, Restrict
  <2>6. CASE Provider
    BY <2>1, <2>6
    DEF Provider, ProviderTakes, SendAnswered, SendFailed, ProviderReports
  <2>7. CASE Webhook
    BY <2>1, <2>3, <2>7 DEF Webhook, HandleStatusWebhook
  <2>8. CASE AdminRequest
    BY <2>1, <2>8 DEF AdminRequest, Reconcile
  <2>9. QED
    BY <2>4, <2>5, <2>6, <2>7, <2>8 DEF Next
<1>2. QED
  BY <1>1, InvariantHolds, PTL DEF Spec, InboundIsNeverGuessed
=============================================================================

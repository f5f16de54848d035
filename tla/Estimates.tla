------------------------------ MODULE Estimates ------------------------------
(***************************************************************************)
(* The estimate workflow of one tenant: jobs, the revision chains of their *)
(* estimates, the customers' share links, and the ledger of the customers' *)
(* own answers (models/Estimate.js, controllers/estimateController.js,     *)
(* routes/estimate.js, routes/publicEstimate.js, models/Job.js,            *)
(* models/EstimateAcceptance.js).                                          *)
(*                                                                         *)
(* Every request handler here is synchronous, so a request is one atomic   *)
(* step and concurrency is the order in which the staff's and the          *)
(* customers' requests arrive.  A handler that throws after it has written *)
(* something is an action of its own (the ...Throws actions).              *)
(*                                                                         *)
(* Random ids and share tokens (randomUUID) are drawn from counters: all   *)
(* the code relies on is that a drawn value never repeats.                 *)
(*                                                                         *)
(* A definition named ...Fault is not part of the specification: it is the *)
(* definition that follows it with a plausible mistake in it, which the    *)
(* properties are expected to notice.                                      *)
(***************************************************************************)
EXTENDS Integers, Sequences, FiniteSets, Maps

CONSTANTS
    Contents,       \* what an estimate says: line items, scope, terms, price
    ValidDays,      \* validity periods a request may ask for, in days
    DatelessDays,   \* validity periods beyond any date, which make
                    \* computeValidUntil throw
    JobStatuses,    \* the job statuses PATCH /jobs/:id may set
    None,           \* null
    MaxJobs, MaxEstimates, MaxTokens,   \* bounds: how often each id is drawn
    MaxDay                              \* bound: the last day of the clock

ASSUME ConstantsAssumption ==
    /\ ValidDays \subseteq Int
    /\ ValidDays \cap DatelessDays = {}
    /\ {"estimating", "approved"} \subseteq JobStatuses
    /\ None \notin Int
    /\ None \notin Contents
    /\ None \notin {"staff", "customer"}
    /\ {MaxJobs, MaxEstimates, MaxTokens, MaxDay} \subseteq Nat

VARIABLES
    jobs,           \* store.jobs: id -> row
    estimates,      \* store.estimates: id -> row
    tokenIndex,     \* store.estimatesByShareTokenHash: token -> estimate id
    ledger,         \* store.estimateAcceptances, in insertion order
    answered,       \* history: the answers customers were told had succeeded
    today,          \* the server's clock
    drawn           \* history: how many ids of each kind have been drawn

vars == <<jobs, estimates, tokenIndex, ledger, answered, today, drawn>>

-----------------------------------------------------------------------------
(* Rows                                                                      *)

JobIds == 1..MaxJobs
EstimateIds == 1..MaxEstimates
Tokens == 1..MaxTokens
Day == Int    \* a negative period is taken as it is

EstimateStatuses ==
    {"draft", "sent", "approved", "rejected", "expired", "superseded"}
Actions == {"accepted", "rejected"}

JobRow == [status : JobStatuses, currentEstimateId : EstimateIds \cup {None}]

\* `decidedBy` abstracts approvedBy / rejectedBy: which route recorded the
\* answer.  `shown` abstracts viewedAt / viewCount: null until the public link
\* is first opened, then (history) what the latest view showed.
EstimateRow ==
    [jobId : JobIds,
     version : Nat,
     rootEstimateId : EstimateIds,
     previousVersionId : EstimateIds \cup {None},
     supersededBy : EstimateIds \cup {None},
     isChangeOrder : BOOLEAN,
     status : EstimateStatuses,
     content : Contents,
     validDays : ValidDays \cup DatelessDays,
     validUntil : Day,
     createdAt : Day,
     shareToken : Tokens,
     shown : Contents \cup {None},
     decidedBy : {"staff", "customer", None}]

LedgerEntry ==
    [estimateId : EstimateIds, action : Actions, shareToken : Tokens, at : Day]

-----------------------------------------------------------------------------
(* What the handlers read                                                    *)

Open(e) == estimates[e].status \in {"draft", "sent"}

IsPastValidityFault(e) ==   \* drafts are taken not to expire
    estimates[e].status = "sent" /\ estimates[e].validUntil < today

IsPastValidity(e) == Open(e) /\ estimates[e].validUntil < today

\* findByShareToken: the index is followed into the store, so an index entry
\* whose estimate is missing resolves to nothing.
Resolves(t) == t \in DOMAIN tokenIndex /\ tokenIndex[t] \in DOMAIN estimates

-----------------------------------------------------------------------------
(* Drawing ids                                                               *)

NewJobId == drawn.jobs + 1
NewEstimateIdFault == Cardinality(DOMAIN estimates) + 1   \* ids by counting

NewEstimateId == drawn.estimates + 1
NewToken == drawn.tokens + 1

\* create() and createRevision() draw an id and issue a token for it.
DrawEstimateAndToken ==
    /\ NewEstimateId \in EstimateIds
    /\ NewToken \in Tokens
    /\ drawn' = [drawn EXCEPT !.estimates = @ + 1, !.tokens = @ + 1]

\* issueShareToken indexes the token at once: before the row it is for exists.
IssueShareToken(e) == tokenIndex' = Put(tokenIndex, NewToken, e)

SetCurrentEstimateFault(j, e) ==   \* only a job without an estimate is set
    jobs' = [jobs EXCEPT ![j].currentEstimateId = IF @ = None THEN e ELSE @]

SetCurrentEstimate(j, e) ==
    jobs' = [jobs EXCEPT ![j].currentEstimateId = e]

-----------------------------------------------------------------------------
(* Jobs                                                                      *)

CreateJob ==
    /\ NewJobId \in JobIds
    /\ jobs' = Put(jobs, NewJobId,
                   [status |-> "estimating", currentEstimateId |-> None])
    /\ drawn' = [drawn EXCEPT !.jobs = @ + 1]
    /\ UNCHANGED <<estimates, tokenIndex, ledger, answered, today>>

UpdateJobStatus(j, s) ==
    /\ jobs' = [jobs EXCEPT ![j].status = s]
    /\ UNCHANGED <<estimates, tokenIndex, ledger, answered, today, drawn>>

EstimatesOf(j) == {e \in DOMAIN estimates : estimates[e].jobId = j}

\* The cascade removes the job's estimates and their links; the ledger stays.
DeleteJob(j) ==
    /\ jobs' = Drop(jobs, {j})
    /\ estimates' = Drop(estimates, EstimatesOf(j))
    /\ tokenIndex' = Drop(tokenIndex,
                          {estimates[e].shareToken : e \in EstimatesOf(j)})
    /\ UNCHANGED <<ledger, answered, today, drawn>>

-----------------------------------------------------------------------------
(* Estimates: the staff's requests                                           *)

\* POST /estimates and POST /estimates/from-template.
CreateEstimate(j, c, days) ==
    /\ DrawEstimateAndToken
    /\ IssueShareToken(NewEstimateId)
    /\ estimates' = Put(estimates, NewEstimateId,
           [jobId |-> j, version |-> 1, rootEstimateId |-> NewEstimateId,
            previousVersionId |-> None, supersededBy |-> None,
            isChangeOrder |-> FALSE, status |-> "draft", content |-> c,
            validDays |-> days, validUntil |-> today + days,
            createdAt |-> today, shareToken |-> NewToken, shown |-> None,
            decidedBy |-> None])
    /\ SetCurrentEstimate(j, NewEstimateId)
    /\ UNCHANGED <<ledger, answered, today>>

\* normalizeLineItems, or computeValidUntil for DatelessDays, throws after
\* issueShareToken: the index keeps an entry for an estimate that is never
\* stored.
CreateEstimateThrows ==
    /\ DrawEstimateAndToken
    /\ IssueShareToken(NewEstimateId)
    /\ UNCHANGED <<jobs, estimates, ledger, answered, today>>

\* PATCH /estimates/:id.  A validity period in the request is counted from
\* the estimate's creation.
UpdateEstimate(e, c, days) ==
    /\ estimates[e].status = "draft"
    /\ estimates' = [estimates EXCEPT
           ![e].content = c,
           ![e].validDays = IF days = None THEN @ ELSE days,
           ![e].validUntil =
               IF days = None THEN @ ELSE estimates[e].createdAt + days]
    /\ UNCHANGED <<jobs, tokenIndex, ledger, answered, today, drawn>>

\* computeValidUntil throws when the new contents and period are written: they
\* stay, and so does the old date.
UpdateEstimateThrows(e, c, days) ==
    /\ estimates[e].status = "draft"
    /\ estimates' = [estimates EXCEPT ![e].content = c,
                                      ![e].validDays = days]
    /\ UNCHANGED <<jobs, tokenIndex, ledger, answered, today, drawn>>

CanReviseFault(e, asChangeOrder) ==   \* a replaced version is revised again
    asChangeOrder => estimates[e].status = "approved"

CanReviseChangeOrderFault(e, asChangeOrder) ==   \* change order on any version
    estimates[e].supersededBy = None

CanRevise(e, asChangeOrder) ==
    /\ estimates[e].supersededBy = None
    /\ asChangeOrder => estimates[e].status = "approved"

Revision(e, c, days, asChangeOrder) ==
    [estimates[e] EXCEPT
        !.version = @ + 1, !.previousVersionId = e, !.supersededBy = None,
        !.isChangeOrder = asChangeOrder, !.status = "draft", !.content = c,
        !.validDays = days, !.validUntil = today + days, !.createdAt = today,
        !.shareToken = NewToken, !.shown = None, !.decidedBy = None]

SupersededStatusFault(e, by) ==   \* the replaced version keeps its status
    [estimates EXCEPT ![e].supersededBy = by]

SupersededApprovedFault(e, by) ==   \* an approved version loses its status
    [estimates EXCEPT ![e].supersededBy = by, ![e].status = "superseded"]

Superseded(e, by) ==
    [estimates EXCEPT
        ![e].supersededBy = by,
        ![e].status = IF @ = "approved" THEN @ ELSE "superseded"]

ReviseEstimate(e, c, days, asChangeOrder) ==
    /\ CanRevise(e, asChangeOrder)
    /\ DrawEstimateAndToken
    /\ IssueShareToken(NewEstimateId)
    /\ estimates' = Put(Superseded(e, NewEstimateId), NewEstimateId,
                        Revision(e, c, days, asChangeOrder))
    /\ SetCurrentEstimate(estimates[e].jobId, NewEstimateId)
    /\ UNCHANGED <<ledger, answered, today>>

\* As CreateEstimateThrows, also for DatelessDays inherited from e: nothing
\* but the token is left behind.
ReviseEstimateThrows(e, asChangeOrder) ==
    /\ CanRevise(e, asChangeOrder)
    /\ DrawEstimateAndToken
    /\ IssueShareToken(NewEstimateId)
    /\ UNCHANGED <<jobs, estimates, ledger, answered, today>>

\* The validity window restarts when the estimate is sent.
MarkSent(e) ==
    /\ estimates[e].status = "draft"
    /\ estimates[e].validDays \in ValidDays
    /\ estimates' = [estimates EXCEPT
           ![e].status = "sent",
           ![e].validUntil = today + estimates[e].validDays]
    /\ UNCHANGED <<jobs, tokenIndex, ledger, answered, today, drawn>>

\* computeValidUntil throws when the status is written: the estimate is sent,
\* and keeps its date.
MarkSentThrows(e) ==
    /\ estimates[e].status = "draft"
    /\ estimates[e].validDays \in DatelessDays
    /\ estimates' = [estimates EXCEPT ![e].status = "sent"]
    /\ UNCHANGED <<jobs, tokenIndex, ledger, answered, today, drawn>>

RecordApprovalFault(e, by) ==   \* the action's name is stored as the status
    /\ Open(e)
    /\ estimates' = [estimates EXCEPT ![e].status = "accepted",
                                      ![e].decidedBy = by]
    /\ UNCHANGED jobs

\* EstimateRepository.approve and the job's step out of 'estimating'.
RecordApproval(e, by) ==
    /\ Open(e)
    /\ estimates' = [estimates EXCEPT ![e].status = "approved",
                                      ![e].decidedBy = by]
    /\ jobs' = [jobs EXCEPT ![estimates[e].jobId].status =
                    IF @ = "estimating" THEN "approved" ELSE @]

RecordRejection(e, by) ==
    /\ Open(e)
    /\ estimates' = [estimates EXCEPT ![e].status = "rejected",
                                      ![e].decidedBy = by]
    /\ UNCHANGED jobs

StaffApprove(e) ==
    /\ RecordApproval(e, "staff")
    /\ UNCHANGED <<tokenIndex, ledger, answered, today, drawn>>

StaffReject(e) ==
    /\ RecordRejection(e, "staff")
    /\ UNCHANGED <<tokenIndex, ledger, answered, today, drawn>>

\* A repository operation: no route calls it yet.
Expire(e) ==
    /\ Open(e)
    /\ estimates' = [estimates EXCEPT ![e].status = "expired"]
    /\ UNCHANGED <<jobs, tokenIndex, ledger, answered, today, drawn>>

RegenerateShareLinkFault(e) ==   \* the old link stays in the index
    /\ NewToken \in Tokens
    /\ drawn' = [drawn EXCEPT !.tokens = @ + 1]
    /\ tokenIndex' = Put(tokenIndex, NewToken, e)
    /\ estimates' = [estimates EXCEPT ![e].shareToken = NewToken]
    /\ UNCHANGED <<jobs, ledger, answered, today>>

RegenerateShareLink(e) ==
    /\ NewToken \in Tokens
    /\ drawn' = [drawn EXCEPT !.tokens = @ + 1]
    /\ tokenIndex' = Put(Drop(tokenIndex, {estimates[e].shareToken}),
                         NewToken, e)
    /\ estimates' = [estimates EXCEPT ![e].shareToken = NewToken]
    /\ UNCHANGED <<jobs, ledger, answered, today>>

DeleteEstimateFault(e) ==   \* any open estimate can be deleted
    /\ Open(e)
    /\ estimates' = Drop(estimates, {e})
    /\ tokenIndex' = Drop(tokenIndex, {estimates[e].shareToken})
    /\ UNCHANGED <<jobs, ledger, answered, today, drawn>>

\* Only the row and its link go: the parent's supersededBy and the job's
\* currentEstimateId keep pointing at the deleted draft.
DeleteEstimate(e) ==
    /\ estimates[e].status = "draft"
    /\ estimates' = Drop(estimates, {e})
    /\ tokenIndex' = Drop(tokenIndex, {estimates[e].shareToken})
    /\ UNCHANGED <<jobs, ledger, answered, today, drawn>>

-----------------------------------------------------------------------------
(* Estimates: the customers' requests, through a share link                  *)

PublicView(t) ==
    LET e == tokenIndex[t] IN
    /\ estimates' = [estimates EXCEPT ![e].shown = estimates[e].content]
    /\ UNCHANGED <<jobs, tokenIndex, ledger, answered, today, drawn>>

Record(e, action, t) ==
    ledger' = Append(ledger, [estimateId |-> e, action |-> action,
                              shareToken |-> t, at |-> today])

Answer(e, action) == answered' = answered \cup {<<e, action>>}

\* The status in which an answer has already been given.
DoneStatus(action) == IF action = "accepted" THEN "approved" ELSE "rejected"

RepeatAnswerFault(t, action) ==   \* a repeated answer is recorded again
    LET e == tokenIndex[t] IN
    /\ estimates[e].status = DoneStatus(action)
    /\ Record(e, action, t)
    /\ Len(ledger) < MaxEstimates
    /\ Answer(e, action)
    /\ UNCHANGED <<jobs, estimates, tokenIndex, today, drawn>>

\* recordAcceptanceEvent: an answer that repeats the estimate's state
\* succeeds and records nothing.
RepeatAnswer(t, action) ==
    LET e == tokenIndex[t] IN
    /\ estimates[e].status = DoneStatus(action)
    /\ Answer(e, action)
    /\ UNCHANGED <<jobs, estimates, tokenIndex, ledger, today, drawn>>

FirstAnswer(t, action) ==
    LET e == tokenIndex[t] IN
    /\ ~IsPastValidity(e)
    /\ IF action = "accepted" THEN RecordApproval(e, "customer")
                              ELSE RecordRejection(e, "customer")
    /\ Record(e, action, t)
    /\ Answer(e, action)
    /\ UNCHANGED <<tokenIndex, today, drawn>>

PublicApprove(t) == FirstAnswer(t, "accepted") \/ RepeatAnswer(t, "accepted")

PublicReject(t) == FirstAnswer(t, "rejected") \/ RepeatAnswer(t, "rejected")

-----------------------------------------------------------------------------
Tick ==
    /\ today < MaxDay
    /\ today' = today + 1
    /\ UNCHANGED <<jobs, estimates, tokenIndex, ledger, answered, drawn>>

Init ==
    /\ jobs = << >>
    /\ estimates = << >>
    /\ tokenIndex = << >>
    /\ ledger = << >>
    /\ answered = {}
    /\ today = 0
    /\ drawn = [jobs |-> 0, estimates |-> 0, tokens |-> 0]

JobRequest ==
    \/ CreateJob
    \/ \E j \in DOMAIN jobs :
          \/ \E s \in JobStatuses : UpdateJobStatus(j, s)
          \/ DeleteJob(j)
          \/ \E c \in Contents, d \in ValidDays : CreateEstimate(j, c, d)
          \/ CreateEstimateThrows

StaffRequest ==
    \E e \in DOMAIN estimates :
       \/ \E c \in Contents, d \in ValidDays \cup {None} :
             UpdateEstimate(e, c, d)
       \/ \E c \in Contents, d \in DatelessDays : UpdateEstimateThrows(e, c, d)
       \/ \E co \in BOOLEAN :
             \/ \E c \in Contents, d \in ValidDays : ReviseEstimate(e, c, d, co)
             \/ ReviseEstimateThrows(e, co)
       \/ MarkSent(e)
       \/ MarkSentThrows(e)
       \/ StaffApprove(e)
       \/ StaffReject(e)
       \/ Expire(e)
       \/ RegenerateShareLink(e)
       \/ DeleteEstimate(e)

CustomerRequest ==
    \E t \in DOMAIN tokenIndex :
       /\ Resolves(t)
       /\ PublicView(t) \/ PublicApprove(t) \/ PublicReject(t)

Next == JobRequest \/ StaffRequest \/ CustomerRequest \/ Tick

Spec == Init /\ [][Next]_vars

-----------------------------------------------------------------------------
(* Properties                                                                *)

DrawnOK ==
    drawn \in [jobs : 0..MaxJobs, estimates : 0..MaxEstimates,
               tokens : 0..MaxTokens]

JobsOK ==
    /\ DOMAIN jobs \subseteq 1..drawn.jobs
    /\ \A j \in DOMAIN jobs : jobs[j] \in JobRow

EstimatesOK ==
    /\ DOMAIN estimates \subseteq 1..drawn.estimates
    /\ \A e \in DOMAIN estimates : estimates[e] \in EstimateRow

IndexOK ==
    /\ DOMAIN tokenIndex \subseteq 1..drawn.tokens
    /\ \A t \in DOMAIN tokenIndex : tokenIndex[t] \in 1..drawn.estimates

AnswersOK ==
    /\ ledger \in Seq(LedgerEntry)
    /\ answered \subseteq EstimateIds \X Actions

\* Every table holds rows of the shape the code writes, and refers only to
\* ids and tokens that have been drawn (models/Estimate.js, models/Job.js,
\* models/EstimateAcceptance.js).
TypeOK ==
    /\ DrawnOK
    /\ JobsOK
    /\ EstimatesOK
    /\ IndexOK
    /\ AnswersOK
    /\ today \in 0..MaxDay

SameChain(a, b) == estimates[a].rootEstimateId = estimates[b].rootEstimateId

\* A stored estimate is reached by its current link and by no other: a link
\* that was replaced, or was issued for a request that then failed, never
\* shows an estimate, whatever the order of revisions and regenerations
\* (issueShareToken, regenerateShareLink, delete).
ShareLinksResolve ==
    /\ \A e \in DOMAIN estimates :
          /\ estimates[e].shareToken \in DOMAIN tokenIndex
          /\ tokenIndex[estimates[e].shareToken] = e
    /\ \A t \in DOMAIN tokenIndex :
          Resolves(t) => estimates[tokenIndex[t]].shareToken = t

RetiredStay == \A t \in 1..drawn.tokens : ~Resolves(t) => ~Resolves(t)'

\* A link that has stopped working never works again, also one that is still
\* in the index without an estimate behind it.
RetiredLinksStayRetired == [][RetiredStay]_vars

\* The versions of a chain are linear: two versions never carry the same
\* number, so listVersions shows one history (createRevision's 409 on an
\* already superseded version, and what deleting a draft leaves behind).
LinearHistory ==
    \A a, b \in DOMAIN estimates :
       SameChain(a, b) /\ estimates[a].version = estimates[b].version => a = b

\* Of a chain's stored versions, only the latest can be open to an answer: a
\* customer who holds the links of several versions can record no new answer
\* on a replaced one.  An answer given before the version was replaced stands:
\* the customer may have accepted version 1 and accept the change order too.
OnlyLatestIsOpen ==
    \A a, b \in DOMAIN estimates :
       SameChain(a, b) /\ Open(a) =>
          estimates[b].version <= estimates[a].version

\* Walking back through previousVersionId never falls off the store and stays
\* on the same job and chain, the version behind points forward to the one it
\* was left for, and a change order stands on an approved version.
ChainsWalkBack ==
    \A e \in DOMAIN estimates :
       LET p == estimates[e].previousVersionId IN
       p # None =>
          /\ p \in DOMAIN estimates
          /\ estimates[p].supersededBy = e
          /\ estimates[p].version + 1 = estimates[e].version
          /\ estimates[p].jobId = estimates[e].jobId
          /\ SameChain(p, e)
          /\ estimates[e].isChangeOrder => estimates[p].status = "approved"

\* The estimate a job points at, while it is stored, is one of its own and has
\* not been replaced: what finalizing the job reads is never an outdated
\* version (setCurrentEstimate after every create and revision).
CurrentIsNotOutdated ==
    \A j \in DOMAIN jobs :
       LET e == jobs[j].currentEstimateId IN
       e \in DOMAIN estimates =>
          estimates[e].jobId = j /\ estimates[e].supersededBy = None

\* The ledger and the estimates tell one story: a customer's answer stands in
\* the ledger exactly once, for exactly the estimates whose own row says the
\* customer decided, and the row has not since come to say the opposite
\* (recordAcceptanceEvent against staff approvals, retries and revisions).
LedgerAgrees ==
    /\ \A i, k \in DOMAIN ledger :
          ledger[i].estimateId = ledger[k].estimateId => i = k
    /\ \A i \in DOMAIN ledger :
          LET e == ledger[i].estimateId IN
          e \in DOMAIN estimates =>
             /\ estimates[e].decidedBy = "customer"
             /\ estimates[e].status \in
                   IF ledger[i].action = "accepted"
                   THEN {"approved"} ELSE {"rejected", "superseded"}
    /\ \A e \in DOMAIN estimates :
          estimates[e].decidedBy = "customer" =>
             \E i \in DOMAIN ledger : ledger[i].estimateId = e

\* A customer's answer is never recorded after the validity date that the
\* estimate's row shows, however often the date was moved before the answer
\* (isPastValidity in the public routes; update and markSent move the date).
AnsweredInTime ==
    \A i \in DOMAIN ledger :
       LET e == ledger[i].estimateId IN
       e \in DOMAIN estimates => ledger[i].at <= estimates[e].validUntil

RecordsKept ==
    \A e \in DOMAIN estimates :
       estimates[e].status # "draft" =>
          \/ estimates[e].jobId \notin DOMAIN jobs'
          \/ /\ e \in DOMAIN estimates'
             /\ estimates'[e].status # "draft"
             /\ estimates'[e].content = estimates[e].content
             /\ estimates[e].status = "approved" =>
                   /\ estimates'[e].status = "approved"
                   /\ estimates'[e].validUntil = estimates[e].validUntil
                   /\ estimates'[e].decidedBy = estimates[e].decidedBy

\* Once sent, an estimate is a business record: it says what it said, never
\* becomes a draft again, and cannot be removed but with its job; and an
\* agreement is permanent: no later request, of staff or customer, on this
\* estimate or on a revision of it, changes an approved one's status, date or
\* signer.
SentIsARecord == [][RecordsKept]_vars

-----------------------------------------------------------------------------
(* What the comments claim and the code does not keep                        *)

\* "Always writes a permanent entry to the EstimateAcceptance ledger": every
\* answer, accepting or rejecting, that a customer was told had succeeded stands
\* in the ledger.  Not so when staff recorded the same answer first.
EveryAnswerRecorded ==
    \A a \in answered :
       \E i \in DOMAIN ledger :
          ledger[i].estimateId = a[1] /\ ledger[i].action = a[2]

\* "there's always an honest record of what the customer actually saw and
\* agreed to": a customer who opened the link accepts what it last showed.
AcceptedWhatWasShown ==
    \A e \in DOMAIN estimates :
       /\ estimates[e].status = "approved"
       /\ estimates[e].decidedBy = "customer"
       /\ estimates[e].shown # None
       => estimates[e].shown = estimates[e].content
=============================================================================

--------------------------- MODULE EstimatesProofs ---------------------------
(***************************************************************************)
(* Proofs about Estimates, for every value of its constants.               *)
(***************************************************************************)
EXTENDS Estimates, TLAPS

-----------------------------------------------------------------------------
(* Type correctness                                                          *)

LEMMA DrawnFacts ==
    ASSUME DrawnOK
    PROVE  /\ drawn.jobs \in 0..MaxJobs
           /\ drawn.estimates \in 0..MaxEstimates
           /\ drawn.tokens \in 0..MaxTokens
           /\ MaxJobs \in Nat /\ MaxEstimates \in Nat /\ MaxTokens \in Nat
BY ConstantsAssumption DEF DrawnOK

\* Issuing a token for the next estimate id keeps the index and the counters,
\* and both the id and the token are new.
LEMMA IssueType ==
    ASSUME TypeOK, DrawEstimateAndToken, IssueShareToken(NewEstimateId)
    PROVE  /\ IndexOK' /\ DrawnOK'
           /\ drawn'.jobs = drawn.jobs
           /\ drawn'.estimates = NewEstimateId
           /\ NewEstimateId = drawn.estimates + 1
           /\ NewEstimateId \in 1..MaxEstimates
           /\ NewEstimateId \notin DOMAIN estimates
           /\ NewToken \in 1..MaxTokens
           /\ NewToken \notin DOMAIN tokenIndex
<1>1. /\ drawn.jobs \in 0..MaxJobs
      /\ drawn.estimates \in 0..MaxEstimates
      /\ drawn.tokens \in 0..MaxTokens
      /\ drawn' = [drawn EXCEPT !.estimates = drawn.estimates + 1,
                                !.tokens = drawn.tokens + 1]
      /\ drawn.estimates + 1 \in 1..MaxEstimates
      /\ drawn.tokens + 1 \in 1..MaxTokens
  BY DrawnFacts
  DEF TypeOK, DrawEstimateAndToken, NewEstimateId, NewToken, EstimateIds, Tokens
<1>2. /\ drawn'.estimates = drawn.estimates + 1
      /\ drawn'.tokens = drawn.tokens + 1
      /\ drawn'.jobs = drawn.jobs
      /\ DrawnOK'
  <2>1. drawn' = [jobs |-> drawn.jobs, estimates |-> drawn.estimates + 1,
                  tokens |-> drawn.tokens + 1]
    BY <1>1 DEF TypeOK, DrawnOK
  <2>2. QED
    BY <1>1, <2>1, DrawnFacts DEF TypeOK, DrawnOK
<1>3. /\ drawn.estimates + 1 \notin DOMAIN estimates
      /\ drawn.tokens + 1 \notin DOMAIN tokenIndex
  BY <1>1 DEF TypeOK, EstimatesOK, IndexOK
<1>4. /\ DOMAIN tokenIndex' = DOMAIN tokenIndex \cup {drawn.tokens + 1}
      /\ tokenIndex'[drawn.tokens + 1] = drawn.estimates + 1
      /\ \A t \in DOMAIN tokenIndex :
            t # drawn.tokens + 1 => tokenIndex'[t] = tokenIndex[t]
  BY DEF Put, IssueShareToken, NewToken, NewEstimateId
<1>5. IndexOK'
  BY <1>1, <1>2, <1>3, <1>4 DEF TypeOK, IndexOK
<1>6. QED
  BY <1>1, <1>2, <1>3, <1>5 DEF NewEstimateId, NewToken

LEMMA SetCurrentType ==
    ASSUME JobsOK, NEW j, NEW e \in EstimateIds, SetCurrentEstimate(j, e),
           drawn'.jobs = drawn.jobs
    PROVE  JobsOK'
BY DEF JobsOK, SetCurrentEstimate, JobRow

LEMMA TypeInit == Init => TypeOK
BY ConstantsAssumption
DEF Init, TypeOK, DrawnOK, JobsOK, EstimatesOK, IndexOK, AnswersOK

LEMMA TypeJobRequest == TypeOK /\ JobRequest => TypeOK'
<1> SUFFICES ASSUME TypeOK, JobRequest PROVE TypeOK'
  OBVIOUS
<1>1. CASE CreateJob
  <2>1. /\ drawn.jobs \in 0..MaxJobs /\ drawn.jobs + 1 \in 1..MaxJobs
        /\ drawn' = [drawn EXCEPT !.jobs = drawn.jobs + 1]
    BY <1>1, DrawnFacts DEF CreateJob, TypeOK, NewJobId, JobIds
  <2>2. /\ drawn'.jobs = drawn.jobs + 1
        /\ drawn'.estimates = drawn.estimates
        /\ drawn'.tokens = drawn.tokens
        /\ DrawnOK'
    BY <2>1, DrawnFacts DEF TypeOK, DrawnOK
  <2>3. /\ DOMAIN jobs' = DOMAIN jobs \cup {drawn.jobs + 1}
        /\ jobs'[drawn.jobs + 1] \in JobRow
        /\ \A x \in DOMAIN jobs : x # drawn.jobs + 1 => jobs'[x] = jobs[x]
    BY <1>1, ConstantsAssumption DEF Put, CreateJob, NewJobId, JobRow
  <2>4. JobsOK'
    BY <2>1, <2>2, <2>3 DEF TypeOK, JobsOK
  <2>5. EstimatesOK' /\ IndexOK' /\ AnswersOK' /\ today' = today
    BY <1>1, <2>2 DEF TypeOK, EstimatesOK, IndexOK, AnswersOK, CreateJob
  <2>6. QED
    BY <2>2, <2>4, <2>5 DEF TypeOK
<1>2. ASSUME NEW j \in DOMAIN jobs, NEW s \in JobStatuses, UpdateJobStatus(j, s)
      PROVE  TypeOK'
  <2>1. JobsOK'
    BY <1>2 DEF UpdateJobStatus, TypeOK, JobsOK, JobRow
  <2>2. QED
    BY <1>2, <2>1
    DEF UpdateJobStatus, TypeOK, DrawnOK, EstimatesOK, IndexOK, AnswersOK
<1>3. ASSUME NEW j \in DOMAIN jobs, DeleteJob(j)
      PROVE  TypeOK'
  BY <1>3
  DEF Drop, Restrict, DeleteJob, TypeOK, DrawnOK, JobsOK, EstimatesOK, IndexOK, AnswersOK
<1>4. ASSUME NEW j \in DOMAIN jobs, NEW c \in Contents, NEW d \in ValidDays,
             CreateEstimate(j, c, d)
      PROVE  TypeOK'
  <2>1. /\ IndexOK' /\ DrawnOK' /\ drawn'.jobs = drawn.jobs
        /\ drawn'.estimates = NewEstimateId
        /\ NewEstimateId = drawn.estimates + 1
        /\ NewEstimateId \in EstimateIds
        /\ NewToken \in Tokens
    BY <1>4, IssueType DEF CreateEstimate, EstimateIds, Tokens
  <2>2. JobsOK'
    BY <1>4, <2>1, SetCurrentType DEF CreateEstimate, TypeOK
  <2>3. j \in JobIds /\ today + d \in Int /\ today \in Int
    BY ConstantsAssumption, DrawnFacts DEF TypeOK, JobIds, JobsOK
  <2>4. estimates'[NewEstimateId] \in EstimateRow
    BY <1>4, <2>1, <2>3
    DEF Put, CreateEstimate, EstimateRow, EstimateStatuses, Day
  <2>5. /\ DOMAIN estimates' = DOMAIN estimates \cup {NewEstimateId}
        /\ \A x \in DOMAIN estimates :
              x # NewEstimateId => estimates'[x] = estimates[x]
    BY <1>4 DEF Put, CreateEstimate
  <2>6. EstimatesOK'
    BY <2>1, <2>4, <2>5, DrawnFacts DEF EstimatesOK, TypeOK
  <2>7. QED
    BY <1>4, <2>1, <2>2, <2>6 DEF CreateEstimate, TypeOK, AnswersOK
<1>5. ASSUME CreateEstimateThrows
      PROVE  TypeOK'
  <2>1. IndexOK' /\ DrawnOK' /\ drawn'.jobs = drawn.jobs
        /\ drawn'.estimates = drawn.estimates + 1
    BY <1>5, IssueType DEF CreateEstimateThrows
  <2>2. JobsOK' /\ EstimatesOK'
    BY <1>5, <2>1, DrawnFacts
    DEF CreateEstimateThrows, TypeOK, JobsOK, EstimatesOK
  <2>3. QED
    BY <1>5, <2>1, <2>2 DEF CreateEstimateThrows, TypeOK, AnswersOK
<1>6. QED
  BY <1>1, <1>2, <1>3, <1>4, <1>5 DEF JobRequest

\* A step that rewrites the row of one estimate keeps the estimates' types
\* when the new row is one.
LEMMA RewriteType ==
    ASSUME EstimatesOK, NEW e \in DOMAIN estimates, NEW row \in EstimateRow,
           estimates' = [estimates EXCEPT ![e] = row], drawn' = drawn
    PROVE  EstimatesOK'
BY DEF EstimatesOK

LEMMA ApprovalType ==
    ASSUME TypeOK, NEW e \in DOMAIN estimates, NEW by \in {"staff", "customer"},
           RecordApproval(e, by), drawn' = drawn
    PROVE  EstimatesOK' /\ JobsOK'
<1>1. estimates' = [estimates EXCEPT ![e] =
                      [estimates[e] EXCEPT !.status = "approved", !.decidedBy = by]]
  BY DEF RecordApproval
<1>2. [estimates[e] EXCEPT !.status = "approved", !.decidedBy = by] \in EstimateRow
  BY DEF TypeOK, EstimatesOK, EstimateRow, EstimateStatuses
<1>3. EstimatesOK'
  BY <1>1, <1>2, RewriteType DEF TypeOK
<1>4. JobsOK'
  BY ConstantsAssumption DEF RecordApproval, TypeOK, JobsOK, JobRow
<1>5. QED
  BY <1>3, <1>4

LEMMA RejectionType ==
    ASSUME TypeOK, NEW e \in DOMAIN estimates, NEW by \in {"staff", "customer"},
           RecordRejection(e, by), drawn' = drawn
    PROVE  EstimatesOK' /\ JobsOK'
<1>1. estimates' = [estimates EXCEPT ![e] =
                      [estimates[e] EXCEPT !.status = "rejected", !.decidedBy = by]]
  BY DEF RecordRejection
<1>2. [estimates[e] EXCEPT !.status = "rejected", !.decidedBy = by] \in EstimateRow
  BY DEF TypeOK, EstimatesOK, EstimateRow, EstimateStatuses
<1>3. EstimatesOK'
  BY <1>1, <1>2, RewriteType DEF TypeOK
<1>4. QED
  BY <1>3 DEF RecordRejection, TypeOK, JobsOK

LEMMA TypeStaffRequest ==
    ASSUME TypeOK, NEW e \in DOMAIN estimates
    PROVE
        /\ \A c \in Contents, d \in ValidDays \cup {None} :
              UpdateEstimate(e, c, d) => TypeOK'
        /\ \A c \in Contents, d \in ValidDays, co \in BOOLEAN :
              ReviseEstimate(e, c, d, co) => TypeOK'
        /\ \A co \in BOOLEAN : ReviseEstimateThrows(e, co) => TypeOK'
        /\ \A c \in Contents, d \in DatelessDays :
              UpdateEstimateThrows(e, c, d) => TypeOK'
        /\ MarkSent(e) => TypeOK'
        /\ MarkSentThrows(e) => TypeOK'
        /\ StaffApprove(e) => TypeOK'
        /\ StaffReject(e) => TypeOK'
        /\ Expire(e) => TypeOK'
        /\ RegenerateShareLink(e) => TypeOK'
        /\ DeleteEstimate(e) => TypeOK'
<1> USE DEF TypeOK
<1>0. estimates[e] \in EstimateRow /\ today \in Nat
  BY ConstantsAssumption DEF EstimatesOK
<1>1. ASSUME NEW c \in Contents, NEW d \in ValidDays \cup {None},
             UpdateEstimate(e, c, d)
      PROVE  TypeOK'
  <2>1. estimates'[e] \in EstimateRow
    BY <1>0, <1>1, ConstantsAssumption DEF UpdateEstimate, EstimateRow, Day
  <2>2. EstimatesOK'
    BY <1>1, <2>1 DEF UpdateEstimate, EstimatesOK
  <2>3. QED
    BY <1>1, <2>2 DEF UpdateEstimate, DrawnOK, JobsOK, IndexOK, AnswersOK
<1>2. ASSUME NEW c \in Contents, NEW d \in ValidDays, NEW co \in BOOLEAN,
             ReviseEstimate(e, c, d, co)
      PROVE  TypeOK'
  <2>1. /\ IndexOK' /\ DrawnOK' /\ drawn'.jobs = drawn.jobs
        /\ drawn'.estimates = NewEstimateId
        /\ NewEstimateId = drawn.estimates + 1
        /\ NewEstimateId \in EstimateIds
        /\ NewEstimateId \notin DOMAIN estimates
        /\ NewToken \in Tokens
    BY <1>2, IssueType DEF ReviseEstimate, EstimateIds, Tokens
  <2>2. JobsOK'
    BY <1>2, <2>1, SetCurrentType DEF ReviseEstimate
  <2>3. today + d \in Int /\ e \in EstimateIds
    BY <1>0, ConstantsAssumption, DrawnFacts DEF EstimatesOK, EstimateIds
  <2>4. Revision(e, c, d, co) \in EstimateRow
    <3>1. estimates[e].version + 1 \in Nat /\ today \in Nat
      BY <1>0 DEF EstimateRow
    <3>2. {"draft"} \subseteq EstimateStatuses
      BY DEF EstimateStatuses
    <3>3. today + d \in Day /\ today \in Day /\ d \in ValidDays \cup DatelessDays
      BY <2>3, <3>1 DEF Day
    <3>4. QED
      BY <1>0, <2>1, <2>3, <3>1, <3>2, <3>3 DEF Revision, EstimateRow
  <2>5. Superseded(e, NewEstimateId)[e] \in EstimateRow
    BY <1>0, <2>1 DEF Superseded, EstimateRow, EstimateStatuses
  <2>6. /\ DOMAIN Superseded(e, NewEstimateId) = DOMAIN estimates
        /\ \A x \in DOMAIN estimates :
              x # e => Superseded(e, NewEstimateId)[x] = estimates[x]
    BY DEF Superseded
  <2>7. /\ DOMAIN estimates' = DOMAIN estimates \cup {NewEstimateId}
        /\ estimates'[NewEstimateId] = Revision(e, c, d, co)
        /\ \A x \in DOMAIN estimates :
              estimates'[x] = Superseded(e, NewEstimateId)[x]
    BY <1>2, <2>1, <2>6 DEF Put, ReviseEstimate
  <2>8. EstimatesOK'
    BY <2>1, <2>4, <2>5, <2>6, <2>7, DrawnFacts DEF EstimatesOK
  <2>9. QED
    BY <1>2, <2>1, <2>2, <2>8 DEF ReviseEstimate, AnswersOK
<1>3. ASSUME NEW co \in BOOLEAN, ReviseEstimateThrows(e, co)
      PROVE  TypeOK'
  <2>1. /\ IndexOK' /\ DrawnOK' /\ drawn'.jobs = drawn.jobs
        /\ drawn'.estimates = drawn.estimates + 1
    BY <1>3, IssueType DEF ReviseEstimateThrows
  <2>2. JobsOK' /\ EstimatesOK'
    BY <1>3, <2>1, DrawnFacts DEF ReviseEstimateThrows, JobsOK, EstimatesOK
  <2>3. QED
    BY <1>3, <2>1, <2>2 DEF ReviseEstimateThrows, AnswersOK
<1>4. ASSUME MarkSent(e) PROVE TypeOK'
  <2>1. estimates'[e] \in EstimateRow
    BY <1>0, <1>4, ConstantsAssumption
    DEF MarkSent, EstimateRow, EstimateStatuses, Day
  <2>2. EstimatesOK'
    BY <1>4, <2>1 DEF MarkSent, EstimatesOK
  <2>3. QED
    BY <1>4, <2>2 DEF MarkSent, DrawnOK, JobsOK, IndexOK, AnswersOK
<1>5. ASSUME StaffApprove(e) PROVE TypeOK'
  BY <1>5, ApprovalType DEF StaffApprove, DrawnOK, IndexOK, AnswersOK
<1>6. ASSUME StaffReject(e) PROVE TypeOK'
  BY <1>6, RejectionType DEF StaffReject, DrawnOK, IndexOK, AnswersOK
<1>7. ASSUME Expire(e) PROVE TypeOK'
  <2>1. EstimatesOK'
    BY <1>0, <1>7 DEF Expire, EstimatesOK, EstimateRow, EstimateStatuses
  <2>2. QED
    BY <1>7, <2>1 DEF Expire, DrawnOK, JobsOK, IndexOK, AnswersOK
<1>8. ASSUME RegenerateShareLink(e) PROVE TypeOK'
  <2>1. /\ NewToken = drawn.tokens + 1
        /\ NewToken \in 1..MaxTokens
        /\ drawn' = [drawn EXCEPT !.tokens = drawn.tokens + 1]
    BY <1>8 DEF RegenerateShareLink, NewToken, Tokens
  <2>2. /\ drawn'.jobs = drawn.jobs
        /\ drawn'.estimates = drawn.estimates
        /\ drawn'.tokens = NewToken
        /\ DrawnOK'
    BY <2>1, DrawnFacts DEF DrawnOK
  <2>3. EstimatesOK'
    BY <1>0, <1>8, <2>1, <2>2 DEF RegenerateShareLink, EstimatesOK, EstimateRow, Tokens
  <2>4. IndexOK'
    <3>1. DOMAIN tokenIndex' \subseteq DOMAIN tokenIndex \cup {NewToken}
      BY <1>8 DEF Put, Drop, Restrict, RegenerateShareLink
    <3>2. tokenIndex'[NewToken] = e
      BY <1>8 DEF Put, RegenerateShareLink
    <3>3. \A t \in DOMAIN tokenIndex' :
             t # NewToken => t \in DOMAIN tokenIndex /\ tokenIndex'[t] = tokenIndex[t]
      BY <1>8 DEF Put, Drop, Restrict, RegenerateShareLink
    <3>4. QED
      BY <2>1, <2>2, <3>1, <3>2, <3>3, DrawnFacts DEF IndexOK, EstimatesOK
  <2>5. QED
    BY <1>8, <2>2, <2>3, <2>4 DEF RegenerateShareLink, JobsOK, AnswersOK
<1>9. ASSUME DeleteEstimate(e) PROVE TypeOK'
  BY <1>9
  DEF Drop, Restrict, DeleteEstimate, DrawnOK, JobsOK, EstimatesOK, IndexOK, AnswersOK
<1>10. ASSUME NEW c \in Contents, NEW d \in DatelessDays,
              UpdateEstimateThrows(e, c, d)
       PROVE  TypeOK'
  <2>1. EstimatesOK'
    BY <1>0, <1>10 DEF UpdateEstimateThrows, EstimatesOK, EstimateRow
  <2>2. QED
    BY <1>10, <2>1 DEF UpdateEstimateThrows, DrawnOK, JobsOK, IndexOK, AnswersOK
<1>11. ASSUME MarkSentThrows(e) PROVE TypeOK'
  <2>1. EstimatesOK'
    BY <1>0, <1>11
    DEF MarkSentThrows, EstimatesOK, EstimateRow, EstimateStatuses
  <2>2. QED
    BY <1>11, <2>1 DEF MarkSentThrows, DrawnOK, JobsOK, IndexOK, AnswersOK
<1>12. QED
  BY <1>1, <1>2, <1>3, <1>4, <1>5, <1>6, <1>7, <1>8, <1>9, <1>10, <1>11

LEMMA TypeCustomerRequest == TypeOK /\ CustomerRequest => TypeOK'
<1> SUFFICES ASSUME TypeOK, NEW t \in DOMAIN tokenIndex, Resolves(t),
                    PublicView(t) \/ PublicApprove(t) \/ PublicReject(t)
             PROVE  TypeOK'
  BY DEF CustomerRequest
<1> DEFINE e == tokenIndex[t]
<1>0. /\ e \in DOMAIN estimates /\ estimates[e] \in EstimateRow
      /\ e \in EstimateIds /\ t \in Tokens /\ today \in Nat
  BY ConstantsAssumption, DrawnFacts
  DEF Resolves, TypeOK, EstimatesOK, IndexOK, EstimateIds, Tokens
<1>1. CASE PublicView(t)
  <2>1. EstimatesOK'
    BY <1>0, <1>1 DEF PublicView, TypeOK, EstimatesOK, EstimateRow
  <2>2. QED
    BY <1>1, <2>1 DEF PublicView, TypeOK, DrawnOK, JobsOK, IndexOK, AnswersOK
<1>2. ASSUME NEW action \in Actions, FirstAnswer(t, action)
      PROVE  TypeOK'
  <2>1. EstimatesOK' /\ JobsOK'
    BY <1>0, <1>2, ApprovalType, RejectionType DEF FirstAnswer
  <2>2. AnswersOK'
    <3>1. [estimateId |-> e, action |-> action, shareToken |-> t, at |-> today]
             \in LedgerEntry
      BY <1>0 DEF LedgerEntry, Day
    <3>2. ledger' \in Seq(LedgerEntry)
      BY <1>2, <3>1 DEF FirstAnswer, Record, TypeOK, AnswersOK
    <3>3. QED
      BY <1>0, <1>2, <3>2 DEF FirstAnswer, Answer, TypeOK, AnswersOK
  <2>3. QED
    BY <1>2, <2>1, <2>2 DEF FirstAnswer, TypeOK, DrawnOK, IndexOK
<1>3. ASSUME NEW action \in Actions, RepeatAnswer(t, action)
      PROVE  TypeOK'
  BY <1>0, <1>3
  DEF RepeatAnswer, Answer, TypeOK, DrawnOK, JobsOK, EstimatesOK, IndexOK, AnswersOK
<1>4. QED
  BY <1>1, <1>2, <1>3 DEF PublicApprove, PublicReject, Actions

LEMMA TypeStep == TypeOK /\ [Next]_vars => TypeOK'
<1> SUFFICES ASSUME TypeOK, [Next]_vars PROVE TypeOK'
  OBVIOUS
<1>1. CASE StaffRequest
  BY <1>1, TypeStaffRequest DEF StaffRequest
<1>2. CASE Tick
  BY <1>2, ConstantsAssumption
  DEF Tick, TypeOK, DrawnOK, JobsOK, EstimatesOK, IndexOK, AnswersOK
<1>3. CASE UNCHANGED vars
  BY <1>3 DEF vars, TypeOK, DrawnOK, JobsOK, EstimatesOK, IndexOK, AnswersOK
<1>4. QED
  BY <1>1, <1>2, <1>3, TypeJobRequest, TypeCustomerRequest DEF Next

\* Every row the store can come to hold has the shape the code reads, whatever
\* the requests and however many ids are drawn.
THEOREM TypeCorrect == Spec => []TypeOK
BY TypeInit, TypeStep, PTL DEF Spec

-----------------------------------------------------------------------------
(* The inductive invariant                                                   *)
(*                                                                           *)
(* Chains is what the links between rows, jobs and tokens must satisfy for   *)
(* the chain properties to be preserved; Answers is what the ledger's must.  *)
(* Every id that is referred to has been drawn, so an id drawn later is new  *)
(* everywhere, also where a deleted row is still referred to.                *)

IdsDrawn ==
    /\ \A j \in DOMAIN jobs :
          jobs[j].currentEstimateId # None =>
             jobs[j].currentEstimateId <= drawn.estimates
    /\ \A e \in DOMAIN estimates :
          estimates[e].rootEstimateId <= drawn.estimates

RowsLinked ==
    \A e \in DOMAIN estimates :
       /\ estimates[e].jobId \in DOMAIN jobs
       /\ estimates[e].version >= 1
       /\ estimates[e].previousVersionId = None => estimates[e].version = 1
       /\ estimates[e].supersededBy # None =>
             estimates[e].status \in {"approved", "superseded"}

\* Every version but the latest one of its chain has been replaced.
OlderAreReplaced ==
    \A a, b \in DOMAIN estimates :
       SameChain(a, b) /\ estimates[a].version < estimates[b].version =>
          estimates[a].supersededBy # None

Chains ==
    /\ IdsDrawn
    /\ RowsLinked
    /\ OlderAreReplaced
    /\ LinearHistory
    /\ ChainsWalkBack
    /\ CurrentIsNotOutdated
    /\ ShareLinksResolve

LedgerDrawn == \A i \in DOMAIN ledger : ledger[i].estimateId <= drawn.estimates

Answers == LedgerDrawn /\ LedgerAgrees /\ AnsweredInTime

IInv == TypeOK /\ Chains /\ Answers

-----------------------------------------------------------------------------
(* Chains is kept                                                            *)

SameLinks(r, q) ==
    /\ r.jobId = q.jobId
    /\ r.version = q.version
    /\ r.rootEstimateId = q.rootEstimateId
    /\ r.previousVersionId = q.previousVersionId
    /\ r.supersededBy = q.supersededBy
    /\ r.isChangeOrder = q.isChangeOrder
    /\ r.shareToken = q.shareToken

\* A step that adds, removes and relinks nothing, and changes the status of
\* open estimates only.
KeepsRows ==
    /\ DOMAIN estimates' = DOMAIN estimates
    /\ \A e \in DOMAIN estimates :
          /\ SameLinks(estimates'[e], estimates[e])
          /\ ~Open(e) => estimates'[e].status = estimates[e].status
    /\ DOMAIN jobs' = DOMAIN jobs
    /\ \A j \in DOMAIN jobs :
          jobs'[j].currentEstimateId = jobs[j].currentEstimateId
    /\ tokenIndex' = tokenIndex
    /\ drawn' = drawn

LEMMA KeepsRowsKeepsChains == Chains /\ KeepsRows => Chains'
<1> SUFFICES ASSUME Chains, KeepsRows PROVE Chains'
  OBVIOUS
<1> USE DEF KeepsRows, SameLinks
<1>1. IdsDrawn'
  BY DEF Chains, IdsDrawn
<1>2. RowsLinked'
  BY DEF Chains, RowsLinked, Open
<1>3. OlderAreReplaced'
  BY DEF Chains, OlderAreReplaced, SameChain
<1>4. LinearHistory'
  BY DEF Chains, LinearHistory, SameChain
<1>5. ChainsWalkBack'
  BY DEF Chains, ChainsWalkBack, SameChain, Open
<1>6. CurrentIsNotOutdated'
  BY DEF Chains, CurrentIsNotOutdated
<1>7. ShareLinksResolve'
  BY DEF Chains, ShareLinksResolve, Resolves
<1>8. QED
  BY <1>1, <1>2, <1>3, <1>4, <1>5, <1>6, <1>7 DEF Chains

LEMMA RewritesKeepRows ==
    ASSUME TypeOK, NEW e \in DOMAIN estimates
    PROVE
        /\ \A c \in Contents, d \in ValidDays \cup {None} :
              UpdateEstimate(e, c, d) => KeepsRows
        /\ \A c \in Contents, d \in DatelessDays :
              UpdateEstimateThrows(e, c, d) => KeepsRows
        /\ MarkSent(e) => KeepsRows
        /\ MarkSentThrows(e) => KeepsRows
        /\ \A by \in {"staff", "customer"} :
              RecordApproval(e, by) /\ UNCHANGED <<tokenIndex, drawn>>
                 => KeepsRows
        /\ \A by \in {"staff", "customer"} :
              RecordRejection(e, by) /\ UNCHANGED <<tokenIndex, drawn>>
                 => KeepsRows
        /\ Expire(e) => KeepsRows
<1> USE DEF KeepsRows, SameLinks, TypeOK, EstimatesOK, EstimateRow, Open
<1>1. ASSUME NEW c \in Contents, NEW d \in ValidDays \cup {None},
             UpdateEstimate(e, c, d)
      PROVE  KeepsRows
  BY <1>1 DEF UpdateEstimate
<1>2. ASSUME MarkSent(e) \/ MarkSentThrows(e) PROVE KeepsRows
  BY <1>2 DEF MarkSent, MarkSentThrows
<1>3. ASSUME NEW by \in {"staff", "customer"}, RecordApproval(e, by),
             UNCHANGED <<tokenIndex, drawn>>
      PROVE  KeepsRows
  BY <1>3 DEF RecordApproval, JobsOK, JobRow
<1>4. ASSUME NEW by \in {"staff", "customer"}, RecordRejection(e, by),
             UNCHANGED <<tokenIndex, drawn>>
      PROVE  KeepsRows
  BY <1>4 DEF RecordRejection
<1>5. ASSUME Expire(e) PROVE KeepsRows
  BY <1>5 DEF Expire
<1>6. ASSUME NEW c \in Contents, NEW d \in DatelessDays,
             UpdateEstimateThrows(e, c, d)
      PROVE  KeepsRows
  BY <1>6 DEF UpdateEstimateThrows
<1>7. QED
  BY <1>1, <1>2, <1>3, <1>4, <1>5, <1>6

\* Storing a row under the id its token was issued for.
LEMMA StoredLinkResolves ==
    ASSUME TypeOK, ShareLinksResolve, DrawEstimateAndToken,
           IssueShareToken(NewEstimateId),
           DOMAIN estimates' = DOMAIN estimates \cup {NewEstimateId},
           estimates'[NewEstimateId].shareToken = NewToken,
           \A x \in DOMAIN estimates :
              estimates'[x].shareToken = estimates[x].shareToken
    PROVE  ShareLinksResolve'
<1>1. /\ NewToken \notin DOMAIN tokenIndex
      /\ NewEstimateId \notin DOMAIN estimates
      /\ \A t \in DOMAIN tokenIndex : tokenIndex[t] # NewEstimateId
  BY IssueType, DrawnFacts DEF TypeOK, IndexOK
<1>2. /\ DOMAIN tokenIndex' = DOMAIN tokenIndex \cup {NewToken}
      /\ tokenIndex'[NewToken] = NewEstimateId
      /\ \A t \in DOMAIN tokenIndex :
            t # NewToken => tokenIndex'[t] = tokenIndex[t]
  BY DEF IssueShareToken, Put
<1>3. QED
  BY <1>1, <1>2 DEF ShareLinksResolve, Resolves

\* A token issued for a request that fails resolves to nothing.
LEMMA LeakedLinkResolvesToNothing ==
    ASSUME TypeOK, Chains, DrawEstimateAndToken,
           IssueShareToken(NewEstimateId), UNCHANGED <<jobs, estimates>>
    PROVE  Chains'
<1>1. /\ NewToken \notin DOMAIN tokenIndex
      /\ NewEstimateId \notin DOMAIN estimates
      /\ drawn'.estimates = drawn.estimates + 1
      /\ drawn.estimates \in Nat
  BY IssueType, DrawnFacts DEF TypeOK
<1>2. /\ DOMAIN tokenIndex' = DOMAIN tokenIndex \cup {NewToken}
      /\ tokenIndex'[NewToken] = NewEstimateId
      /\ \A t \in DOMAIN tokenIndex :
            t # NewToken => tokenIndex'[t] = tokenIndex[t]
  BY DEF IssueShareToken, Put
<1>3. ShareLinksResolve'
  BY <1>1, <1>2 DEF Chains, ShareLinksResolve, Resolves
<1>4. IdsDrawn'
  BY <1>1
  DEF Chains, IdsDrawn, TypeOK, JobsOK, EstimatesOK, JobRow, EstimateRow,
      EstimateIds
<1>5. QED
  BY <1>3, <1>4
  DEF Chains, RowsLinked, OlderAreReplaced, LinearHistory, ChainsWalkBack,
      CurrentIsNotOutdated, SameChain

LEMMA CreateJobKeepsChains == TypeOK /\ Chains /\ CreateJob => Chains'
<1> SUFFICES ASSUME TypeOK, Chains, CreateJob PROVE Chains'
  OBVIOUS
<1>1. /\ DOMAIN jobs' = DOMAIN jobs \cup {NewJobId}
      /\ jobs'[NewJobId].currentEstimateId = None
      /\ \A j \in DOMAIN jobs : j # NewJobId => jobs'[j] = jobs[j]
      /\ UNCHANGED <<estimates, tokenIndex>>
      /\ drawn'.estimates = drawn.estimates
  BY DEF CreateJob, Put, TypeOK, DrawnOK
<1>2. None \notin DOMAIN estimates
  BY ConstantsAssumption, DrawnFacts DEF TypeOK, EstimatesOK
<1>3. IdsDrawn' /\ RowsLinked' /\ CurrentIsNotOutdated'
  BY <1>1, <1>2 DEF Chains, IdsDrawn, RowsLinked, CurrentIsNotOutdated
<1>4. QED
  BY <1>1, <1>3
  DEF Chains, OlderAreReplaced, LinearHistory, ChainsWalkBack, SameChain,
      ShareLinksResolve, Resolves

LEMMA CreateEstimateKeepsChains ==
    ASSUME TypeOK, Chains, NEW j \in DOMAIN jobs, NEW c \in Contents,
           NEW d \in ValidDays, CreateEstimate(j, c, d)
    PROVE  Chains'
<1> DEFINE n == NewEstimateId
<1>1. /\ n \notin DOMAIN estimates /\ n = drawn.estimates + 1
      /\ drawn'.estimates = n /\ drawn.estimates \in Nat
      /\ n # None
  BY IssueType, DrawnFacts, ConstantsAssumption DEF CreateEstimate, TypeOK
<1>2. /\ DOMAIN estimates' = DOMAIN estimates \cup {n}
      /\ \A x \in DOMAIN estimates : estimates'[x] = estimates[x]
      /\ estimates'[n].jobId = j
      /\ estimates'[n].version = 1
      /\ estimates'[n].rootEstimateId = n
      /\ estimates'[n].previousVersionId = None
      /\ estimates'[n].supersededBy = None
      /\ estimates'[n].shareToken = NewToken
  BY <1>1 DEF CreateEstimate, Put
<1>3. /\ DOMAIN jobs' = DOMAIN jobs
      /\ jobs'[j].currentEstimateId = n
      /\ \A x \in DOMAIN jobs : x # j => jobs'[x] = jobs[x]
  BY DEF CreateEstimate, SetCurrentEstimate, TypeOK, JobsOK, JobRow
<1>4. \A x \in DOMAIN estimates :
         /\ estimates[x].rootEstimateId \in Nat
         /\ estimates[x].rootEstimateId # n
         /\ estimates[x].version \in Nat
  BY <1>1 DEF Chains, IdsDrawn, TypeOK, EstimatesOK, EstimateRow, EstimateIds
<1>5. IdsDrawn'
  BY <1>1, <1>2, <1>3, <1>4
  DEF Chains, IdsDrawn, TypeOK, JobsOK, JobRow, EstimateIds
<1>6. RowsLinked'
  BY <1>2, <1>3 DEF Chains, RowsLinked
<1>7. OlderAreReplaced' /\ LinearHistory'
  BY <1>2, <1>4 DEF Chains, OlderAreReplaced, LinearHistory, SameChain
<1>8. ChainsWalkBack'
  BY <1>1, <1>2 DEF Chains, ChainsWalkBack, SameChain
<1>9. CurrentIsNotOutdated'
  BY <1>1, <1>2, <1>3 DEF Chains, CurrentIsNotOutdated, IdsDrawn
<1>10. ShareLinksResolve'
  BY <1>2, StoredLinkResolves DEF Chains, CreateEstimate
<1>11. QED
  BY <1>5, <1>6, <1>7, <1>8, <1>9, <1>10 DEF Chains

LEMMA ReviseKeepsChains ==
    ASSUME TypeOK, Chains, NEW e \in DOMAIN estimates, NEW c \in Contents,
           NEW d \in ValidDays, NEW co \in BOOLEAN, ReviseEstimate(e, c, d, co)
    PROVE  Chains'
<1> DEFINE n == NewEstimateId
<1>1. /\ n \notin DOMAIN estimates /\ n = drawn.estimates + 1
      /\ drawn'.estimates = n /\ drawn.estimates \in Nat
      /\ n # None /\ e # n /\ e # None
  BY IssueType, DrawnFacts, ConstantsAssumption
  DEF ReviseEstimate, TypeOK, EstimatesOK
<1>2. /\ DOMAIN estimates' = DOMAIN estimates \cup {n}
      /\ \A x \in DOMAIN estimates : x # e => estimates'[x] = estimates[x]
      /\ estimates'[n] = Revision(e, c, d, co)
      /\ estimates'[e] = [estimates[e] EXCEPT
                            !.supersededBy = n,
                            !.status = IF estimates[e].status = "approved"
                                       THEN "approved" ELSE "superseded"]
  BY <1>1 DEF ReviseEstimate, Superseded, Put
<1>3. /\ estimates'[n].jobId = estimates[e].jobId
      /\ estimates'[n].version = estimates[e].version + 1
      /\ estimates'[n].rootEstimateId = estimates[e].rootEstimateId
      /\ estimates'[n].previousVersionId = e
      /\ estimates'[n].supersededBy = None
      /\ estimates'[n].isChangeOrder = co
      /\ estimates'[n].shareToken = NewToken
  BY <1>2 DEF Revision, TypeOK, EstimatesOK, EstimateRow
<1>4. /\ estimates'[e].jobId = estimates[e].jobId
      /\ estimates'[e].version = estimates[e].version
      /\ estimates'[e].rootEstimateId = estimates[e].rootEstimateId
      /\ estimates'[e].previousVersionId = estimates[e].previousVersionId
      /\ estimates'[e].supersededBy = n
      /\ estimates'[e].isChangeOrder = estimates[e].isChangeOrder
      /\ estimates'[e].shareToken = estimates[e].shareToken
      /\ estimates'[e].status \in {"approved", "superseded"}
      /\ estimates[e].status = "approved" => estimates'[e].status = "approved"
  BY <1>2 DEF TypeOK, EstimatesOK, EstimateRow
<1>5. /\ estimates[e].supersededBy = None
      /\ co => estimates[e].status = "approved"
  BY DEF ReviseEstimate, CanRevise
<1>6. /\ DOMAIN jobs' = DOMAIN jobs
      /\ estimates[e].jobId \in DOMAIN jobs
      /\ jobs'[estimates[e].jobId].currentEstimateId = n
      /\ \A x \in DOMAIN jobs : x # estimates[e].jobId => jobs'[x] = jobs[x]
  BY DEF ReviseEstimate, SetCurrentEstimate, TypeOK, JobsOK, JobRow, Chains,
         RowsLinked
<1>7. \A x \in DOMAIN estimates :
         /\ estimates[x].rootEstimateId \in Nat
         /\ estimates[x].version \in Nat
         /\ estimates[x].version >= 1
  BY DEF Chains, RowsLinked, TypeOK, EstimatesOK, EstimateRow, EstimateIds
\* No stored version follows e, so the new one is the first to.
<1>8. \A x \in DOMAIN estimates :
         SameChain(x, e) => estimates[x].version <= estimates[e].version
  BY <1>5, <1>7 DEF Chains, OlderAreReplaced, SameChain
<1>9. \A x \in DOMAIN estimates : estimates[x].previousVersionId # e
  BY <1>1, <1>5, ConstantsAssumption DEF Chains, ChainsWalkBack, TypeOK,
     EstimatesOK
\* What the step changes in the rows that were there, and the row it adds.
<1>10. /\ DOMAIN estimates' = DOMAIN estimates \cup {n}
       /\ \A x \in DOMAIN estimates :
             /\ estimates'[x].jobId = estimates[x].jobId
             /\ estimates'[x].version = estimates[x].version
             /\ estimates'[x].rootEstimateId = estimates[x].rootEstimateId
             /\ estimates'[x].previousVersionId = estimates[x].previousVersionId
             /\ estimates'[x].isChangeOrder = estimates[x].isChangeOrder
             /\ x # e => /\ estimates'[x].supersededBy = estimates[x].supersededBy
                         /\ estimates'[x].status = estimates[x].status
             /\ estimates[x].status = "approved" =>
                   estimates'[x].status = "approved"
  BY <1>2, <1>4
<1>11. IdsDrawn'
  <2>1. \A x \in DOMAIN estimates' :
           estimates'[x].rootEstimateId <= drawn'.estimates
    BY <1>1, <1>3, <1>7, <1>10 DEF Chains, IdsDrawn
  <2>2. ASSUME NEW x \in DOMAIN jobs', jobs'[x].currentEstimateId # None
        PROVE  jobs'[x].currentEstimateId <= drawn'.estimates
    BY <1>1, <1>6, <2>2
    DEF Chains, IdsDrawn, TypeOK, JobsOK, JobRow, EstimateIds
  <2>3. QED
    BY <2>1, <2>2 DEF IdsDrawn
<1>12. RowsLinked'
  <2>1. ASSUME NEW x \in DOMAIN estimates
        PROVE  /\ estimates'[x].jobId \in DOMAIN jobs'
               /\ estimates'[x].version >= 1
               /\ estimates'[x].previousVersionId = None =>
                     estimates'[x].version = 1
               /\ estimates'[x].supersededBy # None =>
                     estimates'[x].status \in {"approved", "superseded"}
    BY <1>4, <1>6, <1>10 DEF Chains, RowsLinked
  <2>2. /\ estimates'[n].jobId \in DOMAIN jobs'
        /\ estimates'[n].version >= 1
        /\ estimates'[n].previousVersionId # None
        /\ estimates'[n].supersededBy = None
    BY <1>1, <1>3, <1>6, <1>7
  <2>3. QED
    BY <1>10, <2>1, <2>2 DEF RowsLinked
<1>13. OlderAreReplaced'
  <2> SUFFICES ASSUME NEW a \in DOMAIN estimates', NEW b \in DOMAIN estimates',
                      SameChain(a, b)', estimates'[a].version < estimates'[b].version
               PROVE  estimates'[a].supersededBy # None
    BY DEF OlderAreReplaced
  <2>1. CASE a = e
    BY <1>1, <1>4, <2>1
  <2>2. CASE a = n /\ b = n
    BY <1>3, <1>7, <2>2
  <2>3. CASE a = n /\ b # n
    <3>1. SameChain(b, e)
      BY <1>3, <1>10, <2>3 DEF SameChain
    <3>2. /\ estimates'[n].version = estimates[e].version + 1
          /\ estimates'[b].version = estimates[b].version
      BY <1>3, <1>10, <2>3
    <3>3. estimates[b].version <= estimates[e].version
      BY <1>8, <1>10, <2>3, <3>1
    <3>4. QED
      BY <1>7, <1>10, <2>3, <3>2, <3>3
  <2>4. CASE a # e /\ a # n /\ b # n
    <3>1. SameChain(a, b) /\ estimates[a].version < estimates[b].version
      BY <1>10, <2>4 DEF SameChain
    <3>2. QED
      BY <1>10, <2>4, <3>1 DEF Chains, OlderAreReplaced
  <2>5. CASE a # e /\ a # n /\ b = n
    <3>1. SameChain(a, e)
      BY <1>3, <1>10, <2>5 DEF SameChain
    <3>2. estimates[a].version < estimates[e].version + 1
      BY <1>3, <1>10, <2>5
    <3>3. estimates[a].version # estimates[e].version
      BY <1>10, <2>5, <3>1 DEF Chains, LinearHistory
    <3>4. estimates[a].version < estimates[e].version
      BY <1>7, <1>10, <2>5, <3>2, <3>3
    <3>5. QED
      BY <1>10, <2>5, <3>1, <3>4 DEF Chains, OlderAreReplaced
  <2>6. QED
    BY <2>1, <2>2, <2>3, <2>4, <2>5
<1>14. LinearHistory'
  <2>1. ASSUME NEW x \in DOMAIN estimates,
               estimates'[x].rootEstimateId = estimates'[n].rootEstimateId
        PROVE  estimates'[x].version # estimates'[n].version
    <3>1. SameChain(x, e)
      BY <1>3, <1>10, <2>1 DEF SameChain
    <3>2. estimates[x].version <= estimates[e].version
      BY <1>8, <3>1
    <3>3. QED
      BY <1>3, <1>7, <1>10, <3>2
  <2>2. ASSUME NEW x \in DOMAIN estimates, NEW y \in DOMAIN estimates,
               SameChain(x, y)', estimates'[x].version = estimates'[y].version
        PROVE  x = y
    BY <1>10, <2>2 DEF Chains, LinearHistory, SameChain
  <2>3. QED
    BY <1>10, <2>1, <2>2 DEF LinearHistory, SameChain
<1>15. ChainsWalkBack'
  <2> SUFFICES ASSUME NEW x \in DOMAIN estimates', NEW p,
                      p = estimates'[x].previousVersionId, p # None
               PROVE  /\ p \in DOMAIN estimates'
                      /\ estimates'[p].supersededBy = x
                      /\ estimates'[p].version + 1 = estimates'[x].version
                      /\ estimates'[p].jobId = estimates'[x].jobId
                      /\ estimates'[p].rootEstimateId =
                            estimates'[x].rootEstimateId
                      /\ estimates'[x].isChangeOrder =>
                            estimates'[p].status = "approved"
    BY DEF ChainsWalkBack, SameChain
  <2>1. CASE x = n
    BY <1>3, <1>4, <1>5, <1>10, <2>1
  <2>2. CASE x # n
    <3>1. x \in DOMAIN estimates /\ estimates[x].previousVersionId = p
      BY <1>10, <2>2
    <3>2. /\ p \in DOMAIN estimates
          /\ estimates[p].supersededBy = x
          /\ estimates[p].version + 1 = estimates[x].version
          /\ estimates[p].jobId = estimates[x].jobId
          /\ estimates[p].rootEstimateId = estimates[x].rootEstimateId
          /\ estimates[x].isChangeOrder => estimates[p].status = "approved"
      BY <3>1 DEF Chains, ChainsWalkBack, SameChain
    <3>3. p # e
      BY <1>9, <3>1
    <3>4. QED
      BY <1>10, <3>1, <3>2, <3>3
  <2>3. QED
    BY <2>1, <2>2
<1>16. CurrentIsNotOutdated'
  BY <1>1, <1>2, <1>3, <1>4, <1>6 DEF Chains, CurrentIsNotOutdated, IdsDrawn
<1>17. ShareLinksResolve'
  <2>1. \A x \in DOMAIN estimates :
           estimates'[x].shareToken = estimates[x].shareToken
    BY <1>2, <1>4
  <2>2. QED
    BY <1>2, <1>3, <2>1, StoredLinkResolves DEF Chains, ReviseEstimate
<1>18. QED
  BY <1>11, <1>12, <1>13, <1>14, <1>15, <1>16, <1>17 DEF Chains

LEMMA RegenerateKeepsChains ==
    ASSUME TypeOK, Chains, NEW e \in DOMAIN estimates, RegenerateShareLink(e)
    PROVE  Chains'
<1>1. /\ NewToken \notin DOMAIN tokenIndex
      /\ drawn'.estimates = drawn.estimates
  BY DrawnFacts
  DEF RegenerateShareLink, TypeOK, IndexOK, DrawnOK, NewToken, Tokens
<1>2. /\ DOMAIN tokenIndex' =
            (DOMAIN tokenIndex \ {estimates[e].shareToken}) \cup {NewToken}
      /\ tokenIndex'[NewToken] = e
      /\ \A t \in DOMAIN tokenIndex :
            t # estimates[e].shareToken /\ t # NewToken =>
               tokenIndex'[t] = tokenIndex[t]
  BY DEF RegenerateShareLink, Put, Drop, Restrict
<1>3. /\ DOMAIN estimates' = DOMAIN estimates
      /\ \A x \in DOMAIN estimates : x # e => estimates'[x] = estimates[x]
      /\ estimates'[e] = [estimates[e] EXCEPT !.shareToken = NewToken]
      /\ jobs' = jobs
  BY DEF RegenerateShareLink
<1>4. /\ estimates'[e].shareToken = NewToken
      /\ \A x \in DOMAIN estimates :
            /\ estimates'[x].jobId = estimates[x].jobId
            /\ estimates'[x].version = estimates[x].version
            /\ estimates'[x].rootEstimateId = estimates[x].rootEstimateId
            /\ estimates'[x].previousVersionId = estimates[x].previousVersionId
            /\ estimates'[x].supersededBy = estimates[x].supersededBy
            /\ estimates'[x].isChangeOrder = estimates[x].isChangeOrder
            /\ estimates'[x].status = estimates[x].status
  BY <1>3 DEF TypeOK, EstimatesOK, EstimateRow
<1>5. ShareLinksResolve'
  <2>1. ASSUME NEW x \in DOMAIN estimates, x # e
        PROVE  /\ estimates[x].shareToken # estimates[e].shareToken
               /\ estimates[x].shareToken # NewToken
               /\ estimates'[x].shareToken = estimates[x].shareToken
               /\ estimates[x].shareToken \in DOMAIN tokenIndex
               /\ tokenIndex'[estimates[x].shareToken] = x
    BY <1>1, <1>2, <1>3, <2>1 DEF Chains, ShareLinksResolve
  <2>2. \A x \in DOMAIN estimates' :
           /\ estimates'[x].shareToken \in DOMAIN tokenIndex'
           /\ tokenIndex'[estimates'[x].shareToken] = x
    <3>1. ASSUME NEW x \in DOMAIN estimates, x # e
          PROVE  /\ estimates'[x].shareToken \in DOMAIN tokenIndex'
                 /\ tokenIndex'[estimates'[x].shareToken] = x
      <4>1. estimates[x].shareToken \in DOMAIN tokenIndex'
        BY <1>2, <2>1, <3>1
      <4>2. QED
        BY <2>1, <3>1, <4>1
    <3>2. /\ estimates'[e].shareToken \in DOMAIN tokenIndex'
          /\ tokenIndex'[estimates'[e].shareToken] = e
      BY <1>2, <1>4
    <3>3. DOMAIN estimates' = DOMAIN estimates
      BY <1>3
    <3>4. QED
      BY <3>1, <3>2, <3>3
  <2>3. ASSUME NEW t \in DOMAIN tokenIndex, t # estimates[e].shareToken,
               t # NewToken, tokenIndex[t] \in DOMAIN estimates
        PROVE  estimates'[tokenIndex[t]].shareToken = t
    <3>1. estimates[tokenIndex[t]].shareToken = t /\ tokenIndex[t] # e
      BY <2>3 DEF Chains, ShareLinksResolve, Resolves
    <3>2. QED
      BY <2>1, <2>3, <3>1
  <2>4. \A t \in DOMAIN tokenIndex' :
           Resolves(t)' => estimates'[tokenIndex'[t]].shareToken = t
    BY <1>2, <1>3, <1>4, <2>3 DEF Resolves
  <2>5. QED
    BY <2>2, <2>4 DEF ShareLinksResolve, Resolves
<1>6. IdsDrawn' /\ RowsLinked' /\ CurrentIsNotOutdated'
  BY <1>1, <1>3, <1>4 DEF Chains, IdsDrawn, RowsLinked, CurrentIsNotOutdated
<1>7. OlderAreReplaced' /\ LinearHistory' /\ ChainsWalkBack'
  BY <1>3, <1>4
  DEF Chains, OlderAreReplaced, LinearHistory, ChainsWalkBack, SameChain
<1>8. QED
  BY <1>5, <1>6, <1>7 DEF Chains

\* Removing rows together with their links, when no row that stays was left
\* for one that goes.
LEMMA RemovalKeepsChains ==
    ASSUME TypeOK, Chains, NEW S \in SUBSET DOMAIN estimates,
           estimates' = Drop(estimates, S),
           tokenIndex' = Drop(tokenIndex, {estimates[x].shareToken : x \in S}),
           \A e \in DOMAIN estimates \ S : estimates[e].previousVersionId \notin S,
           DOMAIN jobs' \subseteq DOMAIN jobs,
           \A j \in DOMAIN jobs' : jobs'[j] = jobs[j],
           \A e \in DOMAIN estimates \ S : estimates[e].jobId \in DOMAIN jobs',
           drawn' = drawn
    PROVE  Chains'
<1>1. /\ DOMAIN estimates' = DOMAIN estimates \ S
      /\ \A x \in DOMAIN estimates' : estimates'[x] = estimates[x]
  BY DEF Drop, Restrict
<1>2. /\ DOMAIN tokenIndex' =
            DOMAIN tokenIndex \ {estimates[x].shareToken : x \in S}
      /\ \A t \in DOMAIN tokenIndex' : tokenIndex'[t] = tokenIndex[t]
  BY DEF Drop, Restrict
<1>3. ShareLinksResolve'
  <2>1. \A x \in DOMAIN estimates \ S, y \in S :
           estimates[x].shareToken # estimates[y].shareToken
    BY DEF Chains, ShareLinksResolve
  <2>2. \A x \in DOMAIN estimates' :
           /\ estimates'[x].shareToken \in DOMAIN tokenIndex'
           /\ tokenIndex'[estimates'[x].shareToken] = x
    BY <1>1, <1>2, <2>1 DEF Chains, ShareLinksResolve
  <2>3. \A t \in DOMAIN tokenIndex' :
           Resolves(t)' => estimates'[tokenIndex'[t]].shareToken = t
    BY <1>1, <1>2 DEF Chains, ShareLinksResolve, Resolves
  <2>4. QED
    BY <2>2, <2>3 DEF ShareLinksResolve, Resolves
<1>4. IdsDrawn' /\ RowsLinked' /\ CurrentIsNotOutdated'
  BY <1>1 DEF Chains, IdsDrawn, RowsLinked, CurrentIsNotOutdated
<1>5. OlderAreReplaced' /\ LinearHistory'
  BY <1>1 DEF Chains, OlderAreReplaced, LinearHistory, SameChain
<1>6. ChainsWalkBack'
  BY <1>1 DEF Chains, ChainsWalkBack, SameChain
<1>7. QED
  BY <1>3, <1>4, <1>5, <1>6 DEF Chains

LEMMA DeleteJobKeepsChains ==
    ASSUME TypeOK, Chains, NEW j \in DOMAIN jobs, DeleteJob(j)
    PROVE  Chains'
<1>1. \A e \in DOMAIN estimates \ EstimatesOf(j) :
         estimates[e].previousVersionId \notin EstimatesOf(j)
  BY ConstantsAssumption, DrawnFacts
  DEF EstimatesOf, Chains, ChainsWalkBack, TypeOK, EstimatesOK
<1>2. \A e \in DOMAIN estimates \ EstimatesOf(j) :
         estimates[e].jobId \in DOMAIN jobs \ {j}
  BY DEF EstimatesOf, Chains, RowsLinked
<1>3. /\ DOMAIN jobs' = DOMAIN jobs \ {j}
      /\ \A x \in DOMAIN jobs' : jobs'[x] = jobs[x]
  BY DEF DeleteJob, Drop, Restrict
<1>4. EstimatesOf(j) \in SUBSET DOMAIN estimates
  BY DEF EstimatesOf
<1>5. QED
  BY <1>1, <1>2, <1>3, <1>4, RemovalKeepsChains DEF DeleteJob

LEMMA DeleteEstimateKeepsChains ==
    ASSUME TypeOK, Chains, NEW e \in DOMAIN estimates, DeleteEstimate(e)
    PROVE  Chains'
<1>1. \A x \in DOMAIN estimates : estimates[x].previousVersionId # e
  BY ConstantsAssumption, DrawnFacts
  DEF DeleteEstimate, Chains, ChainsWalkBack, RowsLinked, TypeOK, EstimatesOK
<1>2. {estimates[x].shareToken : x \in {e}} = {estimates[e].shareToken}
  OBVIOUS
<1>3. \A x \in DOMAIN estimates : estimates[x].jobId \in DOMAIN jobs
  BY DEF Chains, RowsLinked
<1>4. QED
  BY <1>1, <1>2, <1>3, RemovalKeepsChains DEF DeleteEstimate

-----------------------------------------------------------------------------
(* Answers is kept                                                           *)

\* A step that records no answer, and leaves an answered row as it is but for
\* a refused one that is replaced.
KeepsAnswers ==
    /\ ledger' = ledger
    /\ drawn'.estimates \in Nat
    /\ drawn.estimates <= drawn'.estimates
    /\ \A e \in DOMAIN estimates' :
          \/ e > drawn.estimates /\ estimates'[e].decidedBy # "customer"
          \/ /\ e \in DOMAIN estimates
             /\ estimates[e].decidedBy # "customer"
             /\ estimates'[e].decidedBy # "customer"
          \/ /\ e \in DOMAIN estimates
             /\ estimates'[e].decidedBy = estimates[e].decidedBy
             /\ estimates'[e].validUntil = estimates[e].validUntil
             /\ \/ estimates'[e].status = estimates[e].status
                \/ /\ estimates[e].status # "approved"
                   /\ estimates'[e].status = "superseded"

LEMMA KeepsAnswersSuffices == TypeOK /\ Answers /\ KeepsAnswers => Answers'
<1> SUFFICES ASSUME TypeOK, Answers, KeepsAnswers PROVE Answers'
  OBVIOUS
<1>1. /\ drawn.estimates \in Nat
      /\ \A i \in DOMAIN ledger :
            /\ ledger[i].estimateId \in Nat
            /\ ledger[i].estimateId <= drawn.estimates
  <2>1. drawn.estimates \in Nat
    BY DrawnFacts DEF TypeOK
  <2>2. \A i \in DOMAIN ledger : ledger[i] \in LedgerEntry
    BY DEF TypeOK, AnswersOK
  <2>3. \A i \in DOMAIN ledger : ledger[i].estimateId \in Nat
    BY <2>2, ConstantsAssumption DEF LedgerEntry, EstimateIds
  <2>4. QED
    BY <2>1, <2>3 DEF Answers, LedgerDrawn
<1>2. LedgerDrawn'
  BY <1>1 DEF KeepsAnswers, LedgerDrawn
\* A row an entry is about is an old row that the customer decided.
<1>3. ASSUME NEW i \in DOMAIN ledger, NEW e, e = ledger[i].estimateId,
             e \in DOMAIN estimates'
      PROVE  /\ e \in DOMAIN estimates
             /\ estimates[e].decidedBy = "customer"
             /\ estimates'[e].decidedBy = "customer"
             /\ estimates'[e].validUntil = estimates[e].validUntil
             /\ \/ estimates'[e].status = estimates[e].status
                \/ /\ estimates[e].status # "approved"
                   /\ estimates'[e].status = "superseded"
  BY <1>1, <1>3 DEF KeepsAnswers, Answers, LedgerAgrees
<1>4. ASSUME NEW i \in DOMAIN ledger, ledger[i].estimateId \in DOMAIN estimates'
      PROVE  LET e == ledger[i].estimateId IN
             /\ estimates'[e].decidedBy = "customer"
             /\ estimates'[e].status \in
                   IF ledger[i].action = "accepted"
                   THEN {"approved"} ELSE {"rejected", "superseded"}
             /\ ledger[i].at <= estimates'[e].validUntil
  BY <1>3, <1>4 DEF Answers, LedgerAgrees, AnsweredInTime
<1>5. ASSUME NEW e \in DOMAIN estimates', estimates'[e].decidedBy = "customer"
      PROVE  \E i \in DOMAIN ledger : ledger[i].estimateId = e
  BY <1>5 DEF KeepsAnswers, Answers, LedgerAgrees
<1>6. LedgerAgrees'
  BY <1>4, <1>5 DEF KeepsAnswers, Answers, LedgerAgrees
<1>7. AnsweredInTime'
  BY <1>4 DEF KeepsAnswers, AnsweredInTime
<1>8. QED
  BY <1>2, <1>6, <1>7 DEF Answers

\* What is still open has not been answered by the customer.
LEMMA OpenIsUnanswered ==
    ASSUME Answers, NEW e \in DOMAIN estimates, Open(e)
    PROVE  /\ estimates[e].decidedBy # "customer"
           /\ \A i \in DOMAIN ledger : ledger[i].estimateId # e
<1>1. \A i \in DOMAIN ledger : ledger[i].estimateId # e
  BY DEF Answers, LedgerAgrees, Open
<1>2. QED
  BY <1>1 DEF Answers, LedgerAgrees

\* Requests that rewrite one open row.
LEMMA OpenRowKeepsAnswers ==
    ASSUME TypeOK, Answers, NEW e \in DOMAIN estimates, Open(e),
           ledger' = ledger, drawn' = drawn,
           DOMAIN estimates' = DOMAIN estimates,
           \A x \in DOMAIN estimates : x # e => estimates'[x] = estimates[x],
           estimates'[e].decidedBy # "customer"
    PROVE  Answers'
<1>1. KeepsAnswers
  BY OpenIsUnanswered, DrawnFacts DEF KeepsAnswers, TypeOK
<1>2. QED
  BY <1>1, KeepsAnswersSuffices

LEMMA StaffRequestKeepsAnswers ==
    TypeOK /\ Answers /\ StaffRequest => Answers'
<1> SUFFICES ASSUME TypeOK, Answers, NEW e \in DOMAIN estimates
             PROVE
        /\ \A c \in Contents, d \in ValidDays \cup {None} :
              UpdateEstimate(e, c, d) => Answers'
        /\ \A co \in BOOLEAN :
              /\ \A c \in Contents, d \in ValidDays :
                    ReviseEstimate(e, c, d, co) => Answers'
              /\ ReviseEstimateThrows(e, co) => Answers'
        /\ \A c \in Contents, d \in DatelessDays :
              UpdateEstimateThrows(e, c, d) => Answers'
        /\ MarkSent(e) => Answers'
        /\ MarkSentThrows(e) => Answers'
        /\ StaffApprove(e) => Answers'
        /\ StaffReject(e) => Answers'
        /\ Expire(e) => Answers'
        /\ RegenerateShareLink(e) => Answers'
        /\ DeleteEstimate(e) => Answers'
  BY DEF StaffRequest
<1> USE DEF EstimateRow
<1>0. estimates[e] \in EstimateRow
  BY DEF TypeOK, EstimatesOK
<1>d. drawn.estimates \in Nat
  BY DrawnFacts DEF TypeOK
<1>1. ASSUME NEW c \in Contents, NEW d \in ValidDays \cup {None},
             UpdateEstimate(e, c, d)
      PROVE  Answers'
  <2>1. Open(e)
    BY <1>1 DEF UpdateEstimate, Open
  <2>2. /\ DOMAIN estimates' = DOMAIN estimates
        /\ \A x \in DOMAIN estimates : x # e => estimates'[x] = estimates[x]
        /\ estimates'[e].decidedBy = estimates[e].decidedBy
        /\ ledger' = ledger /\ drawn' = drawn
    BY <1>0, <1>1 DEF UpdateEstimate
  <2>3. QED
    BY <2>1, <2>2, OpenIsUnanswered, OpenRowKeepsAnswers
<1>2. ASSUME NEW co \in BOOLEAN, NEW c \in Contents, NEW d \in ValidDays,
             ReviseEstimate(e, c, d, co)
      PROVE  Answers'
  <2> DEFINE n == NewEstimateId
  <2>1. /\ n \notin DOMAIN estimates /\ n = drawn.estimates + 1
        /\ drawn'.estimates = n
    BY <1>2, IssueType, DrawnFacts DEF ReviseEstimate, TypeOK
  <2>2. /\ DOMAIN estimates' = DOMAIN estimates \cup {n}
        /\ \A x \in DOMAIN estimates : x # e => estimates'[x] = estimates[x]
        /\ estimates'[n] = Revision(e, c, d, co)
        /\ estimates'[e] = [estimates[e] EXCEPT
                              !.supersededBy = n,
                              !.status = IF estimates[e].status = "approved"
                                         THEN "approved" ELSE "superseded"]
    BY <1>2, <2>1 DEF ReviseEstimate, Superseded, Put
  <2>3. estimates'[n].decidedBy # "customer"
    BY <1>0, <2>2, ConstantsAssumption DEF Revision
  <2>4. /\ estimates'[e].decidedBy = estimates[e].decidedBy
        /\ estimates'[e].validUntil = estimates[e].validUntil
        /\ \/ estimates'[e].status = estimates[e].status
           \/ /\ estimates[e].status # "approved"
              /\ estimates'[e].status = "superseded"
    BY <1>0, <2>2
  <2>5. DOMAIN estimates' = DOMAIN estimates \cup {n} /\ ledger' = ledger
    BY <1>2, <2>2 DEF ReviseEstimate
  <2>6. \A x \in DOMAIN estimates : x # e => estimates'[x] = estimates[x]
    BY <2>2
  <2>7. KeepsAnswers
    BY <1>d, <2>1, <2>3, <2>4, <2>5, <2>6 DEF KeepsAnswers
  <2>8. QED
    BY <2>7, KeepsAnswersSuffices
<1>3. ASSUME NEW co \in BOOLEAN, ReviseEstimateThrows(e, co)
      PROVE  Answers'
  <2>1. drawn'.estimates = drawn.estimates + 1
    BY <1>3, IssueType DEF ReviseEstimateThrows, TypeOK
  <2>2. KeepsAnswers
    BY <1>3, <1>d, <2>1 DEF ReviseEstimateThrows, KeepsAnswers
  <2>3. QED
    BY <2>2, KeepsAnswersSuffices
<1>4. ASSUME MarkSent(e) \/ MarkSentThrows(e) PROVE Answers'
  <2>1. Open(e)
    BY <1>4 DEF MarkSent, MarkSentThrows, Open
  <2>2. /\ DOMAIN estimates' = DOMAIN estimates
        /\ \A x \in DOMAIN estimates : x # e => estimates'[x] = estimates[x]
        /\ estimates'[e].decidedBy = estimates[e].decidedBy
        /\ ledger' = ledger /\ drawn' = drawn
    BY <1>0, <1>4 DEF MarkSent, MarkSentThrows
  <2>3. QED
    BY <2>1, <2>2, OpenIsUnanswered, OpenRowKeepsAnswers
<1>5. ASSUME StaffApprove(e) \/ StaffReject(e) PROVE Answers'
  <2>1. Open(e)
    BY <1>5 DEF StaffApprove, StaffReject, RecordApproval, RecordRejection
  <2>2. /\ DOMAIN estimates' = DOMAIN estimates
        /\ \A x \in DOMAIN estimates : x # e => estimates'[x] = estimates[x]
        /\ estimates'[e].decidedBy = "staff"
        /\ ledger' = ledger /\ drawn' = drawn
    BY <1>0, <1>5 DEF StaffApprove, StaffReject, RecordApproval, RecordRejection
  <2>3. QED
    BY <2>1, <2>2, OpenRowKeepsAnswers
<1>6. ASSUME Expire(e) PROVE Answers'
  <2>1. Open(e)
    BY <1>6 DEF Expire
  <2>2. /\ DOMAIN estimates' = DOMAIN estimates
        /\ \A x \in DOMAIN estimates : x # e => estimates'[x] = estimates[x]
        /\ estimates'[e].decidedBy = estimates[e].decidedBy
        /\ ledger' = ledger /\ drawn' = drawn
    BY <1>0, <1>6 DEF Expire
  <2>3. QED
    BY <2>1, <2>2, OpenIsUnanswered, OpenRowKeepsAnswers
<1>7. ASSUME RegenerateShareLink(e) PROVE Answers'
  <2>1. drawn'.estimates = drawn.estimates
    BY <1>7 DEF RegenerateShareLink, TypeOK, DrawnOK
  <2>2. /\ DOMAIN estimates' = DOMAIN estimates
        /\ \A x \in DOMAIN estimates :
              /\ estimates'[x].decidedBy = estimates[x].decidedBy
              /\ estimates'[x].validUntil = estimates[x].validUntil
              /\ estimates'[x].status = estimates[x].status
        /\ ledger' = ledger
    BY <1>0, <1>7 DEF RegenerateShareLink
  <2>3. KeepsAnswers
    BY <1>d, <2>1, <2>2 DEF KeepsAnswers
  <2>4. QED
    BY <2>3, KeepsAnswersSuffices
<1>8. ASSUME DeleteEstimate(e) PROVE Answers'
  <2>1. KeepsAnswers
    BY <1>8, <1>d DEF DeleteEstimate, KeepsAnswers, Drop, Restrict
  <2>2. QED
    BY <2>1, KeepsAnswersSuffices
<1>9. ASSUME NEW c \in Contents, NEW d \in DatelessDays,
             UpdateEstimateThrows(e, c, d)
      PROVE  Answers'
  <2>1. Open(e)
    BY <1>9 DEF UpdateEstimateThrows, Open
  <2>2. /\ DOMAIN estimates' = DOMAIN estimates
        /\ \A x \in DOMAIN estimates : x # e => estimates'[x] = estimates[x]
        /\ estimates'[e].decidedBy = estimates[e].decidedBy
        /\ ledger' = ledger /\ drawn' = drawn
    BY <1>0, <1>9 DEF UpdateEstimateThrows
  <2>3. QED
    BY <2>1, <2>2, OpenIsUnanswered, OpenRowKeepsAnswers
<1>10. QED
  BY <1>1, <1>2, <1>3, <1>4, <1>5, <1>6, <1>7, <1>8, <1>9

LEMMA JobRequestKeepsAnswers == TypeOK /\ Answers /\ JobRequest => Answers'
<1> SUFFICES ASSUME TypeOK, Answers, JobRequest PROVE KeepsAnswers
  BY KeepsAnswersSuffices
<1>1. drawn.estimates \in Nat
  BY DrawnFacts DEF TypeOK
<1>2. CASE CreateJob
  BY <1>1, <1>2 DEF CreateJob, KeepsAnswers, TypeOK, DrawnOK
<1>3. ASSUME NEW j \in DOMAIN jobs, NEW s \in JobStatuses, UpdateJobStatus(j, s)
      PROVE  KeepsAnswers
  BY <1>1, <1>3 DEF UpdateJobStatus, KeepsAnswers
<1>4. ASSUME NEW j \in DOMAIN jobs, DeleteJob(j)
      PROVE  KeepsAnswers
  BY <1>1, <1>4 DEF DeleteJob, KeepsAnswers, Drop, Restrict
<1>5. ASSUME NEW j \in DOMAIN jobs, NEW c \in Contents, NEW d \in ValidDays,
             CreateEstimate(j, c, d)
      PROVE  KeepsAnswers
  <2>1. /\ NewEstimateId \notin DOMAIN estimates
        /\ NewEstimateId = drawn.estimates + 1
        /\ drawn'.estimates = drawn.estimates + 1
    BY <1>5, IssueType, DrawnFacts DEF CreateEstimate, TypeOK
  <2>2. /\ DOMAIN estimates' = DOMAIN estimates \cup {NewEstimateId}
        /\ \A x \in DOMAIN estimates : estimates'[x] = estimates[x]
        /\ estimates'[NewEstimateId].decidedBy = None
        /\ ledger' = ledger
    BY <1>5, <2>1 DEF CreateEstimate, Put
  <2>3. QED
    BY <1>1, <2>1, <2>2, ConstantsAssumption DEF KeepsAnswers
<1>6. CASE CreateEstimateThrows
  <2>1. drawn'.estimates = drawn.estimates + 1
    BY <1>6, IssueType DEF CreateEstimateThrows, TypeOK
  <2>2. QED
    BY <1>1, <1>6, <2>1 DEF CreateEstimateThrows, KeepsAnswers
<1>7. QED
  BY <1>2, <1>3, <1>4, <1>5, <1>6 DEF JobRequest

\* The one step that writes the ledger: an open estimate has no entry yet, and
\* it is answered on or before its date.
LEMMA FirstAnswerKeepsAnswers ==
    ASSUME TypeOK, Answers, NEW t \in DOMAIN tokenIndex, Resolves(t),
           NEW action \in Actions, FirstAnswer(t, action)
    PROVE  Answers'
<1> DEFINE e == tokenIndex[t]
           entry == [estimateId |-> e, action |-> action,
                     shareToken |-> t, at |-> today]
<1>1. e \in DOMAIN estimates /\ Open(e)
  BY DEF FirstAnswer, RecordApproval, RecordRejection, Resolves
<1>2. /\ estimates[e].decidedBy # "customer"
      /\ \A i \in DOMAIN ledger : ledger[i].estimateId # e
  BY <1>1, OpenIsUnanswered
<1>3. /\ ledger' = Append(ledger, entry)
      /\ ledger \in Seq(LedgerEntry)
      /\ DOMAIN ledger' = DOMAIN ledger \cup {Len(ledger) + 1}
      /\ ledger'[Len(ledger) + 1] = entry
      /\ \A i \in DOMAIN ledger : ledger'[i] = ledger[i]
      /\ Len(ledger) + 1 \notin DOMAIN ledger
  BY DEF FirstAnswer, Record, TypeOK, AnswersOK
<1>4. /\ DOMAIN estimates' = DOMAIN estimates
      /\ \A x \in DOMAIN estimates : x # e => estimates'[x] = estimates[x]
      /\ estimates'[e].decidedBy = "customer"
      /\ estimates'[e].status =
            IF action = "accepted" THEN "approved" ELSE "rejected"
      /\ estimates'[e].validUntil = estimates[e].validUntil
      /\ drawn' = drawn
  BY <1>1
  DEF FirstAnswer, RecordApproval, RecordRejection, TypeOK, EstimatesOK,
      EstimateRow
<1>5. today <= estimates[e].validUntil
  BY <1>1
  DEF FirstAnswer, IsPastValidity, TypeOK, EstimatesOK, EstimateRow, Day
<1>6. e <= drawn.estimates
  BY <1>1, DrawnFacts DEF TypeOK, EstimatesOK
<1>7. /\ entry.estimateId = e
      /\ entry.action = action
      /\ entry.at = today
  OBVIOUS
<1> HIDE DEF e, entry
<1>8. LedgerDrawn'
  BY <1>3, <1>4, <1>6, <1>7 DEF Answers, LedgerDrawn
<1>9. LedgerAgrees'
  <2>1. \A i, k \in DOMAIN ledger' :
           ledger'[i].estimateId = ledger'[k].estimateId => i = k
    BY <1>2, <1>3, <1>7 DEF Answers, LedgerAgrees
  <2>2. ASSUME NEW i \in DOMAIN ledger', NEW x, x = ledger'[i].estimateId,
               x \in DOMAIN estimates'
        PROVE  /\ estimates'[x].decidedBy = "customer"
               /\ estimates'[x].status \in
                     IF ledger'[i].action = "accepted"
                     THEN {"approved"} ELSE {"rejected", "superseded"}
    <3>1. CASE i = Len(ledger) + 1
      BY <1>3, <1>4, <1>7, <2>2, <3>1
    <3>2. CASE i \in DOMAIN ledger
      BY <1>2, <1>3, <1>4, <2>2, <3>2 DEF Answers, LedgerAgrees
    <3>3. QED
      BY <1>3, <3>1, <3>2
  <2>3. ASSUME NEW x \in DOMAIN estimates', estimates'[x].decidedBy = "customer"
        PROVE  \E i \in DOMAIN ledger' : ledger'[i].estimateId = x
    <3>1. CASE x = e
      BY <1>3, <1>7, <3>1
    <3>2. CASE x # e
      BY <1>3, <1>4, <2>3, <3>2 DEF Answers, LedgerAgrees
    <3>3. QED
      BY <3>1, <3>2
  <2>4. QED
    BY <2>1, <2>2, <2>3 DEF LedgerAgrees
<1>10. AnsweredInTime'
  <2>1. ASSUME NEW i \in DOMAIN ledger', NEW x, x = ledger'[i].estimateId,
               x \in DOMAIN estimates'
        PROVE  ledger'[i].at <= estimates'[x].validUntil
    <3>1. CASE i = Len(ledger) + 1
      BY <1>3, <1>4, <1>5, <1>7, <2>1, <3>1
    <3>2. CASE i \in DOMAIN ledger
      BY <1>2, <1>3, <1>4, <2>1, <3>2 DEF Answers, AnsweredInTime
    <3>3. QED
      BY <1>3, <3>1, <3>2
  <2>2. QED
    BY <2>1 DEF AnsweredInTime
<1>11. QED
  BY <1>8, <1>9, <1>10 DEF Answers

LEMMA CustomerRequestKeepsAnswers ==
    TypeOK /\ Answers /\ CustomerRequest => Answers'
<1> SUFFICES ASSUME TypeOK, Answers, NEW t \in DOMAIN tokenIndex, Resolves(t)
             PROVE  PublicView(t) \/ PublicApprove(t) \/ PublicReject(t)
                       => Answers'
  BY DEF CustomerRequest
<1>1. drawn.estimates \in Nat
  BY DrawnFacts DEF TypeOK
<1>2. CASE PublicView(t)
  <2>1. /\ DOMAIN estimates' = DOMAIN estimates
        /\ \A x \in DOMAIN estimates :
              /\ estimates'[x].decidedBy = estimates[x].decidedBy
              /\ estimates'[x].validUntil = estimates[x].validUntil
              /\ estimates'[x].status = estimates[x].status
    BY <1>2 DEF PublicView, TypeOK, EstimatesOK, EstimateRow
  <2>2. KeepsAnswers
    BY <1>1, <1>2, <2>1 DEF PublicView, KeepsAnswers
  <2>3. QED
    BY <2>2, KeepsAnswersSuffices
<1>3. ASSUME NEW action \in Actions, RepeatAnswer(t, action)
      PROVE  Answers'
  BY <1>1, <1>3, KeepsAnswersSuffices DEF RepeatAnswer, KeepsAnswers
<1>4. QED
  BY <1>2, <1>3, FirstAnswerKeepsAnswers
  DEF PublicApprove, PublicReject, Actions

-----------------------------------------------------------------------------
(* The invariant holds                                                       *)

LEMMA InvariantInit == Init => IInv
<1> SUFFICES ASSUME Init PROVE IInv
  OBVIOUS
<1>1. TypeOK
  BY TypeInit
<1>2. Chains
  BY DEF Init, Chains, IdsDrawn, RowsLinked, OlderAreReplaced, LinearHistory,
         ChainsWalkBack, CurrentIsNotOutdated, ShareLinksResolve, Resolves
<1>3. Answers
  BY DEF Init, Answers, LedgerDrawn, LedgerAgrees, AnsweredInTime
<1>4. QED
  BY <1>1, <1>2, <1>3 DEF IInv

LEMMA ChainsStep == TypeOK /\ Chains /\ [Next]_vars => Chains'
<1> SUFFICES ASSUME TypeOK, Chains, [Next]_vars PROVE Chains'
  OBVIOUS
<1>1. CASE JobRequest
  <2>1. CASE CreateJob
    BY <2>1, CreateJobKeepsChains
  <2>2. ASSUME NEW j \in DOMAIN jobs, NEW s \in JobStatuses,
               UpdateJobStatus(j, s)
        PROVE  Chains'
    <3>1. KeepsRows
      BY <2>2
      DEF UpdateJobStatus, KeepsRows, SameLinks, TypeOK, JobsOK, JobRow
    <3>2. QED
      BY <3>1, KeepsRowsKeepsChains
  <2>3. CASE CreateEstimateThrows
    BY <2>3, LeakedLinkResolvesToNothing DEF CreateEstimateThrows
  <2>4. QED
    BY <1>1, <2>1, <2>2, <2>3, DeleteJobKeepsChains, CreateEstimateKeepsChains
    DEF JobRequest
<1>2. ASSUME NEW e \in DOMAIN estimates,
             \/ \E c \in Contents, d \in ValidDays \cup {None} :
                   UpdateEstimate(e, c, d)
             \/ \E c \in Contents, d \in DatelessDays :
                   UpdateEstimateThrows(e, c, d)
             \/ MarkSent(e) \/ MarkSentThrows(e)
             \/ StaffApprove(e) \/ StaffReject(e) \/ Expire(e)
      PROVE  Chains'
  <2>1. KeepsRows
    BY <1>2, RewritesKeepRows DEF StaffApprove, StaffReject
  <2>2. QED
    BY <2>1, KeepsRowsKeepsChains
<1>3. ASSUME NEW e \in DOMAIN estimates, NEW co \in BOOLEAN,
             ReviseEstimateThrows(e, co)
      PROVE  Chains'
  BY <1>3, LeakedLinkResolvesToNothing DEF ReviseEstimateThrows
<1>4. CASE StaffRequest
  BY <1>2, <1>3, <1>4, ReviseKeepsChains, RegenerateKeepsChains,
     DeleteEstimateKeepsChains
  DEF StaffRequest
<1>5. CASE CustomerRequest
  <2> SUFFICES ASSUME NEW t \in DOMAIN tokenIndex, Resolves(t),
                      PublicView(t) \/ PublicApprove(t) \/ PublicReject(t)
               PROVE  KeepsRows
    BY <1>5, KeepsRowsKeepsChains DEF CustomerRequest
  <2>1. CASE PublicView(t)
    BY <2>1
    DEF PublicView, KeepsRows, SameLinks, TypeOK, EstimatesOK, EstimateRow
  <2>2. ASSUME NEW action \in Actions, FirstAnswer(t, action)
        PROVE  KeepsRows
    <3>1. tokenIndex[t] \in DOMAIN estimates
      BY DEF Resolves
    <3>2. QED
      BY <2>2, <3>1, RewritesKeepRows DEF FirstAnswer
  <2>3. ASSUME NEW action \in Actions, RepeatAnswer(t, action)
        PROVE  KeepsRows
    BY <2>3 DEF RepeatAnswer, KeepsRows, SameLinks
  <2>4. QED
    BY <2>1, <2>2, <2>3 DEF PublicApprove, PublicReject, Actions
<1>6. CASE Tick \/ UNCHANGED vars
  <2>1. KeepsRows
    BY <1>6 DEF Tick, vars, KeepsRows, SameLinks
  <2>2. QED
    BY <2>1, KeepsRowsKeepsChains
<1>7. QED
  BY <1>1, <1>4, <1>5, <1>6 DEF Next

LEMMA AnswersStep == TypeOK /\ Answers /\ [Next]_vars => Answers'
<1>1. TypeOK /\ (Tick \/ UNCHANGED vars) => KeepsAnswers
  BY DrawnFacts DEF Tick, vars, KeepsAnswers, TypeOK
<1>2. QED
  BY <1>1, KeepsAnswersSuffices, JobRequestKeepsAnswers,
     StaffRequestKeepsAnswers, CustomerRequestKeepsAnswers
  DEF Next

LEMMA InvariantHolds == Spec => []IInv
<1>1. IInv /\ [Next]_vars => IInv'
  BY TypeStep, ChainsStep, AnswersStep DEF IInv
<1>2. QED
  BY <1>1, InvariantInit, PTL DEF Spec

-----------------------------------------------------------------------------
(* What follows                                                              *)

\* Whatever is created, revised, regenerated and deleted, a stored estimate is
\* reached by its current link and by no other.
THEOREM ShareLinksAlwaysResolve == Spec => []ShareLinksResolve
<1>1. IInv => ShareLinksResolve
  BY DEF IInv, Chains
<1>2. QED
  BY <1>1, InvariantHolds, PTL

\* No sequence of revisions and deletions gives a chain two versions with one
\* number.
THEOREM ChainsAreLinear == Spec => []LinearHistory
<1>1. IInv => LinearHistory
  BY DEF IInv, Chains
<1>2. QED
  BY <1>1, InvariantHolds, PTL

\* The version behind a stored version is stored, and left for this one alone,
\* however drafts are deleted and approved versions change-ordered.
THEOREM ChainsAlwaysWalkBack == Spec => []ChainsWalkBack
<1>1. IInv => ChainsWalkBack
  BY DEF IInv, Chains
<1>2. QED
  BY <1>1, InvariantHolds, PTL

\* The stored estimate a job points at is its own and has not been replaced.
THEOREM CurrentIsNeverOutdated == Spec => []CurrentIsNotOutdated
<1>1. IInv => CurrentIsNotOutdated
  BY DEF IInv, Chains
<1>2. QED
  BY <1>1, InvariantHolds, PTL

\* Of all the versions of an offer whose links customers hold, only the latest
\* stored one can be open to a new answer: a version that is not the latest
\* has been replaced, and what has been replaced is not open.  What was
\* answered before it was replaced keeps its answer.
THEOREM OnlyLatestCanBeOpen == Spec => []OnlyLatestIsOpen
<1>1. IInv => OnlyLatestIsOpen
  <2> SUFFICES ASSUME IInv, NEW a \in DOMAIN estimates,
                      NEW b \in DOMAIN estimates, SameChain(a, b), Open(a)
               PROVE  estimates[b].version <= estimates[a].version
    BY DEF OnlyLatestIsOpen
  <2>1. estimates[a].supersededBy = None
    BY DEF IInv, Chains, RowsLinked, Open
  <2>2. ~(estimates[a].version < estimates[b].version)
    BY <2>1 DEF IInv, Chains, OlderAreReplaced
  <2>3. estimates[a].version \in Nat /\ estimates[b].version \in Nat
    BY DEF IInv, TypeOK, EstimatesOK, EstimateRow
  <2>4. QED
    BY <2>2, <2>3
<1>2. QED
  BY <1>1, InvariantHolds, PTL

\* The ledger of the customers' answers and the rows they are about never
\* disagree, whatever the staff decide, revise or delete in between.
THEOREM LedgerAlwaysAgrees == Spec => []LedgerAgrees
<1>1. IInv => LedgerAgrees
  BY DEF IInv, Answers
<1>2. QED
  BY <1>1, InvariantHolds, PTL

\* No answer is recorded after the date the estimate ends up showing.
THEOREM AlwaysAnsweredInTime == Spec => []AnsweredInTime
<1>1. IInv => AnsweredInTime
  BY DEF IInv, Answers
<1>2. QED
  BY <1>1, InvariantHolds, PTL

-----------------------------------------------------------------------------
(* What no step does                                                         *)

\* A step that leaves the index alone, or adds the next token for a new id, or
\* replaces one token, revives no token that was drawn before.
LEMMA RetiredStep == TypeOK /\ [Next]_vars => RetiredStay
<1> SUFFICES ASSUME TypeOK, [Next]_vars, NEW t \in 1..drawn.tokens, ~Resolves(t)
             PROVE  ~Resolves(t)'
  BY DEF RetiredStay
<1>1. /\ drawn.tokens \in Nat /\ drawn.estimates \in Nat
      /\ t # NewToken
      /\ t \in DOMAIN tokenIndex => tokenIndex[t] <= drawn.estimates
  BY DrawnFacts DEF TypeOK, IndexOK, NewToken
<1>2. ASSUME DOMAIN estimates' \subseteq DOMAIN estimates,
             t \in DOMAIN tokenIndex' =>
                t \in DOMAIN tokenIndex /\ tokenIndex'[t] = tokenIndex[t]
      PROVE  ~Resolves(t)'
  BY <1>2 DEF Resolves
<1>3. ASSUME DOMAIN estimates' \subseteq DOMAIN estimates \cup {NewEstimateId},
             IssueShareToken(NewEstimateId)
      PROVE  ~Resolves(t)'
  <2>1. t \in DOMAIN tokenIndex' =>
           t \in DOMAIN tokenIndex /\ tokenIndex'[t] = tokenIndex[t]
    BY <1>1, <1>3 DEF IssueShareToken, Put
  <2>2. t \in DOMAIN tokenIndex' => tokenIndex'[t] # NewEstimateId
    BY <1>1, <2>1 DEF NewEstimateId
  <2>3. QED
    BY <1>3, <2>1, <2>2 DEF Resolves
<1>4. CASE JobRequest
  <2>1. ASSUME NEW j \in DOMAIN jobs, DeleteJob(j) PROVE ~Resolves(t)'
    BY <1>2, <2>1 DEF DeleteJob, Drop, Restrict
  <2>2. ASSUME NEW j \in DOMAIN jobs, NEW c \in Contents, NEW d \in ValidDays,
               CreateEstimate(j, c, d)
        PROVE  ~Resolves(t)'
    BY <1>3, <2>2 DEF CreateEstimate, Put
  <2>3. CASE CreateEstimateThrows
    BY <1>3, <2>3 DEF CreateEstimateThrows
  <2>4. CASE CreateJob
    BY <1>2, <2>4 DEF CreateJob
  <2>5. ASSUME NEW j \in DOMAIN jobs, NEW s \in JobStatuses,
               UpdateJobStatus(j, s)
        PROVE  ~Resolves(t)'
    BY <1>2, <2>5 DEF UpdateJobStatus
  <2>6. QED
    BY <1>4, <2>1, <2>2, <2>3, <2>4, <2>5 DEF JobRequest
<1>5. CASE StaffRequest
  <2> SUFFICES ASSUME NEW e \in DOMAIN estimates
               PROVE
          /\ \A c \in Contents, d \in ValidDays \cup {None} :
                UpdateEstimate(e, c, d) => ~Resolves(t)'
          /\ \A co \in BOOLEAN :
                /\ \A c \in Contents, d \in ValidDays :
                      ReviseEstimate(e, c, d, co) => ~Resolves(t)'
                /\ ReviseEstimateThrows(e, co) => ~Resolves(t)'
          /\ \A c \in Contents, d \in DatelessDays :
                UpdateEstimateThrows(e, c, d) => ~Resolves(t)'
          /\ MarkSent(e) => ~Resolves(t)'
          /\ MarkSentThrows(e) => ~Resolves(t)'
          /\ StaffApprove(e) => ~Resolves(t)'
          /\ StaffReject(e) => ~Resolves(t)'
          /\ Expire(e) => ~Resolves(t)'
          /\ RegenerateShareLink(e) => ~Resolves(t)'
          /\ DeleteEstimate(e) => ~Resolves(t)'
    BY <1>5 DEF StaffRequest
  <2>1. ASSUME NEW c \in Contents, NEW d \in ValidDays \cup {None},
               UpdateEstimate(e, c, d)
        PROVE  ~Resolves(t)'
    BY <1>2, <2>1 DEF UpdateEstimate
  <2>2. ASSUME NEW co \in BOOLEAN, NEW c \in Contents, NEW d \in ValidDays,
               ReviseEstimate(e, c, d, co)
        PROVE  ~Resolves(t)'
    BY <1>3, <2>2 DEF ReviseEstimate, Superseded, Put
  <2>3. ASSUME NEW co \in BOOLEAN, ReviseEstimateThrows(e, co)
        PROVE  ~Resolves(t)'
    BY <1>3, <2>3 DEF ReviseEstimateThrows
  <2>4. ASSUME \/ \E c \in Contents, d \in DatelessDays :
                     UpdateEstimateThrows(e, c, d)
               \/ MarkSent(e) \/ MarkSentThrows(e) \/ Expire(e)
        PROVE  ~Resolves(t)'
    BY <1>2, <2>4 DEF UpdateEstimateThrows, MarkSent, MarkSentThrows, Expire
  <2>5. ASSUME StaffApprove(e) \/ StaffReject(e) PROVE ~Resolves(t)'
    BY <1>2, <2>5
    DEF StaffApprove, StaffReject, RecordApproval, RecordRejection
  <2>6. ASSUME RegenerateShareLink(e) PROVE ~Resolves(t)'
    BY <1>1, <1>2, <2>6 DEF RegenerateShareLink, Put, Drop, Restrict
  <2>7. ASSUME DeleteEstimate(e) PROVE ~Resolves(t)'
    BY <1>2, <2>7 DEF DeleteEstimate, Drop, Restrict
  <2>8. QED
    BY <2>1, <2>2, <2>3, <2>4, <2>5, <2>6, <2>7
<1>6. CASE CustomerRequest
  <2>1. tokenIndex' = tokenIndex /\ DOMAIN estimates' = DOMAIN estimates
    BY <1>6
    DEF CustomerRequest, PublicView, PublicApprove, PublicReject, FirstAnswer,
        RepeatAnswer, RecordApproval, RecordRejection
  <2>2. QED
    BY <1>2, <2>1
<1>7. CASE Tick \/ UNCHANGED vars
  BY <1>2, <1>7 DEF Tick, vars
<1>8. QED
  BY <1>4, <1>5, <1>6, <1>7 DEF Next

\* A share link that has stopped working never works again, also one left in
\* the index by a request that failed.
THEOREM RetiredLinksNeverReturn == Spec => RetiredLinksStayRetired
<1>1. TypeOK /\ [Next]_vars => [RetiredStay]_vars
  BY RetiredStep
<1>2. QED
  BY <1>1, TypeCorrect, PTL DEF Spec, RetiredLinksStayRetired

\* A row that is neither removed nor rewritten where it matters.
KeepsRecord(e) ==
    /\ e \in DOMAIN estimates'
    /\ estimates'[e].content = estimates[e].content
    /\ estimates[e].status # "draft" => estimates'[e].status # "draft"
    /\ estimates[e].status = "approved" =>
          /\ estimates'[e].status = "approved"
          /\ estimates'[e].validUntil = estimates[e].validUntil
          /\ estimates'[e].decidedBy = estimates[e].decidedBy

\* Every step keeps the record of an estimate that is no longer a draft,
\* unless it deletes the job.
LEMMA RecordsStep ==
    ASSUME TypeOK, [Next]_vars, NEW x \in DOMAIN estimates,
           estimates[x].status # "draft", estimates[x].jobId \in DOMAIN jobs'
    PROVE  KeepsRecord(x)
<1>0. estimates[x] \in EstimateRow
  BY DEF TypeOK, EstimatesOK
<1> USE DEF EstimateRow
<1>1. ASSUME x \in DOMAIN estimates', estimates'[x] = estimates[x]
      PROVE  KeepsRecord(x)
  BY <1>1 DEF KeepsRecord
<1>2. CASE JobRequest
  <2>1. ASSUME NEW j \in DOMAIN jobs, DeleteJob(j) PROVE KeepsRecord(x)
    <3>1. x \notin EstimatesOf(j)
      BY <2>1 DEF DeleteJob, EstimatesOf, Drop, Restrict
    <3>2. QED
      BY <1>1, <2>1, <3>1 DEF DeleteJob, Drop, Restrict
  <2>2. ASSUME NEW j \in DOMAIN jobs, NEW c \in Contents, NEW d \in ValidDays,
               CreateEstimate(j, c, d)
        PROVE  KeepsRecord(x)
    <3>1. x # NewEstimateId
      BY <2>2, IssueType DEF CreateEstimate
    <3>2. QED
      BY <1>1, <2>2, <3>1 DEF CreateEstimate, Put
  <2>3. ASSUME \/ CreateEstimateThrows
               \/ CreateJob
               \/ \E j \in DOMAIN jobs, s \in JobStatuses : UpdateJobStatus(j, s)
        PROVE  KeepsRecord(x)
    BY <1>1, <2>3 DEF CreateEstimateThrows, CreateJob, UpdateJobStatus
  <2>4. QED
    BY <1>2, <2>1, <2>2, <2>3 DEF JobRequest
<1>3. CASE StaffRequest
  <2> SUFFICES ASSUME NEW e \in DOMAIN estimates
               PROVE
          /\ \A c \in Contents, d \in ValidDays \cup {None} :
                UpdateEstimate(e, c, d) => KeepsRecord(x)
          /\ \A co \in BOOLEAN :
                /\ \A c \in Contents, d \in ValidDays :
                      ReviseEstimate(e, c, d, co) => KeepsRecord(x)
                /\ ReviseEstimateThrows(e, co) => KeepsRecord(x)
          /\ \A c \in Contents, d \in DatelessDays :
                UpdateEstimateThrows(e, c, d) => KeepsRecord(x)
          /\ MarkSent(e) => KeepsRecord(x)
          /\ MarkSentThrows(e) => KeepsRecord(x)
          /\ StaffApprove(e) => KeepsRecord(x)
          /\ StaffReject(e) => KeepsRecord(x)
          /\ Expire(e) => KeepsRecord(x)
          /\ RegenerateShareLink(e) => KeepsRecord(x)
          /\ DeleteEstimate(e) => KeepsRecord(x)
    BY <1>3 DEF StaffRequest
  <2>1. ASSUME NEW c \in Contents, NEW d \in ValidDays \cup {None},
               UpdateEstimate(e, c, d)
        PROVE  KeepsRecord(x)
    BY <1>1, <2>1 DEF UpdateEstimate
  <2>2. ASSUME NEW co \in BOOLEAN, NEW c \in Contents, NEW d \in ValidDays,
               ReviseEstimate(e, c, d, co)
        PROVE  KeepsRecord(x)
    <3>1. x # NewEstimateId
      BY <2>2, IssueType DEF ReviseEstimate
    <3>2. /\ x \in DOMAIN estimates'
          /\ estimates'[x] =
                IF x = e
                THEN [estimates[x] EXCEPT
                        !.supersededBy = NewEstimateId,
                        !.status = IF estimates[x].status = "approved"
                                   THEN "approved" ELSE "superseded"]
                ELSE estimates[x]
      BY <2>2, <3>1 DEF ReviseEstimate, Superseded, Put
    <3>3. CASE x = e
      BY <1>0, <3>2, <3>3 DEF KeepsRecord
    <3>4. QED
      BY <1>1, <3>2, <3>3
  <2>3. ASSUME NEW co \in BOOLEAN, ReviseEstimateThrows(e, co)
        PROVE  KeepsRecord(x)
    BY <1>1, <2>3 DEF ReviseEstimateThrows
  <2>4. ASSUME \/ \E c \in Contents, d \in DatelessDays :
                     UpdateEstimateThrows(e, c, d)
               \/ MarkSent(e) \/ MarkSentThrows(e)
        PROVE  KeepsRecord(x)
    BY <1>1, <2>4 DEF UpdateEstimateThrows, MarkSent, MarkSentThrows
  <2>5. ASSUME StaffApprove(e) \/ StaffReject(e) \/ Expire(e)
        PROVE  KeepsRecord(x)
    BY <1>0, <2>5
    DEF StaffApprove, StaffReject, RecordApproval, RecordRejection, Expire,
        Open, KeepsRecord
  <2>6. ASSUME RegenerateShareLink(e) PROVE KeepsRecord(x)
    BY <1>0, <2>6 DEF RegenerateShareLink, KeepsRecord
  <2>7. ASSUME DeleteEstimate(e) PROVE KeepsRecord(x)
    BY <1>1, <2>7 DEF DeleteEstimate, Drop, Restrict
  <2>8. QED
    BY <2>1, <2>2, <2>3, <2>4, <2>5, <2>6, <2>7
<1>4. CASE CustomerRequest
  <2> SUFFICES ASSUME NEW t \in DOMAIN tokenIndex,
                      PublicView(t) \/ PublicApprove(t) \/ PublicReject(t)
               PROVE  KeepsRecord(x)
    BY <1>4 DEF CustomerRequest
  <2>1. CASE PublicView(t)
    BY <1>0, <2>1 DEF PublicView, KeepsRecord
  <2>2. ASSUME NEW action \in Actions, FirstAnswer(t, action)
        PROVE  KeepsRecord(x)
    BY <1>0, <2>2
    DEF FirstAnswer, RecordApproval, RecordRejection, Open, KeepsRecord
  <2>3. ASSUME NEW action \in Actions, RepeatAnswer(t, action)
        PROVE  KeepsRecord(x)
    BY <1>1, <2>3 DEF RepeatAnswer
  <2>4. QED
    BY <2>1, <2>2, <2>3 DEF PublicApprove, PublicReject, Actions
<1>5. CASE Tick \/ UNCHANGED vars
  BY <1>1, <1>5 DEF Tick, vars
<1>6. QED
  BY <1>2, <1>3, <1>4, <1>5 DEF Next

\* An estimate that was sent keeps its content, is never a draft again, and is
\* removed only with its job; one that was approved keeps its status, date and
\* signer as well.
THEOREM SentEstimatesAreRecords == Spec => SentIsARecord
<1>1. TypeOK /\ [Next]_vars => [RecordsKept]_vars
  BY RecordsStep DEF RecordsKept, KeepsRecord
<1>2. QED
  BY <1>1, TypeCorrect, PTL DEF Spec, SentIsARecord

-----------------------------------------------------------------------------
(* The estimate a job points at is its last                                  *)

\* Where an estimate is stored, its job points at it or at one created later:
\* inductive next to IInv, because a new estimate is pointed at at once and a
\* deleted one leaves the pointer where it is.
PointedAtLast ==
    \A e \in DOMAIN estimates :
       LET current == jobs[estimates[e].jobId].currentEstimateId IN
       current # None /\ e <= current

\* A step that adds no estimate, moves none to another job and leaves the
\* pointers of the jobs that have one.
KeepsPointers ==
    /\ DOMAIN estimates' \subseteq DOMAIN estimates
    /\ \A e \in DOMAIN estimates' :
          LET j == estimates[e].jobId IN
          /\ estimates'[e].jobId = j
          /\ jobs'[j].currentEstimateId = jobs[j].currentEstimateId

LEMMA KeepsPointersSuffices == PointedAtLast /\ KeepsPointers => PointedAtLast'
BY DEF PointedAtLast, KeepsPointers

\* A new estimate has the largest id, and its job is pointed at it.
LEMMA NewIsPointedAt ==
    ASSUME TypeOK, RowsLinked, PointedAtLast, NEW j \in DOMAIN jobs,
           SetCurrentEstimate(j, NewEstimateId),
           DOMAIN estimates' = DOMAIN estimates \cup {NewEstimateId},
           estimates'[NewEstimateId].jobId = j,
           \A e \in DOMAIN estimates : estimates'[e].jobId = estimates[e].jobId
    PROVE  PointedAtLast'
<1> DEFINE n == NewEstimateId
<1>1. /\ jobs'[j].currentEstimateId = n
      /\ \A k \in DOMAIN jobs : k # j => jobs'[k] = jobs[k]
  BY DEF SetCurrentEstimate, TypeOK, JobsOK, JobRow
<1>2. /\ n \in Nat /\ n # None
      /\ \A e \in DOMAIN estimates : e <= n
      /\ \A e \in DOMAIN estimates : estimates[e].jobId \in DOMAIN jobs
  BY ConstantsAssumption, DrawnFacts
  DEF TypeOK, EstimatesOK, NewEstimateId, RowsLinked
<1> HIDE DEF n
<1>3. QED
  BY <1>1, <1>2 DEF PointedAtLast, n

LEMMA JobRequestKeepsPointers ==
    ASSUME TypeOK, Chains, PointedAtLast, JobRequest
    PROVE  PointedAtLast'
<1>1. RowsLinked
  BY DEF Chains
<1>2. CASE CreateJob
  <2>1. NewJobId \notin DOMAIN jobs
    BY DrawnFacts DEF TypeOK, JobsOK, NewJobId
  <2>2. KeepsPointers
    BY <1>1, <1>2, <2>1 DEF CreateJob, Put, KeepsPointers, RowsLinked
  <2>3. QED
    BY <2>2, KeepsPointersSuffices
<1>3. ASSUME NEW j \in DOMAIN jobs, NEW s, UpdateJobStatus(j, s)
      PROVE  PointedAtLast'
  <2>1. KeepsPointers
    BY <1>1, <1>3
    DEF UpdateJobStatus, KeepsPointers, RowsLinked, TypeOK, JobsOK, JobRow
  <2>2. QED
    BY <2>1, KeepsPointersSuffices
<1>4. ASSUME NEW j \in DOMAIN jobs, DeleteJob(j) PROVE PointedAtLast'
  <2>1. KeepsPointers
    BY <1>1, <1>4
    DEF DeleteJob, Drop, Restrict, EstimatesOf, KeepsPointers, RowsLinked
  <2>2. QED
    BY <2>1, KeepsPointersSuffices
<1>5. ASSUME NEW j \in DOMAIN jobs, NEW c, NEW d, CreateEstimate(j, c, d)
      PROVE  PointedAtLast'
  <2>1. NewEstimateId \notin DOMAIN estimates
    BY <1>5, IssueType DEF CreateEstimate
  <2>2. /\ SetCurrentEstimate(j, NewEstimateId)
        /\ DOMAIN estimates' = DOMAIN estimates \cup {NewEstimateId}
        /\ estimates'[NewEstimateId].jobId = j
        /\ \A e \in DOMAIN estimates : estimates'[e] = estimates[e]
    BY <1>5, <2>1 DEF CreateEstimate, Put
  <2>3. QED
    BY <1>1, <2>2, NewIsPointedAt
<1>6. CASE CreateEstimateThrows
  BY <1>6 DEF CreateEstimateThrows, PointedAtLast
<1>7. QED
  BY <1>2, <1>3, <1>4, <1>5, <1>6 DEF JobRequest

LEMMA ReviseKeepsPointers ==
    ASSUME TypeOK, Chains, PointedAtLast, NEW e \in DOMAIN estimates,
           NEW c, NEW d, NEW co, ReviseEstimate(e, c, d, co)
    PROVE  PointedAtLast'
<1> DEFINE j == estimates[e].jobId
           table == Superseded(e, NewEstimateId)
<1>1. RowsLinked /\ j \in DOMAIN jobs
  BY DEF Chains, RowsLinked
<1>2. NewEstimateId \notin DOMAIN estimates
  BY IssueType DEF ReviseEstimate
<1>3. /\ DOMAIN table = DOMAIN estimates
      /\ \A f \in DOMAIN estimates : table[f].jobId = estimates[f].jobId
  BY DEF Superseded, TypeOK, EstimatesOK, EstimateRow
<1>4. Revision(e, c, d, co).jobId = j
  BY DEF Revision, TypeOK, EstimatesOK, EstimateRow
<1>5. /\ SetCurrentEstimate(j, NewEstimateId)
      /\ estimates' = Put(table, NewEstimateId, Revision(e, c, d, co))
  BY DEF ReviseEstimate
<1> HIDE DEF table, j
<1>6. /\ DOMAIN estimates' = DOMAIN estimates \cup {NewEstimateId}
      /\ estimates'[NewEstimateId].jobId = j
      /\ \A f \in DOMAIN estimates : estimates'[f].jobId = estimates[f].jobId
  BY <1>2, <1>3, <1>4, <1>5 DEF Put
<1>7. QED
  BY <1>1, <1>5, <1>6, NewIsPointedAt

LEMMA PointedAtLastStep ==
    ASSUME TypeOK, Chains, PointedAtLast, [Next]_vars
    PROVE  PointedAtLast'
<1>1. RowsLinked
  BY DEF Chains
<1>2. ASSUME KeepsRows PROVE PointedAtLast'
  <2>1. KeepsPointers
    BY <1>1, <1>2 DEF KeepsRows, SameLinks, KeepsPointers, RowsLinked
  <2>2. QED
    BY <2>1, KeepsPointersSuffices
<1>3. CASE StaffRequest
  <2>1. ASSUME NEW e \in DOMAIN estimates,
               \/ \E c \in Contents, d \in ValidDays \cup {None} :
                     UpdateEstimate(e, c, d)
               \/ \E c \in Contents, d \in DatelessDays :
                     UpdateEstimateThrows(e, c, d)
               \/ MarkSent(e) \/ MarkSentThrows(e)
               \/ StaffApprove(e) \/ StaffReject(e) \/ Expire(e)
        PROVE  KeepsRows
    BY <2>1, RewritesKeepRows DEF StaffApprove, StaffReject
  <2>2. ASSUME NEW e \in DOMAIN estimates, NEW co, ReviseEstimateThrows(e, co)
        PROVE  PointedAtLast'
    BY <2>2 DEF ReviseEstimateThrows, PointedAtLast
  <2>3. ASSUME NEW e \in DOMAIN estimates,
               RegenerateShareLink(e) \/ DeleteEstimate(e)
        PROVE  KeepsPointers
    <3>1. jobs' = jobs /\ DOMAIN estimates' \subseteq DOMAIN estimates
      BY <2>3 DEF RegenerateShareLink, DeleteEstimate, Drop, Restrict
    <3>2. \A f \in DOMAIN estimates' : estimates'[f].jobId = estimates[f].jobId
      BY <2>3
      DEF RegenerateShareLink, DeleteEstimate, Drop, Restrict, TypeOK,
          EstimatesOK, EstimateRow
    <3>3. QED
      BY <3>1, <3>2 DEF KeepsPointers
  <2>4. QED
    BY <1>2, <1>3, <2>1, <2>2, <2>3, ReviseKeepsPointers, KeepsPointersSuffices
    DEF StaffRequest
<1>4. CASE CustomerRequest
  <2> SUFFICES ASSUME NEW t \in DOMAIN tokenIndex, Resolves(t),
                      PublicView(t) \/ PublicApprove(t) \/ PublicReject(t)
               PROVE  KeepsRows
    BY <1>2, <1>4 DEF CustomerRequest
  <2>1. tokenIndex[t] \in DOMAIN estimates
    BY DEF Resolves
  <2>2. CASE PublicView(t)
    BY <2>2
    DEF PublicView, KeepsRows, SameLinks, TypeOK, EstimatesOK, EstimateRow
  <2>3. ASSUME NEW action \in Actions, FirstAnswer(t, action)
        PROVE  KeepsRows
    BY <2>1, <2>3, RewritesKeepRows DEF FirstAnswer
  <2>4. ASSUME NEW action \in Actions, RepeatAnswer(t, action)
        PROVE  KeepsRows
    BY <2>4 DEF RepeatAnswer, KeepsRows, SameLinks
  <2>5. QED
    BY <2>2, <2>3, <2>4 DEF PublicApprove, PublicReject, Actions
<1>5. CASE Tick \/ UNCHANGED vars
  BY <1>5 DEF Tick, vars, PointedAtLast
<1>6. QED
  BY <1>3, <1>4, <1>5, JobRequestKeepsPointers DEF Next

\* A job with estimates always points at its newest, or at one that was newer
\* and was deleted as a draft: setCurrentEstimate after every create and
\* revision is enough, without ever being undone.
THEOREM JobsPointAtTheirLast == Spec => []PointedAtLast
<1>1. Init => PointedAtLast
  BY DEF Init, PointedAtLast
<1>2. IInv /\ PointedAtLast /\ [Next]_vars => PointedAtLast'
  BY PointedAtLastStep DEF IInv
<1>3. QED
  BY <1>1, <1>2, InvariantHolds, PTL DEF Spec
=============================================================================

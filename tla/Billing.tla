------------------------------- MODULE Billing --------------------------------
(***************************************************************************)
(* From the estimate to the bill: the estimate workflow (Estimates) and    *)
(* the time and final price of a job (TimeTracking) in one store.  The two *)
(* meet where a job is created and deleted, and where its price is         *)
(* computed: buildJobPricingSummary reads the job's current estimate at    *)
(* that moment (controllers/timeTrackingController.js,                     *)
(* services/timeTrackingCalculations.js, routes/job.js).                   *)
(*                                                                         *)
(* Estimates is extended, with a column more in the rows of its jobs;      *)
(* TimeTracking is an instance, whose quotes are computed from the         *)
(* estimates.  What an estimate says is an offer, priced by PricingMath.   *)
(* A rate is in cents a minute.                                            *)
(***************************************************************************)
EXTENDS Estimates, PricingMath

CONSTANTS
    Edits,                  \* what a request could make of each offer
    Deltas,                 \* the changes of markup that are projected
    Users, Rates,           \* of TimeTracking
    MaxEntries, MaxTime     \* bounds, of TimeTracking

ASSUME BillingConstants ==
    /\ Contents \subseteq Offers
    /\ Edits \in [Contents -> SUBSET Offers]
    /\ Deltas \subseteq Int
    /\ Rates \subseteq Int /\ 0 \in Rates
    /\ {MaxEntries, MaxTime} \subseteq Nat
    /\ None \notin Int

VARIABLES
    models,             \* store.jobs: id -> the row's pricingModel
    snapshots, entries, rates, now, timeDrawn

timeVars == <<models, snapshots, entries, rates, now, timeDrawn>>
allVars == <<vars, timeVars>>

-----------------------------------------------------------------------------
\* What the summary takes from an offer.
Quoted ==
    [c \in Contents |->
       [nonLaborPrice |-> NonLaborPrice(c), totalPrice |-> TotalPrice(c)]]

QuoteOf(e) == Quoted[estimates[e].content]

\* The quote of a job, while the estimate it points at is stored.
Quote(j) ==
    LET e == jobs[j].currentEstimateId IN
    IF e \in DOMAIN estimates THEN QuoteOf(e) ELSE None

Prices ==
    UNION {{Quoted[c].nonLaborPrice, Quoted[c].totalPrice} : c \in Contents}

T == INSTANCE TimeTracking WITH
        jobs <- models,
        quote <- [j \in DOMAIN jobs |-> Quote(j)],
        drawn <- timeDrawn

-----------------------------------------------------------------------------
(* Requests on both                                                          *)

\* POST /jobs.
OpenJob(model) == CreateJob /\ T!CreateJob(model)

RemoveJobFault(j) ==   \* the cascade forgets time and price
    DeleteJob(j) /\ UNCHANGED timeVars

\* DELETE /jobs/:id.
RemoveJob(j) == DeleteJob(j) /\ T!DeleteJob(j)

\* The estimate workflow, and the clock of its validity dates.
EstimateRequest ==
    /\ \/ \E j \in DOMAIN jobs :
             \/ \E s \in JobStatuses : UpdateJobStatus(j, s)
             \/ \E c \in Contents, d \in ValidDays : CreateEstimate(j, c, d)
             \/ CreateEstimateThrows
       \/ StaffRequest
       \/ CustomerRequest
       \/ Tick
    /\ UNCHANGED timeVars

\* Time tracking, and its own clock.
TimeRequest ==
    /\ UNCHANGED vars
    /\ \/ \E j \in DOMAIN models :
             \/ \E m \in T!PricingModels : T!SetPricingModel(j, m)
             \/ T!Finalize(j)
       \/ T!MemberRequest
       \/ T!EntryRequest
       \/ T!Tick

BillingInit == Init /\ T!Init

BillingNext ==
    \/ \E m \in T!PricingModels : OpenJob(m)
    \/ \E j \in DOMAIN jobs : RemoveJob(j)
    \/ EstimateRequest
    \/ TimeRequest

BillingSpec == BillingInit /\ [][BillingNext]_allVars

-----------------------------------------------------------------------------
(* Properties, next to those of Estimates                                    *)

EditsAddUp ==
    [c \in Contents |->
       \A offer \in {c} \cup Edits[c] :
          AddsUp(offer) /\ ProjectsInOrder(offer, Deltas)]

\* A stored estimate adds up to the cent and projects in order, and so would
\* any edit of its lines, tax and deposit (calculateEstimateTotals,
\* projectMarkupChange; the totals are never stored).
PricesAddUp ==
    \A e \in DOMAIN estimates : EditsAddUp[estimates[e].content]

\* A final number never changes, with the estimates as they really move.
FinalIsFinal == T!FinalIsFinal

\* The time and price of a job are those of TimeTracking: the estimate workflow
\* as it really is never does more to a job's quote than QuoteChanges allows,
\* one job in a request, so what is said of TimeTracking holds here.
TimeTrackingIsKept == T!Spec

Finalizing(j) == j \notin DOMAIN snapshots /\ j \in DOMAIN snapshots'

NewestBilled ==
    \A j \in DOMAIN models :
       Finalizing(j) /\ snapshots'[j].quoted # None =>
          \E e \in EstimatesOf(j) :
             /\ \A f \in EstimatesOf(j) : f <= e
             /\ snapshots'[j].quoted = QuoteOf(e)

\* Finalizing never bills what is not the job's last word: the quote that is
\* frozen is that of the newest of the job's stored estimates, whatever chain
\* it is in, or the job has none (setCurrentEstimate after every create and
\* revision).  Ids are drawn in order, so the newest has the largest.
NewestIsBilled == [][NewestBilled]_allVars

-----------------------------------------------------------------------------
(* What the comments claim and the code does not keep                        *)

Approved(j) == {e \in EstimatesOf(j) : estimates[e].status = "approved"}

ApprovedPriceBilled ==
    \A j \in DOMAIN models :
       Finalizing(j) /\ models[j] = "fixed" /\ Approved(j) # {} =>
          snapshots'[j].finalPrice \in
             {QuoteOf(e).totalPrice : e \in Approved(j)}

\* "the approved estimate's price is what the customer pays, full stop": a
\* fixed-price job with an approved estimate is billed an approved price.
ApprovedPriceIsBilled == [][ApprovedPriceBilled]_allVars
===============================================================================

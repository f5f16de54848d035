----------------------------- MODULE TimeTracking -----------------------------
(***************************************************************************)
(* Time logged against the jobs of one tenant, and the final price it ends *)
(* in (models/TimeEntry.js, controllers/timeTrackingController.js,         *)
(* services/timeTrackingCalculations.js, models/Job.js, routes/job.js,     *)
(* routes/timeEntry.js).                                                   *)
(*                                                                         *)
(* Every handler is synchronous, so a request is one atomic step.  What    *)
(* the estimate workflow does to a job is left to QuoteChanges: the quote  *)
(* is whatever the job's current estimate says, or None.                   *)
(*                                                                         *)
(* Times are counted in half minutes, the coarsest unit in which rounding  *)
(* to minutes shows.  Prices are exact: minutes times rate, before the     *)
(* rounding to cents.  hourlyCost goes the way of billingRate everywhere,  *)
(* so one rate stands for both; a null rate is 0, as in the price.         *)
(*                                                                         *)
(* A definition named ...Fault is the definition that follows it with a    *)
(* plausible mistake in it, which the properties are expected to notice.   *)
(***************************************************************************)
EXTENDS Integers, FiniteSets, FiniteSetsExt, Maps

CONSTANTS
    Users,          \* everyone who has ever been a member
    Rates,          \* billing rates, 0 for none
    Prices,         \* prices an estimate may quote, below 0 if it is all credits
    None,           \* null
    MaxJobs, MaxEntries,    \* bounds: how often each id is drawn
    MaxTime                 \* bound: the last instant of the clock

ASSUME TimeConstants ==
    /\ Rates \subseteq Int /\ 0 \in Rates
    /\ Prices \subseteq Int
    /\ {MaxJobs, MaxEntries, MaxTime} \subseteq Nat
    /\ None \notin Int

VARIABLES
    jobs,       \* store.jobs: id -> the row's pricingModel
    snapshots,  \* finalizedAt and finalPriceSnapshot, of the jobs that have them
    quote,      \* what the current estimate of each job quotes, or None
    entries,    \* store.timeEntries: id -> row
    rates,      \* store.users: member -> default rate
    now,        \* the server's clock
    drawn       \* history: how many ids of each kind have been drawn

vars == <<jobs, snapshots, quote, entries, rates, now, drawn>>

-----------------------------------------------------------------------------
(* Rows                                                                      *)

JobIds == 1..MaxJobs
EntryIds == 1..MaxEntries
Times == 0..MaxTime
PricingModels == {"fixed", "time_and_materials"}

Quotes == [nonLaborPrice : Prices, totalPrice : Prices]

EntryRow ==
    [jobId : JobIds,
     userId : Users,
     status : {"active", "completed"},
     entryMethod : {"self_clock", "manual"},
     clockIn : Times,
     clockOut : Times \cup {None},
     durationMinutes : Nat \cup {None},
     rate : Rates,
     billable : BOOLEAN,
     locked : BOOLEAN,
     edited : BOOLEAN]          \* editedBy is set

-----------------------------------------------------------------------------
(* What the handlers compute                                                 *)

Finalized(j) == j \in DOMAIN snapshots

\* Math.round of half minutes: a half rounds up.
MinutesBetween(in, out) == ((out - in) + 1) \div 2

ActiveOf(u) ==
    {i \in DOMAIN entries :
        entries[i].userId = u /\ entries[i].status = "active"}

EntriesOf(j) == {i \in DOMAIN entries : entries[i].jobId = j}

\* What summarizeTimeEntries reads of the job's entries.
TimeOf(j) ==
    [i \in EntriesOf(j) |->
       [status |-> entries[i].status, minutes |-> entries[i].durationMinutes,
        rate |-> entries[i].rate, billable |-> entries[i].billable]]

\* Only completed, billable time has a price.
Billed(time) ==
    LET billable == {i \in DOMAIN time :
                       time[i].status = "completed" /\ time[i].billable}
    IN  MapThenSumSet(LAMBDA i : time[i].minutes * time[i].rate, billable)

\* Labor is trued up on a time-and-materials job; a fixed job is billed what
\* was quoted, if anything was.
Summary(model, q, time) ==
    [pricingModel |-> model,
     quoted |-> q,
     billed |-> Billed(time),
     finalPrice |->
        IF model = "time_and_materials"
        THEN (IF q = None THEN 0 ELSE q.nonLaborPrice) + Billed(time)
        ELSE IF q = None THEN None ELSE q.totalPrice]

-----------------------------------------------------------------------------
(* Jobs                                                                      *)

CreateJob(model) ==
    LET j == drawn.jobs + 1 IN
    /\ j \in JobIds
    /\ jobs' = Put(jobs, j, model)
    /\ quote' = Put(quote, j, None)
    /\ drawn' = [drawn EXCEPT !.jobs = j]
    /\ UNCHANGED <<snapshots, entries, rates, now>>

SetPricingModel(j, model) ==
    /\ ~Finalized(j)
    /\ jobs' = [jobs EXCEPT ![j] = model]
    /\ UNCHANGED <<snapshots, quote, entries, rates, now, drawn>>

\* The job's current estimate is set, edited or deleted; also after the job
\* has been finalized.
QuoteChanges(j, q) ==
    /\ quote' = [quote EXCEPT ![j] = q]
    /\ UNCHANGED <<jobs, snapshots, entries, rates, now, drawn>>

DeleteJobFault(j) ==   \* the cascade forgets the time entries
    /\ jobs' = Drop(jobs, {j})
    /\ snapshots' = Drop(snapshots, {j})
    /\ quote' = Drop(quote, {j})
    /\ UNCHANGED <<entries, rates, now, drawn>>

\* The cascade takes locked entries too.
DeleteJob(j) ==
    /\ jobs' = Drop(jobs, {j})
    /\ snapshots' = Drop(snapshots, {j})
    /\ quote' = Drop(quote, {j})
    /\ entries' = Drop(entries, EntriesOf(j))
    /\ UNCHANGED <<rates, now, drawn>>

FinalizeFault(j) ==   \* pricing can be finalized again
    /\ \A i \in EntriesOf(j) : entries[i].status # "active"
    /\ snapshots' = Put(snapshots, j, Summary(jobs[j], quote[j], TimeOf(j)))
    /\ entries' = [i \in DOMAIN entries |->
                     IF entries[i].jobId = j
                     THEN [entries[i] EXCEPT !.locked = TRUE] ELSE entries[i]]
    /\ UNCHANGED <<jobs, quote, rates, now, drawn>>

\* finalizeJobPricing: one summary, every entry of the job locked, the job
\* stamped with it.
Finalize(j) ==
    /\ ~Finalized(j)
    /\ \A i \in EntriesOf(j) : entries[i].status # "active"
    /\ snapshots' = Put(snapshots, j, Summary(jobs[j], quote[j], TimeOf(j)))
    /\ entries' = [i \in DOMAIN entries |->
                     IF entries[i].jobId = j
                     THEN [entries[i] EXCEPT !.locked = TRUE] ELSE entries[i]]
    /\ UNCHANGED <<jobs, quote, rates, now, drawn>>

-----------------------------------------------------------------------------
(* Time entries                                                              *)

AddEntry(row) ==
    LET i == drawn.entries + 1 IN
    /\ i \in EntryIds
    /\ entries' = Put(entries, i, row)
    /\ drawn' = [drawn EXCEPT !.entries = i]
    /\ UNCHANGED <<jobs, snapshots, quote, rates, now>>

RunningEntry(u, j) ==
    [jobId |-> j, userId |-> u, status |-> "active",
     entryMethod |-> "self_clock", clockIn |-> now, clockOut |-> None,
     durationMinutes |-> None, rate |-> rates[u], billable |-> TRUE,
     locked |-> FALSE, edited |-> FALSE]

ClockInFault(u, j) ==   \* one running entry per job
    /\ ~Finalized(j)
    /\ \A i \in ActiveOf(u) : entries[i].jobId # j
    /\ AddEntry(RunningEntry(u, j))

ClockIn(u, j) ==
    /\ ~Finalized(j)
    /\ ActiveOf(u) = {}
    /\ AddEntry(RunningEntry(u, j))

CompleteFault(i, byManager) ==   \* the duration is left for later
    /\ entries' = [entries EXCEPT
           ![i].clockOut = now,
           ![i].status = "completed",
           ![i].edited = @ \/ byManager]
    /\ UNCHANGED <<jobs, snapshots, quote, rates, now, drawn>>

Complete(i, byManager) ==
    /\ entries' = [entries EXCEPT
           ![i].clockOut = now,
           ![i].durationMinutes = MinutesBetween(entries[i].clockIn, now),
           ![i].status = "completed",
           ![i].edited = @ \/ byManager]
    /\ UNCHANGED <<jobs, snapshots, quote, rates, now, drawn>>

\* Closes whichever entry runs for this user, on whatever job.
ClockOut(u) == \E i \in ActiveOf(u) : Complete(i, FALSE)

ForceClockOut(i) ==
    /\ entries[i].status = "active"
    /\ Complete(i, TRUE)

\* A rate in the request wins over the employee's default.  The times may lie
\* in the future, and may overlap other entries.
CreateManual(u, j, in, out, rate, billable) ==
    /\ ~Finalized(j)
    /\ in < out
    /\ AddEntry([jobId |-> j, userId |-> u, status |-> "completed",
                 entryMethod |-> "manual", clockIn |-> in, clockOut |-> out,
                 durationMinutes |-> MinutesBetween(in, out),
                 rate |-> IF rate = None THEN rates[u] ELSE rate,
                 billable |-> billable, locked |-> FALSE, edited |-> FALSE])

MayEditFault(i) ==   \* only a running entry is protected
    entries[i].status = "completed"

MayEdit(i) == ~entries[i].locked

\* PATCH /time-entries/:id without clockIn and clockOut.
UpdateTerms(i, rate, billable) ==
    /\ MayEdit(i)
    /\ entries' = [entries EXCEPT ![i].rate = rate, ![i].billable = billable,
                                  ![i].edited = TRUE]
    /\ UNCHANGED <<jobs, snapshots, quote, rates, now, drawn>>

\* ... and with them.
UpdateTimes(i, rate, billable, in, out) ==
    /\ MayEdit(i)
    /\ entries[i].status = "completed"
    /\ in < out
    /\ entries' = [entries EXCEPT
           ![i].rate = rate, ![i].billable = billable, ![i].edited = TRUE,
           ![i].clockIn = in, ![i].clockOut = out,
           ![i].durationMinutes = MinutesBetween(in, out)]
    /\ UNCHANGED <<jobs, snapshots, quote, rates, now, drawn>>

\* ... and the times are refused: rate and billable have been written by then,
\* and stay, without the mark that somebody edited the entry.
UpdateTimesRefused(i, rate, billable, in, out) ==
    /\ MayEdit(i)
    /\ entries[i].status # "completed" \/ out <= in
    /\ entries' = [entries EXCEPT ![i].rate = rate, ![i].billable = billable]
    /\ UNCHANGED <<jobs, snapshots, quote, rates, now, drawn>>

DeleteEntry(i) ==
    /\ MayEdit(i)
    /\ entries' = Drop(entries, {i})
    /\ UNCHANGED <<jobs, snapshots, quote, rates, now, drawn>>

-----------------------------------------------------------------------------
(* Members                                                                   *)

SetDefaultRate(u, r) ==
    /\ rates' = Put(rates, u, r)
    /\ UNCHANGED <<jobs, snapshots, quote, entries, now, drawn>>

\* The entries of a removed member stay, also one that is still running.
RemoveMember(u) ==
    /\ rates' = Drop(rates, {u})
    /\ UNCHANGED <<jobs, snapshots, quote, entries, now, drawn>>

Tick ==
    /\ now < MaxTime
    /\ now' = now + 1
    /\ UNCHANGED <<jobs, snapshots, quote, entries, rates, drawn>>

-----------------------------------------------------------------------------
Init ==
    /\ jobs = << >>
    /\ snapshots = << >>
    /\ quote = << >>
    /\ entries = << >>
    /\ rates = [u \in Users |-> 0]
    /\ now = 0
    /\ drawn = [jobs |-> 0, entries |-> 0]

JobRequest ==
    \/ \E m \in PricingModels : CreateJob(m)
    \/ \E j \in DOMAIN jobs :
          \/ \E m \in PricingModels : SetPricingModel(j, m)
          \/ DeleteJob(j)
          \/ Finalize(j)
          \/ \E q \in Quotes \cup {None} : QuoteChanges(j, q)

MemberRequest ==
    \E u \in DOMAIN rates :
       \/ \E j \in DOMAIN jobs : ClockIn(u, j)
       \/ ClockOut(u)
       \/ \E j \in DOMAIN jobs, in, out \in Times, r \in Rates \cup {None},
             b \in BOOLEAN : CreateManual(u, j, in, out, r, b)
       \/ \E r \in Rates : SetDefaultRate(u, r)
       \/ RemoveMember(u)

EntryRequest ==
    \E i \in DOMAIN entries :
       \/ ForceClockOut(i)
       \/ DeleteEntry(i)
       \/ \E r \in Rates, b \in BOOLEAN :
             \/ UpdateTerms(i, r, b)
             \/ \E in, out \in Times :
                   \/ UpdateTimes(i, r, b, in, out)
                   \/ UpdateTimesRefused(i, r, b, in, out)

Next == EntryRequest \/ MemberRequest \/ JobRequest \/ Tick

Spec == Init /\ [][Next]_vars

-----------------------------------------------------------------------------
(* Properties                                                                *)

DrawnOK == drawn \in [jobs : 0..MaxJobs, entries : 0..MaxEntries]

JobsOK ==
    /\ DOMAIN jobs \subseteq 1..drawn.jobs
    /\ \A j \in DOMAIN jobs : jobs[j] \in PricingModels
    /\ DOMAIN snapshots \subseteq DOMAIN jobs
    /\ DOMAIN quote = DOMAIN jobs
    /\ \A j \in DOMAIN quote : quote[j] \in Quotes \cup {None}

EntriesOK ==
    /\ DOMAIN entries \subseteq 1..drawn.entries
    /\ \A i \in DOMAIN entries : entries[i] \in EntryRow

\* An entry is either running, without an end and a duration, or completed,
\* with an end that is not before its start and the duration between the two,
\* whatever was edited in between (_complete, createManual, update).
EntryConsistent ==
    \A i \in DOMAIN entries :
       IF entries[i].status = "active"
       THEN entries[i].clockOut = None /\ entries[i].durationMinutes = None
       ELSE /\ entries[i].clockOut # None
            /\ entries[i].clockIn <= entries[i].clockOut
            /\ entries[i].durationMinutes =
                  MinutesBetween(entries[i].clockIn, entries[i].clockOut)

\* Every table holds rows of the shape the code writes (models/TimeEntry.js,
\* models/Job.js), and every entry is consistent in itself.
TypeOK ==
    /\ DrawnOK
    /\ JobsOK
    /\ EntriesOK
    /\ EntryConsistent
    /\ rates \in [DOMAIN rates -> Rates]
    /\ DOMAIN rates \subseteq Users
    /\ now \in Times

\* Nobody is in two places at once: a member runs at most one entry on all the
\* jobs together, and the time members clocked themselves, as long as no
\* manager has touched it, never counts an instant twice (clockIn).
ClockedInOnce ==
    \A i, k \in DOMAIN entries :
       i # k /\ entries[i].userId = entries[k].userId =>
          /\ ~(entries[i].status = "active" /\ entries[k].status = "active")
          /\ (\A x \in {i, k} :
                /\ entries[x].entryMethod = "self_clock"
                /\ ~entries[x].edited
                /\ entries[x].status = "completed") =>
             \/ entries[i].clockOut <= entries[k].clockIn
             \/ entries[k].clockOut <= entries[i].clockIn

\* No running entry is left behind that would block its user from clocking in.
EntriesHaveJobs == \A i \in DOMAIN entries : entries[i].jobId \in DOMAIN jobs

\* Nothing runs on a finalized job, everything on it is locked, and only the
\* entries of a finalized job are.
FinalizedIsClosed ==
    \A i \in DOMAIN entries :
       entries[i].jobId \in DOMAIN jobs =>
          /\ entries[i].locked <=> Finalized(entries[i].jobId)
          /\ entries[i].locked => entries[i].status = "completed"

\* Time stands and falls with its job: it is logged against a job that exists,
\* and is closed and locked exactly when that job has been finalized (the
\* cascade of DELETE /jobs, finalizeJobPricing, createManual, update).
EntriesFollowTheirJobs == EntriesHaveJobs /\ FinalizedIsClosed

\* The inputs behind a final number do not change: what a finalized job was
\* billed is still what its entries and its pricing model come to.
SnapshotStands ==
    \A j \in DOMAIN snapshots :
       snapshots[j] = Summary(jobs[j], snapshots[j].quoted, TimeOf(j))

FinalNumbersKept ==
    \A j \in DOMAIN snapshots :
       \/ j \notin DOMAIN jobs'
       \/ /\ jobs'[j] = jobs[j]
          /\ Finalized(j)'
          /\ snapshots'[j] = snapshots[j]

\* A final number never changes, whatever becomes of the estimate, the entries
\* and the members behind it; it goes only with its job.
FinalIsFinal == [][FinalNumbersKept]_vars
=============================================================================

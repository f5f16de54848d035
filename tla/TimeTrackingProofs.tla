-------------------------- MODULE TimeTrackingProofs --------------------------
(***************************************************************************)
(* TimeTracking, proved for any number of members, jobs and entries: the   *)
(* type invariant, that nobody is clocked in twice, and that a final price *)
(* stands.  Billed is left unexpanded: all that matters is that it depends *)
(* on nothing but TimeOf.                                                  *)
(***************************************************************************)
EXTENDS TimeTracking, TLAPS

-----------------------------------------------------------------------------
(* The inductive invariant                                                   *)

SelfClocked(i) == entries[i].entryMethod = "self_clock" /\ ~entries[i].edited

\* Nothing a member clocked lies in the future, and what runs started after
\* everything that member has clocked before.
ClockOrder ==
    \A i \in DOMAIN entries :
       /\ entries[i].status = "active" =>
             /\ entries[i].entryMethod = "self_clock"
             /\ entries[i].clockIn <= now
       /\ SelfClocked(i) /\ entries[i].status = "completed" =>
             /\ entries[i].clockOut <= now
             /\ \A k \in DOMAIN entries :
                   /\ entries[k].userId = entries[i].userId
                   /\ entries[k].status = "active"
                   => entries[i].clockOut <= entries[k].clockIn

Clock == ClockOrder /\ ClockedInOnce

Closed == EntriesHaveJobs /\ FinalizedIsClosed /\ SnapshotStands

IInv == TypeOK /\ Clock /\ Closed

LEMMA Counters ==
    ASSUME TypeOK
    PROVE  /\ drawn.jobs \in Nat /\ drawn.entries \in Nat
           /\ MaxJobs \in Nat /\ MaxEntries \in Nat /\ MaxTime \in Nat
           /\ now \in Nat /\ None \notin Nat
BY TimeConstants DEF TypeOK, DrawnOK, Times

-----------------------------------------------------------------------------
(* Steps that leave the entries alone                                        *)

LEMMA EntriesKept ==
    ASSUME IInv, UNCHANGED entries, now' \in Times, now <= now'
    PROVE  EntryConsistent' /\ Clock'
<1> USE DEF IInv, TypeOK, EntriesOK, EntryRow, Clock
<1>1. EntryConsistent'
  BY DEF EntryConsistent
<1>2. ClockedInOnce'
  BY DEF ClockedInOnce
<1>3. \A i \in DOMAIN entries :
         /\ entries[i].status = "active" => entries[i].clockIn <= now'
         /\ SelfClocked(i) /\ entries[i].status = "completed" =>
               entries[i].clockOut <= now'
  <2>1. ASSUME NEW i \in DOMAIN entries, entries[i].status = "active"
        PROVE  entries[i].clockIn <= now'
    BY <2>1, Counters DEF ClockOrder, Times
  <2>2. ASSUME NEW i \in DOMAIN entries, SelfClocked(i),
               entries[i].status = "completed"
        PROVE  entries[i].clockOut <= now'
    <3>1. entries[i].clockOut <= now /\ entries[i].clockOut \in Times
      BY <2>2 DEF ClockOrder, EntryConsistent
    <3>2. QED
      BY <3>1, Counters DEF Times
  <2>3. QED
    BY <2>1, <2>2
<1>4. ClockOrder'
  BY <1>3 DEF ClockOrder, SelfClocked
<1>5. QED
  BY <1>1, <1>2, <1>4

\* The snapshots stand as long as the jobs that have one, and the time that is
\* read of their entries, are left alone.
LEMMA SnapshotsKept ==
    ASSUME SnapshotStands, DOMAIN snapshots' \subseteq DOMAIN snapshots,
           \A j \in DOMAIN snapshots' :
              /\ snapshots'[j] = snapshots[j]
              /\ jobs'[j] = jobs[j]
              /\ TimeOf(j)' = TimeOf(j)
    PROVE  SnapshotStands'
BY DEF SnapshotStands

LEMMA CreateJobStep == ASSUME IInv, NEW m \in PricingModels, CreateJob(m)
                       PROVE  IInv'
<1> DEFINE n == drawn.jobs + 1
<1>1. /\ n \in 1..MaxJobs /\ n \notin DOMAIN jobs
      /\ drawn' = [drawn EXCEPT !.jobs = n]
      /\ drawn'.jobs = n /\ drawn'.entries = drawn.entries
      /\ UNCHANGED <<entries, snapshots, rates, now>>
  BY Counters DEF IInv, CreateJob, TypeOK, DrawnOK, JobsOK, JobIds
<1>2. /\ DOMAIN jobs' = DOMAIN jobs \cup {n} /\ jobs'[n] = m
      /\ \A j \in DOMAIN jobs : jobs'[j] = jobs[j]
      /\ DOMAIN quote' = DOMAIN quote \cup {n} /\ quote'[n] = None
      /\ \A j \in DOMAIN quote : j # n => quote'[j] = quote[j]
  BY <1>1 DEF CreateJob, Put
<1>3. DrawnOK'
  BY <1>1, Counters DEF IInv, TypeOK, DrawnOK
<1>4. JobsOK'
  BY <1>1, <1>2, Counters DEF IInv, TypeOK, JobsOK
<1>5. TypeOK' /\ Clock'
  BY <1>1, <1>3, <1>4, EntriesKept, Counters DEF IInv, TypeOK, EntriesOK, Times
<1>6. EntriesHaveJobs'
  BY <1>1, <1>2 DEF IInv, Closed, EntriesHaveJobs
<1>7. FinalizedIsClosed'
  BY <1>1, <1>2 DEF IInv, Closed, EntriesHaveJobs, FinalizedIsClosed, Finalized
<1>8. SnapshotStands'
  BY <1>1, <1>2, SnapshotsKept
  DEF IInv, Closed, TypeOK, JobsOK, TimeOf, EntriesOf
<1>9. QED
  BY <1>5, <1>6, <1>7, <1>8 DEF IInv, Closed

LEMMA AsideStep ==
    ASSUME IInv, UNCHANGED <<entries, snapshots, drawn>>,
           DOMAIN jobs' = DOMAIN jobs,
           \A j \in DOMAIN snapshots : jobs'[j] = jobs[j],
           \A j \in DOMAIN jobs : jobs'[j] \in PricingModels,
           DOMAIN quote' = DOMAIN quote,
           \A j \in DOMAIN quote : quote'[j] \in Quotes \cup {None},
           rates' \in [DOMAIN rates' -> Rates], DOMAIN rates' \subseteq Users,
           now' \in Times, now <= now'
    PROVE  IInv'
<1>1. TypeOK' /\ Clock'
  BY EntriesKept DEF IInv, TypeOK, DrawnOK, JobsOK, EntriesOK
<1>2. SnapshotStands'
  BY SnapshotsKept DEF IInv, Closed, TimeOf, EntriesOf
<1>3. EntriesHaveJobs' /\ FinalizedIsClosed'
  BY DEF IInv, Closed, EntriesHaveJobs, FinalizedIsClosed, Finalized
<1>4. QED
  BY <1>1, <1>2, <1>3 DEF IInv, Closed

LEMMA AsideRequests ==
    ASSUME IInv
    PROVE  /\ \A j \in DOMAIN jobs, m \in PricingModels :
                 SetPricingModel(j, m) => IInv'
           /\ \A j \in DOMAIN jobs, q \in Quotes \cup {None} :
                 QuoteChanges(j, q) => IInv'
           /\ \A u \in DOMAIN rates, r \in Rates : SetDefaultRate(u, r) => IInv'
           /\ \A u \in DOMAIN rates : RemoveMember(u) => IInv'
           /\ Tick => IInv'
           /\ UNCHANGED vars => IInv'
<1> USE DEF IInv, TypeOK, JobsOK
<1>0. now \in Times /\ now <= now
  BY Counters
<1>1. ASSUME NEW j \in DOMAIN jobs, NEW m \in PricingModels,
             SetPricingModel(j, m)
      PROVE  IInv'
  BY <1>0, <1>1, AsideStep DEF SetPricingModel, Finalized
<1>2. ASSUME NEW j \in DOMAIN jobs, NEW q \in Quotes \cup {None},
             QuoteChanges(j, q)
      PROVE  IInv'
  BY <1>0, <1>2, AsideStep DEF QuoteChanges
<1>3. ASSUME NEW u \in DOMAIN rates, NEW r \in Rates, SetDefaultRate(u, r)
      PROVE  IInv'
  BY <1>0, <1>3, AsideStep DEF SetDefaultRate, Put
<1>4. ASSUME NEW u \in DOMAIN rates, RemoveMember(u)
      PROVE  IInv'
  BY <1>0, <1>4, AsideStep DEF RemoveMember, Drop, Restrict
<1>5. ASSUME Tick PROVE IInv'
  <2>1. now' \in Times /\ now <= now'
    BY <1>5, Counters DEF Tick, Times
  <2>2. QED
    BY <1>5, <2>1, AsideStep DEF Tick
<1>6. ASSUME UNCHANGED vars PROVE IInv'
  BY <1>0, <1>6, AsideStep DEF vars
<1>7. QED
  BY <1>1, <1>2, <1>3, <1>4, <1>5, <1>6

-----------------------------------------------------------------------------
(* Steps that add or rewrite one entry                                       *)

\* What EntryConsistent asks of one row.
Consistent(row) ==
    IF row.status = "active"
    THEN row.clockOut = None /\ row.durationMinutes = None
    ELSE /\ row.clockOut # None
         /\ row.clockIn <= row.clockOut
         /\ row.durationMinutes = MinutesBetween(row.clockIn, row.clockOut)

\* The time of a job is as it was when only entries of other jobs differ.
LEMMA OtherJobsTime ==
    ASSUME NEW j, EntriesOf(j)' = EntriesOf(j),
           \A i \in EntriesOf(j) : entries'[i] = entries[i]
    PROVE  TimeOf(j)' = TimeOf(j)
BY DEF TimeOf

LEMMA AddEntryStep ==
    ASSUME IInv, NEW row \in EntryRow, AddEntry(row), Consistent(row),
           row.jobId \in DOMAIN jobs, ~Finalized(row.jobId), row.locked = FALSE,
           \/ row.entryMethod = "manual" /\ row.status = "completed"
           \/ /\ row.entryMethod = "self_clock" /\ row.status = "active"
              /\ row.clockIn = now
              /\ ActiveOf(row.userId) = {}
    PROVE  IInv'
<1> DEFINE n == drawn.entries + 1
<1>1. /\ n \in 1..MaxEntries /\ n \notin DOMAIN entries
      /\ drawn' = [drawn EXCEPT !.entries = n]
      /\ drawn'.entries = n /\ drawn'.jobs = drawn.jobs
      /\ UNCHANGED <<jobs, snapshots, quote, rates, now>>
  BY Counters DEF IInv, AddEntry, TypeOK, DrawnOK, EntriesOK, EntryIds
<1>2. /\ DOMAIN entries' = DOMAIN entries \cup {n}
      /\ entries'[n] = row
      /\ \A i \in DOMAIN entries : entries'[i] = entries[i]
  BY <1>1 DEF AddEntry, Put
<1>3. DrawnOK' /\ JobsOK'
  BY <1>1, Counters DEF IInv, TypeOK, DrawnOK, JobsOK
<1>4. EntriesOK'
  BY <1>1, <1>2, Counters DEF IInv, TypeOK, EntriesOK
<1>5. EntryConsistent'
  BY <1>2 DEF IInv, TypeOK, EntryConsistent, Consistent
<1>6. TypeOK'
  BY <1>1, <1>3, <1>4, <1>5 DEF IInv, TypeOK
<1>7. \A i \in DOMAIN entries : SelfClocked(i)' <=> SelfClocked(i)
  BY <1>2 DEF SelfClocked
<1>8. row.status = "active" =>
         \A i \in DOMAIN entries :
            entries[i].userId = row.userId => entries[i].status = "completed"
  BY DEF ActiveOf, IInv, TypeOK, EntriesOK, EntryRow
<1>9. ClockOrder'
  <2>1. ASSUME NEW i \in DOMAIN entries
        PROVE  /\ entries'[i].status = "active" =>
                     /\ entries'[i].entryMethod = "self_clock"
                     /\ entries'[i].clockIn <= now'
               /\ SelfClocked(i)' /\ entries'[i].status = "completed" =>
                     entries'[i].clockOut <= now'
    BY <1>1, <1>2, <1>7 DEF IInv, Clock, ClockOrder
  <2>2. entries'[n].status = "active" =>
           entries'[n].entryMethod = "self_clock" /\ entries'[n].clockIn <= now'
    BY <1>1, <1>2, Counters DEF IInv
  <2>3. entries'[n].status = "completed" =>
           entries'[n].entryMethod # "self_clock"
    BY <1>2
  <2>4. ASSUME NEW i \in DOMAIN entries, SelfClocked(i),
               entries[i].status = "completed",
               NEW k \in DOMAIN entries', entries'[k].status = "active",
               entries'[k].userId = entries[i].userId
        PROVE  entries[i].clockOut <= entries'[k].clockIn
    <3>1. CASE k = n
      BY <1>2, <2>4, <3>1 DEF IInv, Clock, ClockOrder
    <3>2. CASE k # n
      BY <1>2, <2>4, <3>2 DEF IInv, Clock, ClockOrder
    <3>3. QED
      BY <3>1, <3>2
  <2>5. QED
    BY <1>2, <1>7, <2>1, <2>2, <2>3, <2>4 DEF ClockOrder, SelfClocked
<1>10. ClockedInOnce'
  <2>1. ASSUME NEW i \in DOMAIN entries, entries[i].userId = row.userId
        PROVE  ~(entries[i].status = "active" /\ row.status = "active")
    BY <1>8, <2>1
  <2>2. row.entryMethod = "manual" \/ row.status # "completed"
    OBVIOUS
  <2>3. QED
    BY <1>2, <2>1, <2>2 DEF IInv, Clock, ClockedInOnce
<1>11. EntriesHaveJobs'
  BY <1>1, <1>2 DEF IInv, Closed, EntriesHaveJobs
<1>12. FinalizedIsClosed'
  BY <1>1, <1>2 DEF IInv, Closed, FinalizedIsClosed, Finalized
<1>13. SnapshotStands'
  <2>1. ASSUME NEW j \in DOMAIN snapshots PROVE TimeOf(j)' = TimeOf(j)
    <3>1. EntriesOf(j)' = EntriesOf(j)
      BY <1>2 DEF EntriesOf, Finalized
    <3>2. QED
      BY <1>2, <3>1, OtherJobsTime DEF EntriesOf
  <2>2. QED
    BY <1>1, <2>1, SnapshotsKept DEF IInv, Closed
<1>14. QED
  BY <1>6, <1>9, <1>10, <1>11, <1>12, <1>13 DEF IInv, Clock, Closed

LEMMA ChangeEntryStep ==
    ASSUME IInv, NEW e \in DOMAIN entries, NEW row \in EntryRow,
           DOMAIN entries' = DOMAIN entries, entries'[e] = row,
           \A i \in DOMAIN entries : i # e => entries'[i] = entries[i],
           UNCHANGED <<jobs, snapshots, quote, rates, now, drawn>>,
           ~entries[e].locked, Consistent(row),
           row.jobId = entries[e].jobId, row.userId = entries[e].userId,
           row.entryMethod = entries[e].entryMethod, row.locked = FALSE,
           \/ /\ row.status = entries[e].status
              /\ row.clockIn = entries[e].clockIn
              /\ row.clockOut = entries[e].clockOut
              /\ row.edited = entries[e].edited \/ row.edited = TRUE
           \/ row.status = "completed" /\ row.edited = TRUE
           \/ /\ row.status = "completed" /\ entries[e].status = "active"
              /\ row.clockIn = entries[e].clockIn
              /\ row.clockOut = now
    PROVE  IInv'
<1>1. TypeOK'
  <2>1. EntriesOK'
    BY DEF IInv, TypeOK, EntriesOK
  <2>2. EntryConsistent'
    BY DEF IInv, TypeOK, EntryConsistent, Consistent
  <2>3. QED
    BY <2>1, <2>2 DEF IInv, TypeOK, DrawnOK, JobsOK
\* An entry that runs now ran before, from the same instant on.
<1>2. \A i \in DOMAIN entries :
         /\ entries'[i].userId = entries[i].userId
         /\ entries'[i].entryMethod = entries[i].entryMethod
         /\ entries'[i].jobId = entries[i].jobId
         /\ entries'[i].status = "active" =>
               /\ entries[i].status = "active"
               /\ entries'[i].clockIn = entries[i].clockIn
  OBVIOUS
\* What a member clocked and nobody edited was so before, or ran until now.
<1>3. \A i \in DOMAIN entries :
         SelfClocked(i)' /\ entries'[i].status = "completed" =>
            /\ entries'[i].clockIn = entries[i].clockIn
            /\ \/ /\ SelfClocked(i) /\ entries[i].status = "completed"
                  /\ entries'[i].clockOut = entries[i].clockOut
               \/ /\ entries[i].status = "active"
                  /\ entries'[i].clockOut = now
  BY DEF SelfClocked
<1>4. \A i, k \in DOMAIN entries :
         /\ i # k
         /\ entries[i].userId = entries[k].userId
         => ~(entries[i].status = "active" /\ entries[k].status = "active")
  BY DEF IInv, Clock, ClockedInOnce
<1>5. ClockOrder'
  <2>1. ASSUME NEW i \in DOMAIN entries, entries'[i].status = "active"
        PROVE  /\ entries'[i].entryMethod = "self_clock"
               /\ entries'[i].clockIn <= now'
    BY <1>2, <2>1 DEF IInv, Clock, ClockOrder
  <2>2. ASSUME NEW i \in DOMAIN entries, SelfClocked(i)',
               entries'[i].status = "completed"
        PROVE  entries'[i].clockOut <= now'
    BY <1>3, <2>2, Counters DEF IInv, Clock, ClockOrder
  <2>3. ASSUME NEW i \in DOMAIN entries, SelfClocked(i)',
               entries'[i].status = "completed",
               NEW k \in DOMAIN entries, entries'[k].status = "active",
               entries'[k].userId = entries'[i].userId
        PROVE  entries'[i].clockOut <= entries'[k].clockIn
    <3>1. i # k /\ entries[k].status = "active"
          /\ entries[k].userId = entries[i].userId
          /\ entries'[k].clockIn = entries[k].clockIn
      BY <1>2, <2>3
    <3>2. /\ SelfClocked(i) /\ entries[i].status = "completed"
          /\ entries'[i].clockOut = entries[i].clockOut
      BY <1>3, <1>4, <2>3, <3>1
    <3>3. QED
      BY <3>1, <3>2 DEF IInv, Clock, ClockOrder
  <2>4. QED
    BY <2>1, <2>2, <2>3 DEF ClockOrder, SelfClocked
<1>6. ClockedInOnce'
  <2>1. ASSUME NEW i \in DOMAIN entries, NEW k \in DOMAIN entries, i # k,
               entries'[i].userId = entries'[k].userId
        PROVE  ~(entries'[i].status = "active" /\ entries'[k].status = "active")
    BY <1>2, <1>4, <2>1
  <2>2. ASSUME NEW i \in DOMAIN entries, NEW k \in DOMAIN entries, i # k,
               entries'[i].userId = entries'[k].userId,
               SelfClocked(i)', entries'[i].status = "completed",
               SelfClocked(k)', entries'[k].status = "completed"
        PROVE  \/ entries'[i].clockOut <= entries'[k].clockIn
               \/ entries'[k].clockOut <= entries'[i].clockIn
    <3>0. entries[i].userId = entries[k].userId
      BY <1>2, <2>2
    <3>1. CASE entries[i].status = "completed" /\ entries[k].status = "completed"
      BY <1>3, <2>2, <3>0, <3>1 DEF IInv, Clock, ClockedInOnce, SelfClocked
    <3>2. CASE entries[i].status = "active" /\ entries[k].status = "completed"
      BY <1>3, <2>2, <3>0, <3>2 DEF IInv, Clock, ClockOrder
    <3>3. CASE entries[i].status = "completed" /\ entries[k].status = "active"
      BY <1>3, <2>2, <3>0, <3>3 DEF IInv, Clock, ClockOrder
    <3>4. QED
      BY <1>4, <2>2, <3>0, <3>1, <3>2, <3>3
      DEF IInv, TypeOK, EntriesOK, EntryRow
  <2>3. QED
    BY <2>1, <2>2 DEF ClockedInOnce, SelfClocked
<1>7. EntriesHaveJobs' /\ FinalizedIsClosed'
  BY DEF IInv, Closed, EntriesHaveJobs, FinalizedIsClosed, Finalized
<1>8. SnapshotStands'
  <2>1. ASSUME NEW j \in DOMAIN snapshots PROVE TimeOf(j)' = TimeOf(j)
    <3>1. e \notin EntriesOf(j)
      BY DEF EntriesOf, IInv, Closed, EntriesHaveJobs, FinalizedIsClosed,
             Finalized
    <3>2. EntriesOf(j)' = EntriesOf(j)
      BY <1>2 DEF EntriesOf
    <3>3. \A i \in EntriesOf(j) : entries'[i] = entries[i]
      BY <3>1 DEF EntriesOf
    <3>4. QED
      BY <3>2, <3>3, OtherJobsTime
  <2>2. QED
    BY <2>1, SnapshotsKept DEF IInv, Closed
<1>9. QED
  BY <1>1, <1>5, <1>6, <1>7, <1>8 DEF IInv, Clock, Closed

-----------------------------------------------------------------------------
(* Steps that remove entries, and finalizing                                 *)

LEMMA RemoveEntriesStep ==
    ASSUME IInv, NEW S, entries' = Drop(entries, S),
           UNCHANGED <<rates, now, drawn>>,
           DOMAIN jobs' \subseteq DOMAIN jobs,
           \A j \in DOMAIN jobs' : jobs'[j] = jobs[j],
           DOMAIN snapshots' = DOMAIN snapshots \cap DOMAIN jobs',
           \A j \in DOMAIN snapshots' : snapshots'[j] = snapshots[j],
           DOMAIN quote' = DOMAIN jobs',
           \A j \in DOMAIN quote' : quote'[j] = quote[j],
           \A i \in DOMAIN entries \ S :
              entries[i].jobId \in DOMAIN jobs',
           \A i \in S \cap DOMAIN entries :
              ~entries[i].locked \/ entries[i].jobId \notin DOMAIN jobs'
    PROVE  IInv'
<1>1. /\ DOMAIN entries' = DOMAIN entries \ S
      /\ \A i \in DOMAIN entries' : entries'[i] = entries[i]
  BY DEF Drop, Restrict
<1>2. TypeOK'
  <2>1. JobsOK' /\ DrawnOK'
    BY DEF IInv, TypeOK, JobsOK, DrawnOK
  <2>2. EntriesOK' /\ EntryConsistent'
    BY <1>1 DEF IInv, TypeOK, EntriesOK, EntryConsistent
  <2>3. QED
    BY <2>1, <2>2 DEF IInv, TypeOK
<1>3. ClockOrder' /\ ClockedInOnce'
  BY <1>1 DEF IInv, Clock, ClockOrder, ClockedInOnce, SelfClocked
<1>4. EntriesHaveJobs'
  BY <1>1 DEF EntriesHaveJobs
<1>5. FinalizedIsClosed'
  BY <1>1 DEF IInv, Closed, FinalizedIsClosed, Finalized
<1>6. SnapshotStands'
  <2>1. ASSUME NEW j \in DOMAIN snapshots' PROVE TimeOf(j)' = TimeOf(j)
    <3>1. EntriesOf(j)' = EntriesOf(j)
      BY <1>1 DEF EntriesOf, IInv, Closed, EntriesHaveJobs, FinalizedIsClosed,
                  Finalized
    <3>2. \A i \in EntriesOf(j) : entries'[i] = entries[i]
      BY <1>1, <3>1 DEF EntriesOf
    <3>3. QED
      BY <3>1, <3>2, OtherJobsTime
  <2>2. QED
    BY <2>1, SnapshotsKept DEF IInv, Closed, TypeOK, JobsOK
<1>7. QED
  BY <1>2, <1>3, <1>4, <1>5, <1>6 DEF IInv, Clock, Closed

LEMMA FinalizeStep == ASSUME IInv, NEW j \in DOMAIN jobs, Finalize(j)
                      PROVE  IInv'
<1>1. /\ DOMAIN snapshots' = DOMAIN snapshots \cup {j}
      /\ snapshots'[j] = Summary(jobs[j], quote[j], TimeOf(j))
      /\ \A x \in DOMAIN snapshots : x # j => snapshots'[x] = snapshots[x]
      /\ ~Finalized(j)
      /\ UNCHANGED <<jobs, quote, rates, now, drawn>>
  BY DEF Finalize, Put
<1>2. /\ DOMAIN entries' = DOMAIN entries
      /\ \A i \in DOMAIN entries :
            /\ entries[i].jobId # j => entries'[i] = entries[i]
            /\ entries[i].jobId = j =>
                  entries'[i] = [entries[i] EXCEPT !.locked = TRUE]
  BY DEF Finalize
<1>3. \A i \in DOMAIN entries :
         /\ entries'[i] \in EntryRow
         /\ entries'[i].jobId = entries[i].jobId
         /\ entries'[i].userId = entries[i].userId
         /\ entries'[i].status = entries[i].status
         /\ entries'[i].entryMethod = entries[i].entryMethod
         /\ entries'[i].clockIn = entries[i].clockIn
         /\ entries'[i].clockOut = entries[i].clockOut
         /\ entries'[i].durationMinutes = entries[i].durationMinutes
         /\ entries'[i].rate = entries[i].rate
         /\ entries'[i].billable = entries[i].billable
         /\ entries'[i].edited = entries[i].edited
         /\ entries'[i].locked =
               IF entries[i].jobId = j THEN TRUE ELSE entries[i].locked
  <2> SUFFICES ASSUME NEW i \in DOMAIN entries, NEW r \in EntryRow,
                      r = entries[i]
               PROVE  /\ entries'[i] \in EntryRow
                      /\ entries'[i].jobId = r.jobId
                      /\ entries'[i].userId = r.userId
                      /\ entries'[i].status = r.status
                      /\ entries'[i].entryMethod = r.entryMethod
                      /\ entries'[i].clockIn = r.clockIn
                      /\ entries'[i].clockOut = r.clockOut
                      /\ entries'[i].durationMinutes = r.durationMinutes
                      /\ entries'[i].rate = r.rate
                      /\ entries'[i].billable = r.billable
                      /\ entries'[i].edited = r.edited
                      /\ entries'[i].locked =
                            IF r.jobId = j THEN TRUE ELSE r.locked
    BY DEF IInv, TypeOK, EntriesOK
  <2>1. CASE r.jobId = j
    <3>1. entries'[i] = [r EXCEPT !.locked = TRUE]
      BY <1>2, <2>1
    <3>2. QED
      BY <2>1, <3>1 DEF EntryRow
  <2>2. CASE r.jobId # j
    <3>1. entries'[i] = r
      BY <1>2, <2>2
    <3>2. QED
      BY <2>2, <3>1 DEF EntryRow
  <2>3. QED
    BY <2>1, <2>2
<1>4. TypeOK'
  <2>1. EntriesOK'
    BY <1>1, <1>2, <1>3 DEF IInv, TypeOK, EntriesOK
  <2>2. EntryConsistent'
    <3>1. ASSUME NEW i \in DOMAIN entries
          PROVE  /\ entries'[i].status = entries[i].status
                 /\ entries'[i].clockIn = entries[i].clockIn
                 /\ entries'[i].clockOut = entries[i].clockOut
                 /\ entries'[i].durationMinutes = entries[i].durationMinutes
      BY <1>3
    <3>2. QED
      BY <1>2, <3>1 DEF IInv, TypeOK, EntryConsistent
  <2>3. DrawnOK' /\ JobsOK'
    BY <1>1 DEF IInv, TypeOK, DrawnOK, JobsOK
  <2>4. QED
    BY <1>1, <2>1, <2>2, <2>3 DEF IInv, TypeOK
<1>5. ClockOrder' /\ ClockedInOnce'
  <2>1. ASSUME NEW i \in DOMAIN entries
        PROVE  /\ entries'[i].userId = entries[i].userId
               /\ entries'[i].status = entries[i].status
               /\ entries'[i].entryMethod = entries[i].entryMethod
               /\ entries'[i].clockIn = entries[i].clockIn
               /\ entries'[i].clockOut = entries[i].clockOut
               /\ entries'[i].edited = entries[i].edited
    BY <1>3
  <2>2. DOMAIN entries' = DOMAIN entries /\ now' = now
    BY <1>1, <1>2
  <2>3. ClockOrder'
    BY <2>1, <2>2 DEF IInv, Clock, ClockOrder, SelfClocked
  <2>4. ClockedInOnce'
    BY <2>1, <2>2 DEF IInv, Clock, ClockedInOnce
  <2>5. QED
    BY <2>3, <2>4
<1>6. EntriesHaveJobs'
  BY <1>1, <1>2, <1>3 DEF IInv, Closed, EntriesHaveJobs
<1>7. FinalizedIsClosed'
  <2>1. ASSUME NEW i \in DOMAIN entries, entries[i].jobId = j
        PROVE  entries[i].status = "completed"
    BY <2>1 DEF Finalize, EntriesOf, IInv, TypeOK, EntriesOK, EntryRow
  <2>2. ASSUME NEW i \in DOMAIN entries, entries[i].jobId \in DOMAIN jobs
        PROVE  /\ entries'[i].locked <=> entries[i].jobId \in DOMAIN snapshots'
               /\ entries'[i].locked => entries'[i].status = "completed"
    <3>1. CASE entries[i].jobId = j
      <4>1. entries'[i].locked = TRUE
        BY <1>3, <3>1
      <4>2. entries'[i].status = entries[i].status
        BY <1>3
      <4>3. entries'[i].status = "completed"
        BY <2>1, <3>1, <4>2
      <4>4. entries[i].jobId \in DOMAIN snapshots'
        BY <1>1, <3>1
      <4>5. QED
        BY <4>1, <4>3, <4>4
    <3>2. CASE entries[i].jobId # j
      <4>1. entries'[i] = entries[i]
        BY <1>2, <3>2
      <4>2. /\ entries[i].locked <=> entries[i].jobId \in DOMAIN snapshots
            /\ entries[i].locked => entries[i].status = "completed"
        BY <2>2 DEF IInv, Closed, FinalizedIsClosed, Finalized
      <4>3. entries[i].jobId \in DOMAIN snapshots' <=>
               entries[i].jobId \in DOMAIN snapshots
        BY <1>1, <3>2
      <4>4. QED
        BY <4>1, <4>2, <4>3
    <3>3. QED
      BY <3>1, <3>2
  <2>3. QED
    BY <1>1, <1>2, <1>3, <2>2 DEF FinalizedIsClosed, Finalized
<1>8. \A x : TimeOf(x)' = TimeOf(x)
  BY <1>2, <1>3 DEF TimeOf, EntriesOf
<1>9. SnapshotStands'
  <2>1. snapshots'[j] = Summary(jobs[j], snapshots'[j].quoted, TimeOf(j))
    BY <1>1 DEF Summary
  <2>2. QED
    BY <1>1, <1>8, <2>1 DEF IInv, Closed, SnapshotStands
<1>10. QED
  BY <1>4, <1>5, <1>6, <1>7, <1>9 DEF IInv, Clock, Closed

-----------------------------------------------------------------------------
(* Every step                                                                *)

\* Both ways of completing an entry.
LEMMA CompleteStep ==
    ASSUME IInv, NEW i \in DOMAIN entries, entries[i].status = "active",
           NEW byManager \in BOOLEAN, Complete(i, byManager)
    PROVE  IInv'
<1> DEFINE row == [entries[i] EXCEPT
                     !.clockOut = now, !.status = "completed",
                     !.durationMinutes = MinutesBetween(entries[i].clockIn, now),
                     !.edited = @ \/ byManager]
<1>1. /\ entries[i] \in EntryRow
      /\ entries[i].clockIn \in Nat /\ now \in Nat /\ now \in Times
      /\ entries[i].clockIn <= now
      /\ ~entries[i].locked
  BY Counters
  DEF IInv, TypeOK, EntriesOK, EntryRow, Times, Clock, ClockOrder, Closed,
      EntriesHaveJobs, FinalizedIsClosed
<1>2. MinutesBetween(entries[i].clockIn, now) \in Nat
  BY <1>1 DEF MinutesBetween
<1>3. now # None
  BY <1>1, Counters DEF IInv
<1>4. /\ row \in EntryRow
      /\ row.jobId = entries[i].jobId /\ row.userId = entries[i].userId
      /\ row.entryMethod = entries[i].entryMethod
      /\ row.status = "completed" /\ row.clockOut = now
      /\ row.clockIn = entries[i].clockIn
      /\ row.durationMinutes = MinutesBetween(entries[i].clockIn, now)
      /\ row.locked = FALSE
  BY <1>1, <1>2 DEF EntryRow
<1>5. Consistent(row)
  BY <1>1, <1>3, <1>4 DEF Consistent
<1>6. /\ DOMAIN entries' = DOMAIN entries
      /\ entries'[i] = row
      /\ \A k \in DOMAIN entries : k # i => entries'[k] = entries[k]
      /\ UNCHANGED <<jobs, snapshots, quote, rates, now, drawn>>
  BY <1>1 DEF Complete, EntryRow
<1> HIDE DEF row
<1>7. QED
  BY <1>1, <1>4, <1>5, <1>6, ChangeEntryStep

\* PATCH, whether its times are taken or refused.
LEMMA UpdateStep ==
    ASSUME IInv, NEW i \in DOMAIN entries, NEW r \in Rates, NEW b \in BOOLEAN
    PROVE  /\ UpdateTerms(i, r, b) => IInv'
           /\ \A in, out \in Times :
                 /\ UpdateTimes(i, r, b, in, out) => IInv'
                 /\ UpdateTimesRefused(i, r, b, in, out) => IInv'
<1>1. entries[i] \in EntryRow /\ Consistent(entries[i])
  BY DEF IInv, TypeOK, EntriesOK, EntryConsistent, Consistent
<1>2. ASSUME NEW edited \in {entries[i].edited, TRUE}, MayEdit(i),
             UNCHANGED <<jobs, snapshots, quote, rates, now, drawn>>,
             entries' = [entries EXCEPT ![i].rate = r, ![i].billable = b,
                                        ![i].edited = edited]
      PROVE  IInv'
  <2> DEFINE row == [entries[i] EXCEPT !.rate = r, !.billable = b,
                                       !.edited = edited]
  <2>1. /\ row \in EntryRow
        /\ row.jobId = entries[i].jobId /\ row.userId = entries[i].userId
        /\ row.entryMethod = entries[i].entryMethod
        /\ row.status = entries[i].status
        /\ row.clockIn = entries[i].clockIn
        /\ row.clockOut = entries[i].clockOut
        /\ row.durationMinutes = entries[i].durationMinutes
        /\ row.edited = edited
        /\ row.locked = FALSE
    BY <1>1, <1>2 DEF EntryRow, MayEdit
  <2>2. /\ DOMAIN entries' = DOMAIN entries
        /\ entries'[i] = row
        /\ \A k \in DOMAIN entries : k # i => entries'[k] = entries[k]
    BY <1>2
  <2>3. Consistent(row)
    BY <1>1, <2>1 DEF Consistent
  <2>4. ~entries[i].locked
    BY <1>2 DEF MayEdit
  <2> HIDE DEF row
  <2>5. QED
    BY <1>2, <2>1, <2>2, <2>3, <2>4, ChangeEntryStep
<1>3. ASSUME UpdateTerms(i, r, b) PROVE IInv'
  BY <1>2, <1>3 DEF UpdateTerms
<1>4. ASSUME NEW in \in Times, NEW out \in Times,
             UpdateTimesRefused(i, r, b, in, out)
      PROVE  IInv'
  <2>1. entries' = [entries EXCEPT ![i].rate = r, ![i].billable = b,
                                   ![i].edited = entries[i].edited]
    BY <1>1, <1>4 DEF UpdateTimesRefused, EntryRow
  <2>2. QED
    BY <1>2, <1>4, <2>1 DEF UpdateTimesRefused
<1>5. ASSUME NEW in \in Times, NEW out \in Times,
             UpdateTimes(i, r, b, in, out)
      PROVE  IInv'
  <2> DEFINE row == [entries[i] EXCEPT
                       !.rate = r, !.billable = b, !.edited = TRUE,
                       !.clockIn = in, !.clockOut = out,
                       !.durationMinutes = MinutesBetween(in, out)]
  <2>1. /\ in \in Nat /\ out \in Nat /\ in < out
        /\ entries[i].status = "completed" /\ ~entries[i].locked
        /\ out # None
    BY <1>5, Counters DEF UpdateTimes, MayEdit, Times, IInv
  <2>2. MinutesBetween(in, out) \in Nat
    BY <2>1 DEF MinutesBetween
  <2>3. /\ row \in EntryRow
        /\ row.jobId = entries[i].jobId /\ row.userId = entries[i].userId
        /\ row.entryMethod = entries[i].entryMethod
        /\ row.status = "completed" /\ row.edited = TRUE
        /\ row.clockIn = in /\ row.clockOut = out
        /\ row.durationMinutes = MinutesBetween(in, out)
        /\ row.locked = FALSE
    BY <1>1, <2>1, <2>2 DEF EntryRow
  <2>4. Consistent(row)
    BY <2>1, <2>3 DEF Consistent
  <2>5. /\ DOMAIN entries' = DOMAIN entries
        /\ entries'[i] = row
        /\ \A k \in DOMAIN entries : k # i => entries'[k] = entries[k]
        /\ UNCHANGED <<jobs, snapshots, quote, rates, now, drawn>>
    BY <1>5 DEF UpdateTimes
  <2> HIDE DEF row
  <2>6. QED
    BY <2>1, <2>3, <2>4, <2>5, ChangeEntryStep
<1>6. QED
  BY <1>3, <1>4, <1>5

LEMMA ClockInStep ==
    ASSUME IInv, NEW u \in DOMAIN rates, NEW j \in DOMAIN jobs, ClockIn(u, j)
    PROVE  IInv'
<1>1. /\ u \in Users /\ j \in JobIds /\ rates[u] \in Rates /\ now \in Times
  BY Counters DEF IInv, TypeOK, JobsOK, DrawnOK, JobIds
<1>2. /\ RunningEntry(u, j) \in EntryRow
      /\ Consistent(RunningEntry(u, j))
      /\ RunningEntry(u, j).jobId = j /\ RunningEntry(u, j).userId = u
      /\ RunningEntry(u, j).entryMethod = "self_clock"
      /\ RunningEntry(u, j).status = "active"
      /\ RunningEntry(u, j).clockIn = now
      /\ RunningEntry(u, j).locked = FALSE
  BY <1>1 DEF RunningEntry, EntryRow, Consistent
<1>3. QED
  BY <1>2, AddEntryStep DEF ClockIn

LEMMA CreateManualStep ==
    ASSUME IInv, NEW u \in DOMAIN rates, NEW j \in DOMAIN jobs,
           NEW in \in Times, NEW out \in Times, NEW r \in Rates \cup {None},
           NEW b \in BOOLEAN, CreateManual(u, j, in, out, r, b)
    PROVE  IInv'
<1> DEFINE row == [jobId |-> j, userId |-> u, status |-> "completed",
                   entryMethod |-> "manual", clockIn |-> in, clockOut |-> out,
                   durationMinutes |-> MinutesBetween(in, out),
                   rate |-> IF r = None THEN rates[u] ELSE r,
                   billable |-> b, locked |-> FALSE, edited |-> FALSE]
<1>1. /\ u \in Users /\ j \in JobIds /\ rates[u] \in Rates
      /\ in \in Nat /\ out \in Nat /\ in < out /\ out # None
  BY Counters DEF IInv, TypeOK, JobsOK, DrawnOK, JobIds, CreateManual, Times
<1>2. MinutesBetween(in, out) \in Nat
  BY <1>1 DEF MinutesBetween
<1>3. (IF r = None THEN rates[u] ELSE r) \in Rates
  BY <1>1
<1>4. row \in EntryRow
  BY <1>1, <1>2, <1>3 DEF EntryRow
<1>5. Consistent(row)
  BY <1>1 DEF Consistent
<1>6. QED
  BY <1>4, <1>5, AddEntryStep DEF CreateManual

LEMMA RemovalSteps ==
    ASSUME IInv
    PROVE  /\ \A j \in DOMAIN jobs : DeleteJob(j) => IInv'
           /\ \A i \in DOMAIN entries : DeleteEntry(i) => IInv'
<1>1. ASSUME NEW j \in DOMAIN jobs, DeleteJob(j) PROVE IInv'
  <2>1. /\ DOMAIN jobs' = DOMAIN jobs \ {j}
        /\ \A x \in DOMAIN jobs' : jobs'[x] = jobs[x]
        /\ DOMAIN snapshots' = DOMAIN snapshots \ {j}
        /\ \A x \in DOMAIN snapshots' : snapshots'[x] = snapshots[x]
        /\ DOMAIN quote' = DOMAIN quote \ {j}
        /\ \A x \in DOMAIN quote' : quote'[x] = quote[x]
    BY <1>1 DEF DeleteJob, Drop, Restrict
  <2>2. /\ DOMAIN quote = DOMAIN jobs
        /\ DOMAIN snapshots \subseteq DOMAIN jobs
    BY DEF IInv, TypeOK, JobsOK
  <2>3. /\ \A i \in DOMAIN entries \ EntriesOf(j) :
              entries[i].jobId \in DOMAIN jobs'
        /\ \A i \in EntriesOf(j) \cap DOMAIN entries :
              entries[i].jobId \notin DOMAIN jobs'
    BY <2>1 DEF EntriesOf, IInv, Closed, EntriesHaveJobs
  <2>4. /\ entries' = Drop(entries, EntriesOf(j))
        /\ UNCHANGED <<rates, now, drawn>>
    BY <1>1 DEF DeleteJob
  <2>5. DOMAIN snapshots' = DOMAIN snapshots \cap DOMAIN jobs'
    BY <2>1, <2>2
  <2>6. QED
    BY <2>1, <2>2, <2>3, <2>4, <2>5, RemoveEntriesStep
<1>2. ASSUME NEW i \in DOMAIN entries, DeleteEntry(i) PROVE IInv'
  <2>1. /\ entries' = Drop(entries, {i}) /\ ~entries[i].locked
        /\ UNCHANGED <<jobs, snapshots, quote, rates, now, drawn>>
    BY <1>2 DEF DeleteEntry, MayEdit
  <2>2. /\ DOMAIN quote = DOMAIN jobs
        /\ DOMAIN snapshots = DOMAIN snapshots \cap DOMAIN jobs
        /\ \A x \in DOMAIN entries : entries[x].jobId \in DOMAIN jobs
    BY DEF IInv, TypeOK, JobsOK, Closed, EntriesHaveJobs
  <2>3. QED
    BY <2>1, <2>2, RemoveEntriesStep
<1>3. QED
  BY <1>1, <1>2

LEMMA InvariantInit == Init => IInv
<1> SUFFICES ASSUME Init PROVE IInv
  OBVIOUS
<1>1. TypeOK
  BY TimeConstants
  DEF Init, TypeOK, DrawnOK, JobsOK, EntriesOK, EntryConsistent, Times
<1>2. Clock /\ Closed
  BY DEF Init, Clock, ClockOrder, ClockedInOnce, Closed, EntriesHaveJobs,
         FinalizedIsClosed, SnapshotStands
<1>3. QED
  BY <1>1, <1>2 DEF IInv

LEMMA InvariantStep == IInv /\ [Next]_vars => IInv'
<1> SUFFICES ASSUME IInv, [Next]_vars PROVE IInv'
  OBVIOUS
<1>1. CASE JobRequest
  BY <1>1, CreateJobStep, AsideRequests, RemovalSteps, FinalizeStep
  DEF JobRequest
<1>2. CASE MemberRequest
  <2>1. ASSUME NEW u \in DOMAIN rates, ClockOut(u) PROVE IInv'
    BY <2>1, CompleteStep DEF ClockOut, ActiveOf
  <2>2. QED
    BY <1>2, <2>1, ClockInStep, CreateManualStep, AsideRequests
    DEF MemberRequest
<1>3. CASE EntryRequest
  <2>1. ASSUME NEW i \in DOMAIN entries, ForceClockOut(i) PROVE IInv'
    BY <2>1, CompleteStep DEF ForceClockOut
  <2>2. QED
    BY <1>3, <2>1, UpdateStep, RemovalSteps DEF EntryRequest
<1>4. QED
  BY <1>1, <1>2, <1>3, AsideRequests DEF Next

LEMMA InvariantHolds == Spec => []IInv
BY InvariantInit, InvariantStep, PTL DEF Spec

-----------------------------------------------------------------------------
(* What follows                                                              *)

\* Every row has the shape the code reads, and every entry's duration is the
\* one between its ends, for any number of members, jobs and entries.
THEOREM TypeCorrect == Spec => []TypeOK
<1>1. IInv => TypeOK
  BY DEF IInv
<1>2. QED
  BY <1>1, InvariantHolds, PTL

\* Nobody runs two entries, and no instant a member clocked counts twice.
THEOREM NobodyIsClockedInTwice == Spec => []ClockedInOnce
<1>1. IInv => ClockedInOnce
  BY DEF IInv, Clock
<1>2. QED
  BY <1>1, InvariantHolds, PTL

\* No entry survives its job, nothing runs on a finalized job, and all of its
\* time is locked.
THEOREM EntriesAlwaysFollowTheirJobs == Spec => []EntriesFollowTheirJobs
<1>1. IInv => EntriesFollowTheirJobs
  BY DEF IInv, Closed, EntriesFollowTheirJobs
<1>2. QED
  BY <1>1, InvariantHolds, PTL

\* What a finalized job was billed is what its entries still come to, whatever
\* is edited, logged, quoted or removed after it.
THEOREM SnapshotsStand == Spec => []SnapshotStands
<1>1. IInv => SnapshotStands
  BY DEF IInv, Closed
<1>2. QED
  BY <1>1, InvariantHolds, PTL

\* No step changes a final number or the pricing model it was computed under.
THEOREM FinalNumbersAreFinal == Spec => FinalIsFinal
<1>1. IInv /\ [Next]_vars => [FinalNumbersKept]_vars
  <2> SUFFICES ASSUME IInv, Next, NEW j \in DOMAIN snapshots, j \in DOMAIN jobs'
               PROVE  /\ jobs'[j] = jobs[j]
                      /\ Finalized(j)'
                      /\ snapshots'[j] = snapshots[j]
    BY DEF FinalNumbersKept
  <2>1. j # drawn.jobs + 1
    BY Counters DEF IInv, TypeOK, JobsOK
  <2>2. CASE JobRequest
    BY <2>1, <2>2
    DEF JobRequest, CreateJob, SetPricingModel, QuoteChanges, DeleteJob,
        Finalize, Finalized, Put, Drop, Restrict
  <2>3. ASSUME UNCHANGED <<jobs, snapshots>>
        PROVE  /\ jobs'[j] = jobs[j]
               /\ Finalized(j)'
               /\ snapshots'[j] = snapshots[j]
    BY <2>3 DEF Finalized
  <2>4. CASE MemberRequest
    <3>1. UNCHANGED <<jobs, snapshots>>
      BY <2>4
      DEF MemberRequest, ClockIn, AddEntry, ClockOut, Complete, CreateManual,
          SetDefaultRate, RemoveMember
    <3>2. QED
      BY <2>3, <3>1
  <2>5. CASE EntryRequest
    <3>1. ASSUME NEW i \in DOMAIN entries,
                 \/ ForceClockOut(i) \/ DeleteEntry(i)
                 \/ \E r \in Rates, b \in BOOLEAN :
                       \/ UpdateTerms(i, r, b)
                       \/ \E in, out \in Times :
                             \/ UpdateTimes(i, r, b, in, out)
                             \/ UpdateTimesRefused(i, r, b, in, out)
          PROVE  UNCHANGED <<jobs, snapshots>>
      <4>1. CASE ForceClockOut(i) \/ DeleteEntry(i)
        BY <4>1 DEF ForceClockOut, Complete, DeleteEntry
      <4>2. ASSUME NEW r \in Rates, NEW b \in BOOLEAN, UpdateTerms(i, r, b)
            PROVE  UNCHANGED <<jobs, snapshots>>
        BY <4>2 DEF UpdateTerms
      <4>3. ASSUME NEW r \in Rates, NEW b \in BOOLEAN, NEW in \in Times,
                   NEW out \in Times,
                   \/ UpdateTimes(i, r, b, in, out)
                   \/ UpdateTimesRefused(i, r, b, in, out)
            PROVE  UNCHANGED <<jobs, snapshots>>
        BY <4>3 DEF UpdateTimes, UpdateTimesRefused
      <4>4. QED
        BY <3>1, <4>1, <4>2, <4>3
    <3>2. QED
      BY <2>3, <2>5, <3>1 DEF EntryRequest
  <2>6. CASE Tick
    BY <2>3, <2>6 DEF Tick
  <2>7. QED
    BY <2>2, <2>4, <2>5, <2>6 DEF Next
<1>2. QED
  BY <1>1, InvariantHolds, PTL DEF Spec, FinalIsFinal

=============================================================================

----------------------------- MODULE RecordsProofs -----------------------------
(***************************************************************************)
(* Records, proved for any number of tenants, slugs, roles and rows: the   *)
(* cascades leave nothing behind, and reach into no other tenant.          *)
(***************************************************************************)
EXTENDS Records, TLAPS

-----------------------------------------------------------------------------
(* Maps of rows                                                              *)

LEMMA WiderRows ==
    ASSUME NEW rows, NEW S, NEW T, rows \in [DOMAIN rows -> S], S \subseteq T
    PROVE  rows \in [DOMAIN rows -> T]
OBVIOUS

-----------------------------------------------------------------------------
(* The inductive invariant                                                   *)

\* TypeOK for d ids drawn.
Typed(d) ==
    /\ tenants \in [DOMAIN tenants -> Slugs] /\ DOMAIN tenants \subseteq 1..d
    /\ DOMAIN slugIndex \subseteq Slugs
    /\ logins \subseteq [tenant : 1..d, slug : Slugs]
    /\ overrides \subseteq (1..d) \X Roles
    /\ members \in [DOMAIN members -> [tenant : 1..d, meantFor : 1..d]]
    /\ DOMAIN members \subseteq 1..d
    /\ customers \in [DOMAIN customers -> [tenant : 1..d]]
    /\ DOMAIN customers \subseteq 1..d
    /\ opportunities \in [DOMAIN opportunities ->
          [tenant : 1..d, customer : (1..d) \cup {None}, stage : Stages]]
    /\ DOMAIN opportunities \subseteq 1..d
    /\ jobs \in [DOMAIN jobs -> [tenant : 1..d, customer : 1..d]]
    /\ DOMAIN jobs \subseteq 1..d
    /\ papers \in [DOMAIN papers -> [tenant : 1..d, job : 1..d]]
    /\ DOMAIN papers \subseteq 1..d
    /\ shelf \in [DOMAIN shelf -> [tenant : 1..d, kind : Kinds, active : BOOLEAN]]
    /\ DOMAIN shelf \subseteq 1..d

IInv == TypeOK /\ SlugsLeadHome /\ NothingDangles

LEMMA TypedIsTypeOK == TypeOK <=> drawn \in 0..MaxIds /\ Typed(drawn)
BY DEF TypeOK, Typed

LEMMA Numbers ==
    ASSUME TypeOK
    PROVE  /\ MaxIds \in Nat /\ drawn \in Nat /\ None \notin Nat
           /\ drawn + 1 \notin 1..drawn /\ drawn + 2 \notin 1..drawn
BY RecordsConstants DEF TypeOK

LEMMA Widened ==
    ASSUME TypeOK, NEW d \in Nat, d >= drawn
    PROVE  Typed(d)
<1>1. Typed(drawn) /\ drawn \in Nat
  BY TypedIsTypeOK, Numbers
<1>2. 1..drawn \subseteq 1..d
  BY <1>1
<1>3. /\ members \in [DOMAIN members -> [tenant : 1..d, meantFor : 1..d]]
      /\ customers \in [DOMAIN customers -> [tenant : 1..d]]
      /\ jobs \in [DOMAIN jobs -> [tenant : 1..d, customer : 1..d]]
      /\ papers \in [DOMAIN papers -> [tenant : 1..d, job : 1..d]]
  BY <1>1, <1>2, WiderRows DEF Typed
<1>4. /\ opportunities \in [DOMAIN opportunities ->
            [tenant : 1..d, customer : (1..d) \cup {None}, stage : Stages]]
      /\ shelf \in [DOMAIN shelf -> [tenant : 1..d, kind : Kinds, active : BOOLEAN]]
  BY <1>1, <1>2, WiderRows DEF Typed
<1>5. logins \subseteq [tenant : 1..d, slug : Slugs]
  BY <1>1, <1>2 DEF Typed
<1>6. QED
  BY <1>1, <1>2, <1>3, <1>4, <1>5 DEF Typed

LEMMA InvariantInit == Init => IInv
<1> SUFFICES ASSUME Init PROVE IInv
  OBVIOUS
<1>1. /\ DOMAIN tenants = {} /\ DOMAIN slugIndex = {} /\ DOMAIN members = {}
      /\ DOMAIN customers = {} /\ DOMAIN opportunities = {} /\ DOMAIN jobs = {}
      /\ DOMAIN papers = {} /\ DOMAIN shelf = {}
      /\ logins = {} /\ overrides = {} /\ drawn = 0 /\ 0 \in 0..MaxIds
  BY RecordsConstants DEF Init
<1>2. Typed(0)
  <2>1. \A S : << >> \in [{} -> S]
    OBVIOUS
  <2>2. QED
    BY <1>1, <2>1 DEF Init, Typed
<1>3. SlugsLeadHome /\ NothingDangles
  BY <1>1 DEF SlugsLeadHome, NothingDangles, TenantsStand, MembersStand,
              CustomersStand, PapersStand, Homed
<1>4. QED
  BY <1>1, <1>2, <1>3, TypedIsTypeOK DEF IInv

-----------------------------------------------------------------------------
(* Types                                                                     *)

LEMMA OfficeKeepsTypes ==
    ASSUME TypeOK, NEW t \in DOMAIN tenants, OfficeRequest(t)
    PROVE  TypeOK'
<1>1. Typed(drawn) /\ drawn \in 0..MaxIds
  BY TypedIsTypeOK
<1>2. ASSUME NEW s \in Slugs, RenameTenant(t, s) PROVE TypeOK'
  <2>1. /\ tenants' \in [DOMAIN tenants' -> Slugs] /\ DOMAIN tenants' = DOMAIN tenants
        /\ DOMAIN slugIndex' \subseteq Slugs
    <3>1. tenants' = Put(tenants, t, s) /\ tenants \in [DOMAIN tenants -> Slugs]
      BY <1>1, <1>2 DEF RenameTenant, Typed
    <3>2. slugIndex' = Put(Drop(slugIndex, {tenants[t]}), s, t)
      BY <1>2 DEF RenameTenant
    <3>3. DOMAIN slugIndex' \subseteq DOMAIN slugIndex \cup {s}
      BY <3>2 DEF Put, Drop, Restrict
    <3>4. QED
      BY <1>1, <3>1, <3>3 DEF Typed, Put
  <2>2. QED
    BY <1>1, <1>2, <2>1 DEF RenameTenant, TypeOK, Typed, work
<1>3. CASE DeleteTenant(t)
  <2>1. /\ tenants' \in [DOMAIN tenants' -> Slugs] /\ DOMAIN tenants' \subseteq DOMAIN tenants
        /\ DOMAIN slugIndex' \subseteq DOMAIN slugIndex
    <3>1. tenants \in [DOMAIN tenants -> Slugs]
      BY <1>1 DEF Typed
    <3>2. tenants' = Drop(tenants, {t}) /\ slugIndex' = Drop(slugIndex, {tenants[t]})
      BY <1>3 DEF DeleteTenant
    <3>3. DOMAIN slugIndex' \subseteq DOMAIN slugIndex
      BY <3>2 DEF Drop, Restrict
    <3>4. QED
      BY <3>1, <3>2, <3>3 DEF Drop, Restrict
  <2>2. /\ members' \in [DOMAIN members' -> [tenant : 1..drawn, meantFor : 1..drawn]]
        /\ DOMAIN members' \subseteq DOMAIN members
        /\ customers' \in [DOMAIN customers' -> [tenant : 1..drawn]]
        /\ DOMAIN customers' \subseteq DOMAIN customers
    BY <1>1, <1>3 DEF DeleteTenant, Typed, Drop, Restrict
  <2>3. /\ opportunities' \in [DOMAIN opportunities' ->
              [tenant : 1..drawn, customer : (1..drawn) \cup {None}, stage : Stages]]
        /\ DOMAIN opportunities' \subseteq DOMAIN opportunities
        /\ jobs' \in [DOMAIN jobs' -> [tenant : 1..drawn, customer : 1..drawn]]
        /\ DOMAIN jobs' \subseteq DOMAIN jobs
    BY <1>1, <1>3 DEF DeleteTenant, Typed, Drop, Restrict
  <2>4. /\ papers' \in [DOMAIN papers' -> [tenant : 1..drawn, job : 1..drawn]]
        /\ DOMAIN papers' \subseteq DOMAIN papers
        /\ shelf' \in [DOMAIN shelf' -> [tenant : 1..drawn, kind : Kinds, active : BOOLEAN]]
        /\ DOMAIN shelf' \subseteq DOMAIN shelf
    BY <1>1, <1>3 DEF DeleteTenant, Typed, Drop, Restrict
  <2>5. drawn' = drawn /\ logins' = logins /\ overrides' \subseteq overrides
    BY <1>3 DEF DeleteTenant
  <2>6. Typed(drawn)'
    BY <1>1, <2>1, <2>2, <2>3, <2>4, <2>5 DEF Typed
  <2>7. QED
    BY <1>1, <2>5, <2>6, TypedIsTypeOK DEF TypeOK, Typed
<1>4. ASSUME NEW role \in Roles, SetOverride(t, role) \/ ClearOverride(t, role)
      PROVE  TypeOK'
  <2>1. overrides' \subseteq (1..drawn) \X Roles
    BY <1>1, <1>4 DEF SetOverride, ClearOverride, Typed
  <2>2. QED
    BY <1>1, <1>4, <2>1 DEF SetOverride, ClearOverride, TypeOK, Typed, work
<1>5. CASE StartLogin(t)
  <2>1. tenants[t] \in Slugs /\ t \in 1..drawn
    BY <1>1 DEF Typed
  <2>2. logins' \subseteq [tenant : 1..drawn, slug : Slugs]
    BY <1>1, <1>5, <2>1 DEF StartLogin, Typed
  <2>3. QED
    BY <1>1, <1>5, <2>2 DEF StartLogin, TypeOK, Typed, work, office
<1>6. CASE Invite(t)
  <2>1. /\ drawn' = drawn + 1 /\ drawn' \in 0..MaxIds /\ drawn' \in Nat
        /\ members' = Put(members, drawn', [tenant |-> t, meantFor |-> t])
        /\ UNCHANGED <<office, work, logins, shelf>>
    BY <1>1, <1>6, Numbers DEF Invite, AddMember, Draw
  <2>2. Typed(drawn')
    BY <2>1, Widened, Numbers
  <2>3. /\ members' \in [DOMAIN members' -> [tenant : 1..drawn', meantFor : 1..drawn']]
        /\ DOMAIN members' \subseteq 1..drawn'
    BY <2>1, <2>2, <1>1 DEF Typed, Put
  <2>4. QED
    BY <2>1, <2>2, <2>3 DEF TypeOK, Typed, work, office
<1>7. ASSUME NEW n \in OfTenant(members, t), RemoveMember(n) PROVE TypeOK'
  <2>1. /\ members' \in [DOMAIN members' -> [tenant : 1..drawn, meantFor : 1..drawn]]
        /\ DOMAIN members' \subseteq DOMAIN members
    BY <1>1, <1>7 DEF RemoveMember, Typed, Drop, Restrict
  <2>2. QED
    BY <1>1, <1>7, <2>1 DEF RemoveMember, TypeOK, Typed, work, office
<1>8. QED
  BY <1>2, <1>3, <1>4, <1>5, <1>6, <1>7 DEF OfficeRequest

LEMMA CustomersKeepTypes ==
    ASSUME TypeOK, NEW t \in DOMAIN tenants,
           \/ CreateCustomer(t)
           \/ \E c \in OfTenant(customers, t) : DeleteCustomer(t, c)
    PROVE  TypeOK'
<1>1. Typed(drawn) /\ drawn \in 0..MaxIds
  BY TypedIsTypeOK
<1>2. CASE CreateCustomer(t)
  <2>1. /\ drawn' = drawn + 1 /\ drawn' \in 0..MaxIds /\ drawn' \in Nat /\ drawn' \in 1..drawn'
        /\ customers' = Put(customers, drawn', [tenant |-> t])
    BY <1>1, <1>2, Numbers DEF CreateCustomer, Draw
  <2>2. Typed(drawn')
    BY <2>1, Widened, Numbers
  <2>3. /\ customers' \in [DOMAIN customers' -> [tenant : 1..drawn']]
        /\ DOMAIN customers' \subseteq 1..drawn'
    BY <2>1, <2>2, <1>1, <1>2 DEF CreateCustomer, Typed, Put
  <2>4. QED
    BY <1>2, <2>1, <2>2, <2>3 DEF CreateCustomer, TypeOK, Typed, work, office
<1>3. ASSUME NEW c, DeleteCustomer(t, c) PROVE TypeOK'
  <2>1. /\ customers' \in [DOMAIN customers' -> [tenant : 1..drawn]]
        /\ DOMAIN customers' \subseteq DOMAIN customers
    BY <1>1, <1>3 DEF DeleteCustomer, Typed, Drop, Restrict
  <2>2. /\ opportunities' \in [DOMAIN opportunities' ->
              [tenant : 1..drawn, customer : (1..drawn) \cup {None}, stage : Stages]]
        /\ DOMAIN opportunities' \subseteq DOMAIN opportunities
    BY <1>1, <1>3 DEF DeleteCustomer, Typed, Drop, Restrict
  <2>3. /\ jobs' \in [DOMAIN jobs' -> [tenant : 1..drawn, customer : 1..drawn]]
        /\ DOMAIN jobs' \subseteq DOMAIN jobs
    BY <1>1, <1>3 DEF DeleteCustomer, Typed, Drop, Restrict
  <2>4. /\ papers' \in [DOMAIN papers' -> [tenant : 1..drawn, job : 1..drawn]]
        /\ DOMAIN papers' \subseteq DOMAIN papers
    BY <1>1, <1>3 DEF DeleteCustomer, Typed, Drop, Restrict
  <2>5. QED
    BY <1>1, <1>3, <2>1, <2>2, <2>3, <2>4 DEF DeleteCustomer, TypeOK, Typed, work, office
<1>4. QED
  BY <1>2, <1>3

LEMMA WonIsTyped ==
    ASSUME NEW o, Win(o), NEW T, NEW C,
           opportunities \in [DOMAIN opportunities -> [tenant : T, customer : C, stage : Stages]]
    PROVE  /\ opportunities' \in
                 [DOMAIN opportunities' -> [tenant : T, customer : C, stage : Stages]]
           /\ DOMAIN opportunities' = DOMAIN opportunities
<1>1. /\ DOMAIN opportunities' = DOMAIN opportunities
      /\ opportunities' = [x \in DOMAIN opportunities |->
                             IF x = o THEN [opportunities[x] EXCEPT !.stage = "won"]
                             ELSE opportunities[x]]
  BY DEF Win
<1>2. "won" \in Stages
  BY DEF Stages
<1>3. ASSUME NEW x \in DOMAIN opportunities
      PROVE  [opportunities[x] EXCEPT !.stage = "won"] \in
                [tenant : T, customer : C, stage : Stages]
  BY <1>2
<1>4. QED
  BY <1>1, <1>3

LEMMA OpportunitiesKeepTypes ==
    ASSUME TypeOK, NEW t \in DOMAIN tenants,
           \/ \E c \in DOMAIN customers, stage \in Stages : CreateOpportunity(t, c, stage)
           \/ \E o \in OfTenant(opportunities, t) :
                 \/ \E c \in DOMAIN customers \cup {None}, stage \in Stages :
                       UpdateOpportunity(t, o, c, stage)
                 \/ DeleteOpportunity(o)
                 \/ ConvertRefused(o)
    PROVE  TypeOK'
<1>1. Typed(drawn) /\ drawn \in 0..MaxIds
  BY TypedIsTypeOK
<1>2. ASSUME NEW c \in DOMAIN customers, NEW stage \in Stages, CreateOpportunity(t, c, stage)
      PROVE  TypeOK'
  <2>1. /\ drawn' = drawn + 1 /\ drawn' \in 0..MaxIds /\ drawn' \in Nat /\ drawn' \in 1..drawn'
        /\ opportunities' = Put(opportunities, drawn', [tenant |-> t, customer |-> c, stage |-> stage])
    BY <1>1, <1>2, Numbers DEF CreateOpportunity, Draw
  <2>2. Typed(drawn')
    BY <2>1, Widened, Numbers
  <2>3. /\ opportunities' \in [DOMAIN opportunities' -> 
              [tenant : 1..drawn', customer : (1..drawn') \cup {None}, stage : Stages]]
        /\ DOMAIN opportunities' \subseteq 1..drawn'
    BY <2>1, <2>2, <1>1, <1>2 DEF CreateOpportunity, Typed, Put
  <2>4. QED
    BY <1>2, <2>1, <2>2, <2>3 DEF CreateOpportunity, TypeOK, Typed, work, office
<1>3. ASSUME NEW o \in OfTenant(opportunities, t), NEW c \in DOMAIN customers \cup {None},
             NEW stage \in Stages, UpdateOpportunity(t, o, c, stage)
      PROVE  TypeOK'
  <2>1. [tenant |-> t, customer |-> c, stage |-> stage] \in
           [tenant : 1..drawn, customer : (1..drawn) \cup {None}, stage : Stages]
    BY <1>1 DEF Typed
  <2>2. /\ opportunities' \in [DOMAIN opportunities' ->
              [tenant : 1..drawn, customer : (1..drawn) \cup {None}, stage : Stages]]
        /\ DOMAIN opportunities' = DOMAIN opportunities
    BY <1>1, <1>3, <2>1 DEF UpdateOpportunity, OfTenant, Typed, Put
  <2>3. QED
    BY <1>1, <1>3, <2>2 DEF UpdateOpportunity, TypeOK, Typed, office
<1>4. ASSUME NEW o, DeleteOpportunity(o) PROVE TypeOK'
  <2>1. /\ opportunities' \in [DOMAIN opportunities' ->
              [tenant : 1..drawn, customer : (1..drawn) \cup {None}, stage : Stages]]
        /\ DOMAIN opportunities' \subseteq DOMAIN opportunities
    BY <1>1, <1>4 DEF DeleteOpportunity, Typed, Drop, Restrict
  <2>2. QED
    BY <1>1, <1>4, <2>1 DEF DeleteOpportunity, TypeOK, Typed, work, office
<1>5. ASSUME NEW o, ConvertRefused(o) PROVE TypeOK'
  <2>1. /\ opportunities' \in [DOMAIN opportunities' ->
              [tenant : 1..drawn, customer : (1..drawn) \cup {None}, stage : Stages]]
        /\ DOMAIN opportunities' = DOMAIN opportunities
    BY <1>1, <1>5, WonIsTyped DEF ConvertRefused, Typed
  <2>2. QED
    BY <1>1, <1>5, <2>1 DEF ConvertRefused, TypeOK, Typed, office
<1>6. QED
  BY <1>2, <1>3, <1>4, <1>5

LEMMA JobsKeepTypes ==
    ASSUME TypeOK, NEW t \in DOMAIN tenants,
           \/ \E c \in DOMAIN customers : CreateJob(t, c)
           \/ \E o \in OfTenant(opportunities, t) : ConvertToJob(t, o)
           \/ \E j \in OfTenant(jobs, t) : DeleteJob(t, j) \/ AddPaper(t, j)
           \/ \E n \in OfTenant(papers, t) : DeletePaper(n)
    PROVE  TypeOK'
<1>1. Typed(drawn) /\ drawn \in 0..MaxIds
  BY TypedIsTypeOK
<1>2. ASSUME NEW c \in DOMAIN customers, CreateJob(t, c) PROVE TypeOK'
  <2>1. /\ drawn' = drawn + 1 /\ drawn' \in 0..MaxIds /\ drawn' \in Nat /\ drawn' \in 1..drawn'
        /\ jobs' = Put(jobs, drawn', [tenant |-> t, customer |-> c])
    BY <1>1, <1>2, Numbers DEF CreateJob, NewJob, Draw
  <2>2. Typed(drawn')
    BY <2>1, Widened, Numbers
  <2>3. /\ jobs' \in [DOMAIN jobs' -> [tenant : 1..drawn', customer : 1..drawn']]
        /\ DOMAIN jobs' \subseteq 1..drawn'
    BY <2>1, <2>2, <1>1, <1>2 DEF CreateJob, Typed, Put
  <2>4. QED
    BY <1>2, <2>1, <2>2, <2>3 DEF CreateJob, NewJob, TypeOK, Typed, work, office
<1>3. ASSUME NEW o \in OfTenant(opportunities, t), ConvertToJob(t, o) PROVE TypeOK'
  <2>1. /\ drawn' = drawn + 1 /\ drawn' \in 0..MaxIds /\ drawn' \in Nat /\ drawn' \in 1..drawn'
        /\ jobs' = Put(jobs, drawn', [tenant |-> t, customer |-> opportunities[o].customer])
    BY <1>1, <1>3, Numbers DEF ConvertToJob, NewJob, Draw
  <2>2. Typed(drawn')
    BY <2>1, Widened, Numbers
  <2>3. /\ jobs' \in [DOMAIN jobs' -> [tenant : 1..drawn', customer : 1..drawn']]
        /\ DOMAIN jobs' \subseteq 1..drawn'
    BY <2>1, <2>2, <1>1, <1>3 DEF ConvertToJob, Typed, Put, OfTenant, NewJob
  <2>4. /\ opportunities' \in [DOMAIN opportunities' ->
              [tenant : 1..drawn', customer : (1..drawn') \cup {None}, stage : Stages]]
        /\ DOMAIN opportunities' = DOMAIN opportunities
    BY <1>3, <2>2, WonIsTyped DEF ConvertToJob, Typed
  <2>5. QED
    BY <1>3, <2>1, <2>2, <2>3, <2>4 DEF ConvertToJob, TypeOK, Typed, office
<1>4. ASSUME NEW j, DeleteJob(t, j) PROVE TypeOK'
  <2>1. /\ jobs' \in [DOMAIN jobs' -> [tenant : 1..drawn, customer : 1..drawn]]
        /\ DOMAIN jobs' \subseteq DOMAIN jobs
    BY <1>1, <1>4 DEF DeleteJob, Typed, Drop, Restrict
  <2>2. /\ papers' \in [DOMAIN papers' -> [tenant : 1..drawn, job : 1..drawn]]
        /\ DOMAIN papers' \subseteq DOMAIN papers
    BY <1>1, <1>4 DEF DeleteJob, Typed, Drop, Restrict
  <2>3. QED
    BY <1>1, <1>4, <2>1, <2>2 DEF DeleteJob, TypeOK, Typed, work, office
<1>5. ASSUME NEW j \in OfTenant(jobs, t), AddPaper(t, j) PROVE TypeOK'
  <2>1. /\ drawn' = drawn + 1 /\ drawn' \in 0..MaxIds /\ drawn' \in Nat /\ drawn' \in 1..drawn'
        /\ papers' = Put(papers, drawn', [tenant |-> t, job |-> j])
    BY <1>1, <1>5, Numbers DEF AddPaper, Draw
  <2>2. Typed(drawn')
    BY <2>1, Widened, Numbers
  <2>3. /\ papers' \in [DOMAIN papers' -> [tenant : 1..drawn', job : 1..drawn']]
        /\ DOMAIN papers' \subseteq 1..drawn'
    BY <2>1, <2>2, <1>1, <1>5 DEF AddPaper, Typed, Put, OfTenant
  <2>4. QED
    BY <1>5, <2>1, <2>2, <2>3 DEF AddPaper, TypeOK, Typed, work, office
<1>6. ASSUME NEW n, DeletePaper(n) PROVE TypeOK'
  <2>1. /\ papers' \in [DOMAIN papers' -> [tenant : 1..drawn, job : 1..drawn]]
        /\ DOMAIN papers' \subseteq DOMAIN papers
    BY <1>1, <1>6 DEF DeletePaper, Typed, Drop, Restrict
  <2>2. QED
    BY <1>1, <1>6, <2>1 DEF DeletePaper, TypeOK, Typed, work, office
<1>7. QED
  BY <1>2, <1>3, <1>4, <1>5, <1>6

LEMMA ShelfKeepsTypes ==
    ASSUME TypeOK, NEW t \in DOMAIN tenants, ShelfRequest(t)
    PROVE  TypeOK'
<1>1. Typed(drawn) /\ drawn \in 0..MaxIds
  BY TypedIsTypeOK
<1>2. ASSUME NEW kind \in Kinds, AddToShelf(t, kind) PROVE TypeOK'
  <2>1. /\ drawn' = drawn + 1 /\ drawn' \in 0..MaxIds /\ drawn' \in Nat /\ drawn' \in 1..drawn'
        /\ shelf' = Put(shelf, drawn', ShelfRow(t, kind))
    BY <1>1, <1>2, Numbers DEF AddToShelf, Draw
  <2>2. Typed(drawn')
    BY <2>1, Widened, Numbers
  <2>3. /\ shelf' \in [DOMAIN shelf' -> [tenant : 1..drawn', kind : Kinds, active : BOOLEAN]]
        /\ DOMAIN shelf' \subseteq 1..drawn'
    BY <2>1, <2>2, <1>1, <1>2 DEF AddToShelf, Typed, Put, ShelfRow
  <2>4. QED
    BY <1>2, <2>1, <2>2, <2>3 DEF AddToShelf, TypeOK, Typed, work, office
<1>3. CASE SeedDefaults(t)
  <2>1. /\ drawn' = drawn + 2 /\ drawn' \in 0..MaxIds /\ drawn' \in Nat
        /\ drawn + 1 \in 1..drawn' /\ drawn + 2 \in 1..drawn'
    BY <1>1, <1>3, Numbers DEF SeedDefaults
  <2>2. Typed(drawn')
    BY <2>1, Widened, Numbers
  <2>3. \A kind \in Kinds : ShelfRow(t, kind) \in
           [tenant : 1..drawn', kind : Kinds, active : BOOLEAN]
    BY <2>2 DEF ShelfRow, Typed
  <2>4. /\ shelf' \in [DOMAIN shelf' -> [tenant : 1..drawn', kind : Kinds, active : BOOLEAN]]
        /\ DOMAIN shelf' \subseteq 1..drawn'
    BY <1>3, <2>1, <2>2, <2>3 DEF SeedDefaults, Kinds, Typed, Put
  <2>5. QED
    BY <1>3, <2>1, <2>2, <2>4 DEF SeedDefaults, TypeOK, Typed, work, office
<1>4. ASSUME NEW n, NEW active \in BOOLEAN, SetActive(n, active) PROVE TypeOK'
  <2>1. /\ shelf' \in [DOMAIN shelf' -> [tenant : 1..drawn, kind : Kinds, active : BOOLEAN]]
        /\ DOMAIN shelf' = DOMAIN shelf
    BY <1>1, <1>4 DEF SetActive, Typed
  <2>2. QED
    BY <1>1, <1>4, <2>1 DEF SetActive, TypeOK, Typed, work, office
<1>5. ASSUME NEW n, DeleteTemplate(n) PROVE TypeOK'
  <2>1. /\ shelf' \in [DOMAIN shelf' ->
              [tenant : 1..drawn, kind : Kinds, active : BOOLEAN]]
        /\ DOMAIN shelf' \subseteq DOMAIN shelf
    BY <1>1, <1>5 DEF DeleteTemplate, Typed, Drop, Restrict
  <2>2. QED
    BY <1>1, <1>5, <2>1 DEF DeleteTemplate, TypeOK, Typed, work, office
<1>6. QED
  BY <1>2, <1>3, <1>4, <1>5 DEF ShelfRequest

LEMMA TypesStep == TypeOK /\ [Next]_vars => TypeOK'
<1> SUFFICES ASSUME TypeOK, [Next]_vars PROVE TypeOK'
  OBVIOUS
<1>1. Typed(drawn) /\ drawn \in 0..MaxIds
  BY TypedIsTypeOK
<1>2. ASSUME NEW s \in Slugs, CreateTenant(s) PROVE TypeOK'
  <2>1. /\ drawn' = drawn + 1 /\ drawn' \in 0..MaxIds /\ drawn' \in Nat /\ drawn' \in 1..drawn'
        /\ tenants' = Put(tenants, drawn', s) /\ slugIndex' = Put(slugIndex, s, drawn')
    BY <1>1, <1>2, Numbers DEF CreateTenant, Draw
  <2>2. Typed(drawn')
    BY <2>1, Widened, Numbers
  <2>3. /\ tenants' \in [DOMAIN tenants' -> Slugs] /\ DOMAIN tenants' \subseteq 1..drawn'
        /\ DOMAIN slugIndex' \subseteq Slugs
    BY <2>1, <2>2 DEF Typed, Put
  <2>4. QED
    BY <1>2, <2>1, <2>2, <2>3 DEF CreateTenant, TypeOK, Typed, work
<1>3. ASSUME NEW login \in logins, FinishLogin(login) PROVE TypeOK'
  BY <1>3, OfficeKeepsTypes DEF FinishLogin, Invite, OfficeRequest
<1>4. ASSUME NEW t \in DOMAIN tenants, WorkRequest(t) PROVE TypeOK'
  BY <1>4, CustomersKeepTypes, OpportunitiesKeepTypes, JobsKeepTypes DEF WorkRequest
<1>5. CASE UNCHANGED vars
  BY <1>1, <1>5 DEF TypeOK, Typed, vars, office, work
<1>6. QED
  BY <1>2, <1>3, <1>4, <1>5, OfficeKeepsTypes, ShelfKeepsTypes DEF Next

-----------------------------------------------------------------------------
(* Slugs                                                                     *)

LEMMA Fresh ==
    ASSUME TypeOK
    PROVE  \A n \in {drawn + 1, drawn + 2} :
              /\ n \notin DOMAIN tenants /\ n \notin DOMAIN members
              /\ n \notin DOMAIN customers /\ n \notin DOMAIN opportunities
              /\ n \notin DOMAIN jobs /\ n \notin DOMAIN papers
              /\ n \notin DOMAIN shelf
BY TypedIsTypeOK, Numbers DEF Typed

LEMMA SlugsStep == IInv /\ [Next]_vars => SlugsLeadHome'
<1> SUFFICES ASSUME IInv, [Next]_vars PROVE SlugsLeadHome'
  OBVIOUS
<1>1. TypeOK /\ SlugsLeadHome
  BY DEF IInv
<1>2. ASSUME NEW s \in Slugs, CreateTenant(s) PROVE SlugsLeadHome'
  <2>1. /\ tenants' = Put(tenants, drawn + 1, s)
        /\ slugIndex' = Put(slugIndex, s, drawn + 1)
        /\ s \notin DOMAIN slugIndex /\ drawn + 1 \notin DOMAIN tenants
    BY <1>1, <1>2, Fresh DEF CreateTenant
  <2>2. QED
    BY <1>1, <2>1 DEF SlugsLeadHome, Put
<1>3. ASSUME NEW t \in DOMAIN tenants, NEW s \in Slugs, RenameTenant(t, s)
      PROVE  SlugsLeadHome'
  BY <1>1, <1>3 DEF RenameTenant, SlugsLeadHome, Put, Drop, Restrict
<1>4. ASSUME NEW t \in DOMAIN tenants, DeleteTenant(t) PROVE SlugsLeadHome'
  BY <1>1, <1>4 DEF DeleteTenant, SlugsLeadHome, Drop, Restrict
<1>5. ASSUME UNCHANGED <<tenants, slugIndex>> PROVE SlugsLeadHome'
  BY <1>1, <1>5 DEF SlugsLeadHome
<1>6. ASSUME NEW t \in DOMAIN tenants, WorkRequest(t) PROVE UNCHANGED <<tenants, slugIndex>>
  BY <1>6 DEF WorkRequest, CreateCustomer, DeleteCustomer, CreateOpportunity,
     UpdateOpportunity, DeleteOpportunity, CreateJob, ConvertToJob, ConvertRefused,
     DeleteJob, AddPaper, DeletePaper, office
<1>7. ASSUME NEW t \in DOMAIN tenants, ShelfRequest(t) PROVE UNCHANGED <<tenants, slugIndex>>
  BY <1>7 DEF ShelfRequest, AddToShelf, SeedDefaults, SetActive, DeleteTemplate, office
<1>8. ASSUME NEW t \in DOMAIN tenants, OfficeRequest(t) PROVE SlugsLeadHome'
  BY <1>3, <1>4, <1>5, <1>8 DEF OfficeRequest, SetOverride, ClearOverride,
     StartLogin, Invite, AddMember, RemoveMember, office
<1>9. ASSUME NEW login \in logins, FinishLogin(login) PROVE SlugsLeadHome'
  BY <1>5, <1>9 DEF FinishLogin, AddMember, office
<1>10. QED
  BY <1>2, <1>5, <1>6, <1>7, <1>8, <1>9 DEF Next, vars, office

-----------------------------------------------------------------------------
(* Cascades                                                                  *)

LEMMA OfficeLeavesNothing ==
    ASSUME TypeOK, NothingDangles, NEW t \in DOMAIN tenants, OfficeRequest(t)
    PROVE  NothingDangles'
<1>1. TenantsStand /\ MembersStand /\ CustomersStand /\ PapersStand
  BY DEF NothingDangles
<1>2. ASSUME NEW s \in Slugs, RenameTenant(t, s) PROVE NothingDangles'
  <2>1. DOMAIN tenants' = DOMAIN tenants
    BY <1>2 DEF RenameTenant, Put
  <2>2. QED
    BY <1>1, <1>2, <2>1 DEF RenameTenant, NothingDangles, TenantsStand, MembersStand, CustomersStand,
       PapersStand, Homed, Has, work
<1>3. CASE DeleteTenant(t)
  <2>1. DOMAIN tenants' = DOMAIN tenants \ {t}
    BY <1>3 DEF DeleteTenant, Drop, Restrict
  <2>2. Homed(members)' /\ Homed(customers)' /\ Homed(opportunities)'
    BY <1>1, <1>3, <2>1 DEF DeleteTenant, TenantsStand, Homed, OfTenant, Drop, Restrict
  <2>3. Homed(jobs)' /\ Homed(papers)' /\ Homed(shelf)'
    BY <1>1, <1>3, <2>1 DEF DeleteTenant, TenantsStand, Homed, OfTenant, Drop, Restrict
  <2>4. \A x \in overrides' : x[1] \in DOMAIN tenants'
    <3> SUFFICES ASSUME NEW x \in overrides' PROVE x[1] \in DOMAIN tenants'
      OBVIOUS
    <3>1. x \in overrides /\ x \notin {t} \X Roles
      BY <1>3 DEF DeleteTenant
    <3>2. x[1] \in DOMAIN tenants /\ x \in (1..drawn) \X Roles
      BY <1>1, <3>1, TypedIsTypeOK DEF TenantsStand, Typed
    <3>3. QED
      BY <2>1, <3>1, <3>2
  <2>5. CustomersStand'
    BY <1>1, <1>3 DEF DeleteTenant, CustomersStand, Has, OfTenant, Drop, Restrict
  <2>6. PapersStand'
    BY <1>1, <1>3 DEF DeleteTenant, PapersStand, Has, OfTenant, Drop, Restrict
  <2>7. MembersStand'
    BY <1>1, <1>3 DEF DeleteTenant, MembersStand, Drop, Restrict
  <2>8. QED
    BY <2>2, <2>3, <2>4, <2>5, <2>6, <2>7 DEF NothingDangles, TenantsStand
<1>4. ASSUME NEW role \in Roles, SetOverride(t, role) \/ ClearOverride(t, role)
      PROVE  NothingDangles'
  <2>1. \A x \in overrides' : x[1] \in DOMAIN tenants
    BY <1>1, <1>4 DEF SetOverride, ClearOverride, TenantsStand
  <2>2. QED
    BY <1>1, <1>4, <2>1 DEF SetOverride, ClearOverride, NothingDangles, TenantsStand, MembersStand,
       CustomersStand, PapersStand, Homed, Has, work
<1>5. CASE StartLogin(t)
  BY <1>1, <1>5 DEF StartLogin, NothingDangles, TenantsStand, MembersStand, CustomersStand,
     PapersStand, Homed, Has, work, office
<1>6. ASSUME \/ Invite(t)
             \/ \E n \in OfTenant(members, t) : RemoveMember(n)
      PROVE  NothingDangles'
  <2>1. Homed(members)'
    <3>1. CASE Invite(t)
      BY <1>1, <3>1 DEF Invite, AddMember, TenantsStand, Homed, Put, office
    <3>2. ASSUME NEW n, RemoveMember(n) PROVE Homed(members)'
      BY <1>1, <3>2 DEF RemoveMember, TenantsStand, Homed, Drop, Restrict, office
    <3>3. QED
      BY <1>6, <3>1, <3>2
  <2>2. UNCHANGED <<tenants, overrides, customers, opportunities, jobs, papers, shelf>>
    BY <1>6 DEF Invite, AddMember, RemoveMember, work, office
  <2>3. MembersStand'
    <3>1. CASE Invite(t)
      BY <1>1, <3>1 DEF Invite, AddMember, MembersStand, Put
    <3>2. ASSUME NEW n, RemoveMember(n) PROVE MembersStand'
      BY <1>1, <3>2 DEF RemoveMember, MembersStand, Drop, Restrict
    <3>3. QED
      BY <1>6, <3>1, <3>2
  <2>4. QED
    BY <1>1, <2>1, <2>2, <2>3 DEF NothingDangles, TenantsStand, MembersStand, CustomersStand,
       PapersStand, Homed, Has
<1>7. QED
  BY <1>2, <1>3, <1>4, <1>5, <1>6 DEF OfficeRequest

\* The papers of the tenant's jobs in J are those that PapersOf finds.
LEMMA JobsTakeTheirPapers ==
    ASSUME PapersStand, NEW t, NEW J, J \subseteq OfTenant(jobs, t),
           jobs' = Drop(jobs, J), papers' = Drop(papers, PapersOf(t, J))
    PROVE  PapersStand'
<1> SUFFICES ASSUME NEW n \in DOMAIN papers'
             PROVE  Has(jobs, papers[n].tenant, papers[n].job)' /\ papers'[n] = papers[n]
  BY DEF PapersStand, Has
<1>1. /\ n \in DOMAIN papers /\ n \notin PapersOf(t, J) /\ papers'[n] = papers[n]
  BY DEF Drop, Restrict
<1>2. /\ papers[n].job \in DOMAIN jobs
      /\ jobs[papers[n].job].tenant = papers[n].tenant
  BY <1>1 DEF PapersStand, Has
<1>3. papers[n].job \notin J
  BY <1>1, <1>2 DEF PapersOf, OfTenant
<1>4. QED
  BY <1>1, <1>2, <1>3 DEF Has, Drop, Restrict

LEMMA WorkLeavesNothing ==
    ASSUME TypeOK, NothingDangles, NEW t \in DOMAIN tenants, WorkRequest(t)
    PROVE  NothingDangles'
<1>1. TenantsStand /\ MembersStand /\ CustomersStand /\ PapersStand
  BY DEF NothingDangles
<1>2. CASE CreateCustomer(t)
  <2>1. customers' = Put(customers, drawn + 1, [tenant |-> t]) /\ drawn + 1 \notin DOMAIN customers
    BY <1>2, Fresh DEF CreateCustomer
  <2>2. Homed(customers)' /\ CustomersStand'
    BY <1>1, <1>2, <2>1 DEF CreateCustomer, TenantsStand, CustomersStand, Homed, Has, Put, office
  <2>3. QED
    BY <1>1, <1>2, <2>2 DEF CreateCustomer, NothingDangles, TenantsStand, MembersStand,
       PapersStand, Homed, Has, office
<1>3. ASSUME NEW c \in OfTenant(customers, t), DeleteCustomer(t, c) PROVE NothingDangles'
  <2>1. PapersStand'
    <3>1. OfCustomer(jobs, t, c) \subseteq OfTenant(jobs, t)
      BY DEF OfCustomer
    <3>2. QED
      BY <1>1, <1>3, <3>1, JobsTakeTheirPapers DEF DeleteCustomer
  <2>2. CustomersStand'
    BY <1>1, <1>3 DEF DeleteCustomer, CustomersStand, Has, OfCustomer, OfTenant, Drop, Restrict
  <2>3. Homed(customers)' /\ Homed(opportunities)' /\ Homed(jobs)' /\ Homed(papers)'
    BY <1>1, <1>3 DEF DeleteCustomer, TenantsStand, Homed, Drop, Restrict, office
  <2>4. QED
    BY <1>1, <1>3, <2>1, <2>2, <2>3 DEF DeleteCustomer, NothingDangles, TenantsStand,
       MembersStand, Homed, office
<1>4. ASSUME NEW c \in DOMAIN customers, NEW stage \in Stages, CreateOpportunity(t, c, stage)
      PROVE  NothingDangles'
  BY <1>1, <1>4 DEF CreateOpportunity, NothingDangles, TenantsStand, MembersStand, CustomersStand,
     PapersStand, Homed, Has, Put, office
<1>5. ASSUME NEW c \in DOMAIN customers \cup {None}, NEW stage \in Stages,
             NEW o \in OfTenant(opportunities, t), UpdateOpportunity(t, o, c, stage)
      PROVE  NothingDangles'
  BY <1>1, <1>5 DEF UpdateOpportunity, NothingDangles, TenantsStand, MembersStand, CustomersStand,
     PapersStand, Homed, Has, Put, office
<1>6. ASSUME NEW o, DeleteOpportunity(o) PROVE NothingDangles'
  BY <1>1, <1>6 DEF DeleteOpportunity, NothingDangles, TenantsStand, MembersStand, CustomersStand,
     PapersStand, Homed, Has, Drop, Restrict, office
<1>7. ASSUME NEW o \in OfTenant(opportunities, t), Win(o)
      PROVE  /\ DOMAIN opportunities' = DOMAIN opportunities
             /\ \A n \in DOMAIN opportunities :
                   /\ opportunities'[n].tenant = opportunities[n].tenant
                   /\ opportunities'[n].customer = opportunities[n].customer
  BY <1>7, TypedIsTypeOK DEF Win, Typed
<1>8. ASSUME NEW o \in OfTenant(opportunities, t), ConvertRefused(o) PROVE NothingDangles'
  <2>1. Win(o) /\ UNCHANGED <<office, customers, jobs, papers, members, shelf>>
    BY <1>8 DEF ConvertRefused
  <2>2. QED
    BY <1>1, <1>7, <2>1 DEF NothingDangles, TenantsStand, MembersStand, CustomersStand,
       PapersStand, Homed, Has, office
<1>9. ASSUME NEW c, jobs' = Put(jobs, drawn + 1, [tenant |-> t, customer |-> c]),
             Has(customers, t, c),
             \/ UNCHANGED opportunities
             \/ \E o \in OfTenant(opportunities, t) : Win(o),
             UNCHANGED <<office, customers, papers, members, shelf>>
      PROVE  NothingDangles'
  <2>1. drawn + 1 \notin DOMAIN jobs
    BY Fresh
  <2>2. /\ DOMAIN opportunities' = DOMAIN opportunities
        /\ \A n \in DOMAIN opportunities :
              /\ opportunities'[n].tenant = opportunities[n].tenant
              /\ opportunities'[n].customer = opportunities[n].customer
    BY <1>7, <1>9
  <2>3. TenantsStand'
    BY <1>1, <1>9, <2>2 DEF TenantsStand, Homed, Put, office
  <2>4. CustomersStand'
    BY <1>1, <1>9, <2>2 DEF CustomersStand, Has, Put
  <2>5. PapersStand'
    BY <1>1, <1>9, <2>1 DEF PapersStand, Has, Put
  <2>6. MembersStand'
    BY <1>1, <1>9 DEF MembersStand
  <2>7. QED
    BY <2>3, <2>4, <2>5, <2>6 DEF NothingDangles
<1>10. ASSUME NEW c \in DOMAIN customers, CreateJob(t, c) PROVE NothingDangles'
  BY <1>9, <1>10 DEF CreateJob, NewJob
<1>11. ASSUME NEW o \in OfTenant(opportunities, t), ConvertToJob(t, o) PROVE NothingDangles'
  <2>1. Has(customers, t, opportunities[o].customer)
    BY <1>1, <1>11 DEF ConvertToJob, NewJob, CustomersStand, OfTenant
  <2>2. QED
    BY <1>9, <1>11, <2>1 DEF ConvertToJob, NewJob
<1>12. ASSUME NEW j \in OfTenant(jobs, t), DeleteJob(t, j) PROVE NothingDangles'
  <2>1. PapersStand'
    BY <1>1, <1>12, JobsTakeTheirPapers DEF DeleteJob
  <2>2. TenantsStand' /\ CustomersStand'
    BY <1>1, <1>12 DEF DeleteJob, TenantsStand, CustomersStand, Homed, Has, Drop, Restrict, office
  <2>3. MembersStand'
    BY <1>1, <1>12 DEF DeleteJob, MembersStand
  <2>4. QED
    BY <2>1, <2>2, <2>3 DEF NothingDangles
<1>13. ASSUME NEW j \in OfTenant(jobs, t), AddPaper(t, j) PROVE NothingDangles'
  BY <1>1, <1>13 DEF AddPaper, NothingDangles, TenantsStand, MembersStand, CustomersStand,
     PapersStand, Homed, Has, OfTenant, Put, office
<1>14. ASSUME NEW n, DeletePaper(n) PROVE NothingDangles'
  BY <1>1, <1>14 DEF DeletePaper, NothingDangles, TenantsStand, MembersStand, CustomersStand,
     PapersStand, Homed, Has, Drop, Restrict, office
<1>15. QED
  BY <1>2, <1>3, <1>4, <1>5, <1>6, <1>8, <1>10, <1>11, <1>12, <1>13, <1>14
  DEF WorkRequest

LEMMA ShelfLeavesNothing ==
    ASSUME TypeOK, NothingDangles, NEW t \in DOMAIN tenants, ShelfRequest(t)
    PROVE  NothingDangles'
<1>1. TenantsStand /\ MembersStand /\ CustomersStand /\ PapersStand
  BY DEF NothingDangles
<1>2. UNCHANGED <<office, work, members>>
  BY DEF ShelfRequest, AddToShelf, SeedDefaults, SetActive, DeleteTemplate
<1>3. Homed(shelf)'
  <2>1. ASSUME NEW kind \in Kinds, AddToShelf(t, kind) PROVE Homed(shelf)'
    BY <1>1, <1>2, <2>1 DEF AddToShelf, ShelfRow, TenantsStand, Homed, Put, office
  <2>2. CASE SeedDefaults(t)
    BY <1>1, <1>2, <2>2 DEF SeedDefaults, ShelfRow, TenantsStand, Homed, Put, office
  <2>3. ASSUME NEW n, NEW active \in BOOLEAN, SetActive(n, active) PROVE Homed(shelf)'
    BY <1>1, <1>2, <2>3, TypedIsTypeOK DEF SetActive, Typed, TenantsStand, Homed, office
  <2>4. ASSUME NEW n, DeleteTemplate(n) PROVE Homed(shelf)'
    BY <1>1, <1>2, <2>4 DEF DeleteTemplate, TenantsStand, Homed, Drop, Restrict, office
  <2>5. QED
    BY <2>1, <2>2, <2>3, <2>4 DEF ShelfRequest
<1>4. QED
  BY <1>1, <1>2, <1>3 DEF NothingDangles, TenantsStand, MembersStand, CustomersStand, PapersStand,
     Homed, Has, work, office

LEMMA DanglesStep == IInv /\ [Next]_vars => NothingDangles'
<1> SUFFICES ASSUME IInv, [Next]_vars PROVE NothingDangles'
  OBVIOUS
<1>1. /\ TypeOK /\ NothingDangles
      /\ TenantsStand /\ MembersStand /\ CustomersStand /\ PapersStand
  BY DEF IInv, NothingDangles
<1>2. ASSUME NEW s \in Slugs, CreateTenant(s) PROVE NothingDangles'
  <2>1. DOMAIN tenants \subseteq DOMAIN tenants'
    BY <1>2 DEF CreateTenant, Put
  <2>2. QED
    BY <1>1, <1>2, <2>1 DEF CreateTenant, NothingDangles, TenantsStand, MembersStand, CustomersStand,
       PapersStand, Homed, Has, work
<1>3. ASSUME NEW login \in logins, FinishLogin(login) PROVE NothingDangles'
  BY <1>1, <1>3, OfficeLeavesNothing DEF FinishLogin, Invite, OfficeRequest
<1>4. CASE UNCHANGED vars
  BY <1>1, <1>4 DEF NothingDangles, TenantsStand, MembersStand, CustomersStand, PapersStand, Homed,
     Has, vars, office, work
<1>5. QED
  BY <1>1, <1>2, <1>3, <1>4, OfficeLeavesNothing, WorkLeavesNothing, ShelfLeavesNothing
  DEF Next

LEMMA InvariantStep == IInv /\ [Next]_vars => IInv'
BY TypesStep, SlugsStep, DanglesStep DEF IInv

-----------------------------------------------------------------------------
(* Isolation                                                                 *)

\* The rows of one map that are u's.
Slice(rows, u) == Restrict(rows, OfTenant(rows, u))

LEMMA PutApart ==
    ASSUME NEW rows, NEW n, NEW r, NEW u, r.tenant # u,
           n \in DOMAIN rows => rows[n].tenant # u
    PROVE  Slice(Put(rows, n, r), u) = Slice(rows, u)
<1>1. OfTenant(Put(rows, n, r), u) = OfTenant(rows, u)
  BY DEF OfTenant, Put
<1>2. \A x \in OfTenant(rows, u) : Put(rows, n, r)[x] = rows[x]
  BY DEF OfTenant, Put
<1>3. QED
  BY <1>1, <1>2 DEF Slice, Restrict

LEMMA DropApart ==
    ASSUME NEW rows, NEW X, NEW u, X \cap OfTenant(rows, u) = {}
    PROVE  Slice(Drop(rows, X), u) = Slice(rows, u)
<1>1. OfTenant(Drop(rows, X), u) = OfTenant(rows, u)
  BY DEF OfTenant, Drop, Restrict
<1>2. \A x \in OfTenant(rows, u) : Drop(rows, X)[x] = rows[x]
  BY DEF OfTenant, Drop, Restrict
<1>3. QED
  BY <1>1, <1>2 DEF Slice, Restrict

LEMMA DisjointTenants ==
    ASSUME NEW rows, NEW t, NEW u, t # u
    PROVE  OfTenant(rows, t) \cap OfTenant(rows, u) = {}
BY DEF OfTenant

\* Everything that is u's stays.
Stays(u) ==
    /\ Slice(members, u)' = Slice(members, u)
    /\ Slice(customers, u)' = Slice(customers, u)
    /\ Slice(opportunities, u)' = Slice(opportunities, u)
    /\ Slice(jobs, u)' = Slice(jobs, u)
    /\ Slice(papers, u)' = Slice(papers, u)
    /\ Slice(shelf, u)' = Slice(shelf, u)
    /\ {x \in overrides' : x[1] = u} = {x \in overrides : x[1] = u}

LEMMA StaysOwned == ASSUME NEW u, Stays(u) PROVE Owned(u)' = Owned(u)
BY DEF Stays, Owned, Slice

LEMMA OfficeApart ==
    ASSUME TypeOK, NEW t \in DOMAIN tenants, NEW u, u # t,
           OfficeRequest(t) \/ AddMember(t, t)
    PROVE  Stays(u)
<1>1. CASE DeleteTenant(t)
  <2>1. {x \in overrides' : x[1] = u} = {x \in overrides : x[1] = u}
    BY <1>1 DEF DeleteTenant
  <2>2. /\ Slice(members, u)' = Slice(members, u)
        /\ Slice(customers, u)' = Slice(customers, u)
        /\ Slice(opportunities, u)' = Slice(opportunities, u)
    BY <1>1, DropApart, DisjointTenants DEF DeleteTenant
  <2>3. /\ Slice(jobs, u)' = Slice(jobs, u)
        /\ Slice(papers, u)' = Slice(papers, u)
        /\ Slice(shelf, u)' = Slice(shelf, u)
    BY <1>1, DropApart, DisjointTenants DEF DeleteTenant
  <2>4. QED
    BY <2>1, <2>2, <2>3 DEF Stays
<1>2. ASSUME NEW role \in Roles, SetOverride(t, role) \/ ClearOverride(t, role)
      PROVE  Stays(u)
  <2>1. {x \in overrides' : x[1] = u} = {x \in overrides : x[1] = u}
    BY <1>2 DEF SetOverride, ClearOverride
  <2>2. QED
    BY <1>2, <2>1 DEF SetOverride, ClearOverride, Stays, work
<1>3. CASE AddMember(t, t)
  <2>1. /\ members' = Put(members, drawn + 1, [tenant |-> t, meantFor |-> t])
        /\ drawn + 1 \notin DOMAIN members
    BY <1>3, Fresh DEF AddMember
  <2>2. Slice(members, u)' = Slice(members, u)
    BY <2>1, PutApart
  <2>3. QED
    BY <1>3, <2>2 DEF AddMember, Stays, work, office
<1>4. ASSUME NEW n \in OfTenant(members, t), RemoveMember(n) PROVE Stays(u)
  <2>1. members' = Drop(members, {n}) /\ {n} \cap OfTenant(members, u) = {}
    BY <1>4 DEF RemoveMember, OfTenant
  <2>2. Slice(members, u)' = Slice(members, u)
    BY <2>1, DropApart
  <2>3. QED
    BY <1>4, <2>2 DEF RemoveMember, Stays, work, office
<1>5. ASSUME StartLogin(t) \/ \E s \in Slugs : RenameTenant(t, s) PROVE Stays(u)
  BY <1>5 DEF StartLogin, RenameTenant, Stays, work, office
<1>6. QED
  BY <1>1, <1>2, <1>3, <1>4, <1>5 DEF OfficeRequest, Invite

\* One more opportunity of t's, or one of them changed.
LEMMA OpportunityApart ==
    ASSUME NEW t, NEW u, u # t, NEW o, NEW r, r.tenant = t,
           o \in DOMAIN opportunities => opportunities[o].tenant = t,
           opportunities' = Put(opportunities, o, r)
    PROVE  Slice(opportunities, u)' = Slice(opportunities, u)
BY PutApart

LEMMA WorkApart ==
    ASSUME TypeOK, NEW t \in DOMAIN tenants, NEW u, u # t, WorkRequest(t)
    PROVE  Stays(u)
<1>1. CASE CreateCustomer(t)
  <2>1. customers' = Put(customers, drawn + 1, [tenant |-> t]) /\ drawn + 1 \notin DOMAIN customers
    BY <1>1, Fresh DEF CreateCustomer
  <2>2. Slice(customers, u)' = Slice(customers, u)
    BY <2>1, PutApart
  <2>3. QED
    BY <1>1, <2>2 DEF CreateCustomer, Stays, office
<1>2. ASSUME NEW c \in OfTenant(customers, t), DeleteCustomer(t, c) PROVE Stays(u)
  <2>1. /\ {c} \cap OfTenant(customers, u) = {}
        /\ OfCustomer(opportunities, t, c) \cap OfTenant(opportunities, u) = {}
        /\ OfCustomer(jobs, t, c) \cap OfTenant(jobs, u) = {}
        /\ PapersOf(t, OfCustomer(jobs, t, c)) \cap OfTenant(papers, u) = {}
    BY DEF OfCustomer, OfTenant, PapersOf
  <2>2. /\ Slice(customers, u)' = Slice(customers, u)
        /\ Slice(opportunities, u)' = Slice(opportunities, u)
        /\ Slice(jobs, u)' = Slice(jobs, u)
        /\ Slice(papers, u)' = Slice(papers, u)
    BY <1>2, <2>1, DropApart DEF DeleteCustomer
  <2>3. QED
    BY <1>2, <2>2 DEF DeleteCustomer, Stays, office
<1>3. ASSUME NEW c, NEW stage, CreateOpportunity(t, c, stage) PROVE Stays(u)
  <2>1. drawn + 1 \notin DOMAIN opportunities
    BY Fresh
  <2>2. Slice(opportunities, u)' = Slice(opportunities, u)
    BY <1>3, <2>1, OpportunityApart DEF CreateOpportunity
  <2>3. QED
    BY <1>3, <2>2 DEF CreateOpportunity, Stays, office
<1>4. ASSUME NEW o \in OfTenant(opportunities, t), NEW c, NEW stage,
             UpdateOpportunity(t, o, c, stage)
      PROVE  Stays(u)
  <2>1. Slice(opportunities, u)' = Slice(opportunities, u)
    BY <1>4, OpportunityApart DEF UpdateOpportunity, OfTenant
  <2>2. QED
    BY <1>4, <2>1 DEF UpdateOpportunity, Stays, office
<1>5. ASSUME NEW o \in OfTenant(opportunities, t), DeleteOpportunity(o) PROVE Stays(u)
  <2>1. {o} \cap OfTenant(opportunities, u) = {}
    BY DEF OfTenant
  <2>2. Slice(opportunities, u)' = Slice(opportunities, u)
    BY <1>5, <2>1, DropApart DEF DeleteOpportunity
  <2>3. QED
    BY <1>5, <2>2 DEF DeleteOpportunity, Stays, office
<1>6. ASSUME NEW o \in OfTenant(opportunities, t), Win(o)
      PROVE  Slice(opportunities, u)' = Slice(opportunities, u)
  <2> DEFINE r == [opportunities[o] EXCEPT !.stage = "won"]
  <2>1. o \in DOMAIN opportunities /\ opportunities[o].tenant = t
    BY DEF OfTenant
  <2>2. r.tenant = t
    BY <2>1, TypedIsTypeOK DEF Typed
  <2>3. opportunities' = Put(opportunities, o, r)
    BY <1>6, <2>1, TypedIsTypeOK DEF Win, Put, Typed
  <2> HIDE DEF r
  <2>4. QED
    BY <2>1, <2>2, <2>3, OpportunityApart
<1>7. ASSUME NEW o \in OfTenant(opportunities, t), ConvertRefused(o) PROVE Stays(u)
  BY <1>6, <1>7 DEF ConvertRefused, Stays, office
<1>8. ASSUME NEW c, NewJob(t, c) PROVE Slice(jobs, u)' = Slice(jobs, u)
  <2>1. /\ jobs' = Put(jobs, drawn + 1, [tenant |-> t, customer |-> c])
        /\ drawn + 1 \notin DOMAIN jobs
    BY <1>8, Fresh DEF NewJob
  <2>2. QED
    BY <2>1, PutApart
<1>9. ASSUME \/ \E c \in DOMAIN customers : CreateJob(t, c)
             \/ \E o \in OfTenant(opportunities, t) : ConvertToJob(t, o)
      PROVE  Stays(u)
  <2>1. Slice(jobs, u)' = Slice(jobs, u)
    BY <1>8, <1>9 DEF CreateJob, ConvertToJob
  <2>2. Slice(opportunities, u)' = Slice(opportunities, u)
    BY <1>6, <1>9 DEF CreateJob, ConvertToJob
  <2>3. UNCHANGED <<customers, papers, members, shelf, overrides>>
    BY <1>9 DEF CreateJob, ConvertToJob, office
  <2>4. QED
    BY <2>1, <2>2, <2>3 DEF Stays
<1>10. ASSUME NEW j \in OfTenant(jobs, t), DeleteJob(t, j) PROVE Stays(u)
  <2>1. /\ {j} \cap OfTenant(jobs, u) = {}
        /\ PapersOf(t, {j}) \cap OfTenant(papers, u) = {}
    BY DEF OfTenant, PapersOf
  <2>2. Slice(jobs, u)' = Slice(jobs, u) /\ Slice(papers, u)' = Slice(papers, u)
    BY <1>10, <2>1, DropApart DEF DeleteJob
  <2>3. QED
    BY <1>10, <2>2 DEF DeleteJob, Stays, office
<1>11. ASSUME NEW j, AddPaper(t, j) PROVE Stays(u)
  <2>1. /\ papers' = Put(papers, drawn + 1, [tenant |-> t, job |-> j])
        /\ drawn + 1 \notin DOMAIN papers
    BY <1>11, Fresh DEF AddPaper
  <2>2. Slice(papers, u)' = Slice(papers, u)
    BY <2>1, PutApart
  <2>3. QED
    BY <1>11, <2>2 DEF AddPaper, Stays, office
<1>12. ASSUME NEW n \in OfTenant(papers, t), DeletePaper(n) PROVE Stays(u)
  <2>1. {n} \cap OfTenant(papers, u) = {}
    BY DEF OfTenant
  <2>2. Slice(papers, u)' = Slice(papers, u)
    BY <1>12, <2>1, DropApart DEF DeletePaper
  <2>3. QED
    BY <1>12, <2>2 DEF DeletePaper, Stays, office
<1>13. QED
  BY <1>1, <1>2, <1>3, <1>4, <1>5, <1>7, <1>9, <1>10, <1>11, <1>12 DEF WorkRequest

LEMMA ShelfApart ==
    ASSUME TypeOK, NEW t \in DOMAIN tenants, NEW u, u # t, ShelfRequest(t)
    PROVE  Stays(u)
<1>1. UNCHANGED <<office, work, members>>
  BY DEF ShelfRequest, AddToShelf, SeedDefaults, SetActive, DeleteTemplate
<1>2. \A kind : ShelfRow(t, kind).tenant = t
  BY DEF ShelfRow
<1>3. ASSUME NEW kind \in Kinds, AddToShelf(t, kind) PROVE Slice(shelf, u)' = Slice(shelf, u)
  BY <1>2, <1>3, Fresh, PutApart DEF AddToShelf
<1>4. CASE SeedDefaults(t)
  <2> DEFINE first == Put(shelf, drawn + 1, ShelfRow(t, "item"))
  <2>1. shelf' = Put(first, drawn + 2, ShelfRow(t, "template"))
    BY <1>4 DEF SeedDefaults
  <2>2. drawn + 2 \in DOMAIN first => first[drawn + 2].tenant = t
    BY <1>2, Fresh DEF Put
  <2>3. Slice(first, u) = Slice(shelf, u)
    BY <1>2, Fresh, PutApart
  <2> HIDE DEF first
  <2>4. Slice(shelf, u)' = Slice(first, u)
    BY <2>1, <2>2, <1>2, PutApart
  <2>5. QED
    BY <2>3, <2>4, <1>1 DEF Stays, office, work
<1>5. ASSUME NEW n \in OfTenant(shelf, t), NEW active \in BOOLEAN, SetActive(n, active)
      PROVE  Slice(shelf, u)' = Slice(shelf, u)
  <2> DEFINE r == [shelf[n] EXCEPT !.active = active]
  <2>1. n \in DOMAIN shelf /\ shelf[n].tenant = t
    BY DEF OfTenant
  <2>2. r.tenant = t
    BY <2>1, TypedIsTypeOK DEF Typed
  <2>3. shelf' = Put(shelf, n, r)
    BY <1>5, <2>1, TypedIsTypeOK DEF SetActive, Put, Typed
  <2> HIDE DEF r
  <2>4. QED
    BY <2>1, <2>2, <2>3, PutApart
<1>6. ASSUME NEW n \in OfTenant(shelf, t), DeleteTemplate(n)
      PROVE  Slice(shelf, u)' = Slice(shelf, u)
  <2>1. {n} \cap OfTenant(shelf, u) = {}
    BY DEF OfTenant
  <2>2. QED
    BY <1>6, <2>1, DropApart DEF DeleteTemplate
<1>7. QED
  BY <1>1, <1>3, <1>4, <1>5, <1>6 DEF ShelfRequest, Stays, office, work

LEMMA ApartStep == TypeOK /\ [Next]_vars => OneTenantChanges
<1> SUFFICES ASSUME TypeOK, [Next]_vars,
                    NEW t \in DOMAIN tenants, NEW u \in DOMAIN tenants, t # u
             PROVE  Owned(t)' = Owned(t) \/ Owned(u)' = Owned(u)
  BY DEF OneTenantChanges
<1>1. ASSUME NEW v \in DOMAIN tenants,
             OfficeRequest(v) \/ WorkRequest(v) \/ ShelfRequest(v) \/ AddMember(v, v)
      PROVE  Stays(t) \/ Stays(u)
  BY <1>1, OfficeApart, WorkApart, ShelfApart
<1>2. ASSUME NEW s \in Slugs, CreateTenant(s) PROVE Stays(t)
  BY <1>2 DEF CreateTenant, Stays, work
<1>3. ASSUME UNCHANGED vars PROVE Stays(t)
  BY <1>3 DEF Stays, vars, work, office
<1>4. Stays(t) \/ Stays(u)
  BY <1>1, <1>2, <1>3 DEF Next, FinishLogin
<1>5. QED
  BY <1>4, StaysOwned

-----------------------------------------------------------------------------
\* The store's rows have the shapes their repositories give them, and no two
\* have the same id (the repositories under models/).
THEOREM TypeCorrect == Spec => []TypeOK
<1>1. IInv => TypeOK
  BY DEF IInv
<1>2. QED
  BY InvariantInit, InvariantStep, <1>1, PTL DEF Spec

\* For any tenants and slugs: the slug index is exact (Tenant.js).
THEOREM SlugsAlwaysLeadHome == Spec => []SlugsLeadHome
<1>1. IInv => SlugsLeadHome
  BY DEF IInv
<1>2. QED
  BY InvariantInit, InvariantStep, <1>1, PTL DEF Spec

\* For any number of rows: none outlives what it belongs to (the cascades of
\* routes/tenant.js, routes/customer.js and routes/job.js).
THEOREM NothingEverDangles == Spec => []NothingDangles
<1>1. IInv => NothingDangles
  BY DEF IInv
<1>2. QED
  BY InvariantInit, InvariantStep, <1>1, PTL DEF Spec

\* For any number of tenants: no request changes the rows of two of them.
THEOREM TenantsAlwaysKeepApart == Spec => TenantsKeepApart
<1>1. IInv => TypeOK
  BY DEF IInv
<1>2. QED
  BY InvariantInit, InvariantStep, ApartStep, <1>1, PTL DEF Spec, TenantsKeepApart
================================================================================

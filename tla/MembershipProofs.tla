--------------------------- MODULE MembershipProofs ---------------------------
(***************************************************************************)
(* Membership, proved for any number of people, addresses and identities:  *)
(* a login leads to the right account or to none.                          *)
(***************************************************************************)
EXTENDS Membership, TLAPS

-----------------------------------------------------------------------------
(* The inductive invariant                                                   *)

\* The identity an account was linked to last leads to it.  Without this,
\* delete could take away the entry of somebody else's identity.
RowsAreIndexed ==
    \A u \in DOMAIN users :
       users[u].identity # None =>
          /\ users[u].identity \in DOMAIN providerIndex
          /\ providerIndex[users[u].identity] = u

IInv == TypeOK /\ EmailsLeadToUsers /\ RowsAreIndexed /\ IdentitiesLeadHome

LEMMA Ids ==
    ASSUME TypeOK
    PROVE  /\ drawn \in Nat /\ MaxUsers \in Nat
           /\ None \notin DOMAIN users /\ None \notin Identities /\ None \notin Emails
           /\ drawn + 1 \notin DOMAIN users
BY MembershipConstants DEF TypeOK

LEMMA InvariantInit == Init => IInv
<1> SUFFICES ASSUME Init PROVE IInv
  OBVIOUS
<1>1. /\ DOMAIN users = {} /\ DOMAIN emailIndex = {}
      /\ DOMAIN providerIndex = {} /\ DOMAIN entered = {}
      /\ drawn = 0 /\ tenant = TRUE /\ ownerLeft = FALSE
  BY DEF Init
<1>2. TypeOK
  <2>1. tenant \in BOOLEAN /\ ownerLeft \in BOOLEAN
    BY <1>1
  <2>2. drawn \in 0..MaxUsers
    BY <1>1, MembershipConstants
  <2>3. QED
    BY <1>1, <2>1, <2>2 DEF TypeOK
<1>3. EmailsLeadToUsers /\ RowsAreIndexed /\ IdentitiesLeadHome
  BY <1>1 DEF EmailsLeadToUsers, RowsAreIndexed, IdentitiesLeadHome, FindByProviderId
<1>4. QED
  BY <1>2, <1>3 DEF IInv

-----------------------------------------------------------------------------
(* Logging in                                                                *)

LEMMA KnownKeepsInvariant ==
    ASSUME IInv, NEW i \in Identities, LoginKnown(i)
    PROVE  IInv'
<1>1. TypeOK
  BY DEF IInv
<1>2. /\ entered' = Put(entered, i, FindByProviderId(i))
      /\ FindByProviderId(i) \in DOMAIN users
      /\ UNCHANGED <<tenant, users, emailIndex, providerIndex, drawn, ownerLeft>>
  BY DEF LoginKnown, FindByProviderId
<1>3. i \in DOMAIN entered /\ entered[i] = FindByProviderId(i)
  BY <1>1, <1>2, Ids DEF IInv, IdentitiesLeadHome
<1>4. DOMAIN entered' = DOMAIN entered /\ \A j \in DOMAIN entered : entered'[j] = entered[j]
  BY <1>2, <1>3 DEF Put
<1>5. TypeOK'
  BY <1>1, <1>2, <1>4 DEF TypeOK
<1>6. EmailsLeadToUsers' /\ RowsAreIndexed'
  BY <1>2 DEF IInv, EmailsLeadToUsers, RowsAreIndexed
<1>7. IdentitiesLeadHome'
  BY <1>2, <1>4 DEF IInv, IdentitiesLeadHome, FindByProviderId
<1>8. QED
  BY <1>5, <1>6, <1>7 DEF IInv

\* An identity that led nowhere comes to lead to u, and nothing else changes.
LEMMA EnteringLeadsHome ==
    ASSUME IInv, NEW i \in Identities, FindByProviderId(i) = None,
           NEW u, u # None,
           DOMAIN users' = DOMAIN users \cup {u},
           providerIndex' = Put(providerIndex, i, u),
           entered' = Put(entered, i, u),
           u \in DOMAIN users \/ u = drawn + 1,
           \A v \in DOMAIN users \ {u} : users'[v] = users[v],
           users'[u].identity = i
    PROVE  RowsAreIndexed' /\ IdentitiesLeadHome'
<1>1. TypeOK
  BY DEF IInv
<1>2. /\ DOMAIN providerIndex' = DOMAIN providerIndex \cup {i}
      /\ \A j \in DOMAIN providerIndex' :
            providerIndex'[j] = IF j = i THEN u ELSE providerIndex[j]
      /\ DOMAIN entered' = DOMAIN entered \cup {i}
      /\ \A j \in DOMAIN entered' : entered'[j] = IF j = i THEN u ELSE entered[j]
  BY DEF Put
<1>3. RowsAreIndexed'
  <2> SUFFICES ASSUME NEW v \in DOMAIN users', users'[v].identity # None
               PROVE  /\ users'[v].identity \in DOMAIN providerIndex'
                      /\ providerIndex'[users'[v].identity] = v
    BY DEF RowsAreIndexed
  <2>1. CASE v = u
    BY <2>1, <1>2
  <2>2. CASE v # u
    <3>1. v \in DOMAIN users /\ users'[v] = users[v]
      BY <2>2
    <3>2. /\ users[v].identity \in DOMAIN providerIndex
          /\ providerIndex[users[v].identity] = v
      BY <3>1 DEF IInv, RowsAreIndexed
    <3>3. users[v].identity # i
      BY <1>1, <3>1, <3>2, Ids DEF FindByProviderId
    <3>4. QED
      BY <1>2, <3>1, <3>2, <3>3
  <2>3. QED
    BY <2>1, <2>2
<1>4. IdentitiesLeadHome'
  <2> SUFFICES ASSUME NEW j \in Identities
               PROVE  FindByProviderId(j)' =
                         IF j \in DOMAIN entered' /\ entered'[j] \in DOMAIN users'
                         THEN entered'[j] ELSE None
    BY DEF IdentitiesLeadHome
  <2>1. CASE j = i
    BY <2>1, <1>2 DEF FindByProviderId
  <2>2. CASE j # i
    <3>1. /\ j \in DOMAIN providerIndex => providerIndex[j] # drawn + 1
          /\ j \in DOMAIN entered => entered[j] # drawn + 1
      BY <1>1, Ids DEF TypeOK
    <3>2. /\ FindByProviderId(j) = IF j \in DOMAIN entered /\ entered[j] \in DOMAIN users
                                   THEN entered[j] ELSE None
          /\ (j \in DOMAIN providerIndex' <=> j \in DOMAIN providerIndex)
          /\ (j \in DOMAIN entered' <=> j \in DOMAIN entered)
          /\ j \in DOMAIN providerIndex => providerIndex'[j] = providerIndex[j]
          /\ j \in DOMAIN entered => entered'[j] = entered[j]
      BY <2>2, <1>2 DEF IInv, IdentitiesLeadHome
    <3>3. QED
      BY <3>1, <3>2 DEF FindByProviderId
  <2>3. QED
    BY <2>1, <2>2
<1>5. QED
  BY <1>3, <1>4

LEMMA LinkedKeepsInvariant ==
    ASSUME IInv, NEW i \in Identities, NEW e \in Emails \cup {None}, LoginLinked(i, e)
    PROVE  IInv'
<1> DEFINE u == FindByEmail(e)
<1>1. TypeOK
  BY DEF IInv
<1>2. /\ u \in DOMAIN users /\ u # None
      /\ FindByProviderId(i) = None
      /\ providerIndex' = Put(providerIndex, i, u)
      /\ entered' = Put(entered, i, u)
      /\ UNCHANGED <<tenant, emailIndex, drawn, ownerLeft>>
  BY DEF LoginLinked, LinkProviderIdentity, FindByEmail
<1>3. /\ DOMAIN users' = DOMAIN users
      /\ \A v \in DOMAIN users \ {u} : users'[v] = users[v]
      /\ users'[u] = [users[u] EXCEPT !.identity = i, !.status = "active"]
  BY <1>2 DEF LoginLinked, LinkProviderIdentity, Put
<1>4. users[u] \in UserRow
  BY <1>1, <1>2 DEF TypeOK
<1>5. /\ users'[u] \in UserRow
      /\ users'[u].identity = i
      /\ users'[u].email = users[u].email
  BY <1>3, <1>4 DEF UserRow, Statuses
<1> HIDE DEF u
<1>6. RowsAreIndexed' /\ IdentitiesLeadHome'
  <2>1. DOMAIN users' = DOMAIN users \cup {u}
    BY <1>2, <1>3
  <2>2. QED
    BY <2>1, <1>2, <1>3, <1>5, EnteringLeadsHome
<1>7. EmailsLeadToUsers'
  <2>1. \A v \in DOMAIN users : users'[v].email = users[v].email
    BY <1>3, <1>5
  <2>2. QED
    BY <2>1, <1>2, <1>3 DEF IInv, EmailsLeadToUsers
<1>8. TypeOK'
  <2>1. /\ DOMAIN users' \subseteq 1..drawn
        /\ \A v \in DOMAIN users' : users'[v] \in UserRow
    BY <1>1, <1>3, <1>5 DEF TypeOK
  <2>2. u \in 1..drawn
    BY <1>1, <1>2 DEF TypeOK
  <2>3. /\ DOMAIN providerIndex' \subseteq DOMAIN entered'
        /\ DOMAIN entered' \subseteq Identities
        /\ \A j \in DOMAIN providerIndex' : providerIndex'[j] \in 1..drawn
        /\ \A j \in DOMAIN entered' : entered'[j] \in 1..drawn
    BY <1>1, <1>2, <2>2 DEF TypeOK, Put
  <2>4. QED
    BY <1>1, <1>2, <2>1, <2>3 DEF TypeOK
<1>9. QED
  BY <1>6, <1>7, <1>8 DEF IInv

-----------------------------------------------------------------------------
(* New accounts                                                              *)

\* The row, its address and its id; who has entered as whom is left to the
\* caller.
LEMMA CreateKeepsEmails ==
    ASSUME IInv, NEW identity \in Identities \cup {None}, NEW e \in Emails \cup {None},
           NEW role \in Roles, NEW status \in Statuses,
           Create(drawn + 1, identity, e, role, status)
    PROVE  /\ EmailsLeadToUsers'
           /\ drawn' = drawn + 1 /\ drawn' \in 0..MaxUsers
           /\ DOMAIN users' = DOMAIN users \cup {drawn + 1}
           /\ DOMAIN users' \subseteq 1..drawn'
           /\ \A v \in DOMAIN users : users'[v] = users[v]
           /\ \A v \in DOMAIN users' : users'[v] \in UserRow
           /\ users'[drawn + 1].identity = identity
           /\ DOMAIN emailIndex' \subseteq Emails
<1> DEFINE u == drawn + 1
<1>1. TypeOK /\ u \notin DOMAIN users
  BY Ids DEF IInv
<1>2. /\ e \in Emails /\ e \notin DOMAIN emailIndex
      /\ drawn < MaxUsers /\ drawn' = u
  BY DEF Create
<1>3. /\ DOMAIN users' = DOMAIN users \cup {u}
      /\ \A v \in DOMAIN users : users'[v] = users[v]
      /\ users'[u] = [identity |-> identity, email |-> e, role |-> role, status |-> status]
  BY <1>1 DEF Create, Put
<1>4. /\ DOMAIN emailIndex' = DOMAIN emailIndex \cup {e}
      /\ \A f \in DOMAIN emailIndex : emailIndex'[f] = emailIndex[f]
      /\ emailIndex'[e] = u
  BY <1>2 DEF Create, Put
<1>5. users'[u] \in UserRow /\ users'[u].email = e /\ users'[u].identity = identity
  BY <1>2, <1>3 DEF UserRow
<1>6. EmailsLeadToUsers'
  BY <1>1, <1>2, <1>3, <1>4, <1>5 DEF IInv, EmailsLeadToUsers
<1>7. drawn' \in 0..MaxUsers /\ DOMAIN users' \subseteq 1..drawn'
  BY <1>1, <1>2, <1>3, Ids DEF TypeOK
<1>8. \A v \in DOMAIN users' : users'[v] \in UserRow
  BY <1>1, <1>3, <1>5 DEF TypeOK
<1>9. DOMAIN emailIndex' \subseteq Emails
  BY <1>1, <1>2, <1>4 DEF TypeOK
<1>10. QED
  BY <1>2, <1>3, <1>5, <1>6, <1>7, <1>8, <1>9

LEMMA NewKeepsInvariant ==
    ASSUME IInv, NEW i \in Identities, NEW e \in Emails \cup {None}, LoginNew(i, e)
    PROVE  IInv'
<1> DEFINE u == drawn + 1
<1>1. TypeOK /\ u \notin DOMAIN users /\ drawn \in Nat
  BY Ids DEF IInv
<1>2. /\ Create(u, i, e, FirstRole, "active")
      /\ FindByProviderId(i) = None
      /\ entered' = Put(entered, i, u)
      /\ tenant' = tenant /\ ownerLeft' = ownerLeft
  BY DEF LoginNew
<1>3. FirstRole \in Roles /\ "active" \in Statuses
  BY DEF FirstRole, Roles, Statuses
<1>4. /\ EmailsLeadToUsers'
      /\ drawn' = u /\ drawn' \in 0..MaxUsers
      /\ DOMAIN users' = DOMAIN users \cup {u}
      /\ DOMAIN users' \subseteq 1..drawn'
      /\ \A v \in DOMAIN users : users'[v] = users[v]
      /\ \A v \in DOMAIN users' : users'[v] \in UserRow
      /\ users'[u].identity = i
      /\ DOMAIN emailIndex' \subseteq Emails
  BY <1>2, <1>3, CreateKeepsEmails
<1>5. i # None /\ u # None
  BY <1>1, MembershipConstants
<1>6. providerIndex' = Put(providerIndex, i, u)
  BY <1>2, <1>5 DEF Create
<1>7. RowsAreIndexed' /\ IdentitiesLeadHome'
  BY <1>2, <1>4, <1>5, <1>6, EnteringLeadsHome
<1>8. TypeOK'
  <2>1. /\ DOMAIN providerIndex' \subseteq DOMAIN entered'
        /\ DOMAIN entered' \subseteq Identities
        /\ \A j \in DOMAIN providerIndex' : providerIndex'[j] \in 1..drawn'
        /\ \A j \in DOMAIN entered' : entered'[j] \in 1..drawn'
    BY <1>1, <1>2, <1>4, <1>6 DEF TypeOK, Put
  <2>2. QED
    BY <1>1, <1>2, <1>4, <2>1 DEF TypeOK
<1>9. QED
  BY <1>4, <1>7, <1>8 DEF IInv

\* Everything but the e-mail index, when the identities stay what they are.
LEMMA SameIdentitiesKeepHome ==
    ASSUME IInv,
           \A v \in DOMAIN users' :
              \/ v \in DOMAIN users /\ users'[v].identity = users[v].identity
              \/ v = drawn + 1 /\ users'[v].identity = None,
           DOMAIN users \subseteq DOMAIN users',
           UNCHANGED <<providerIndex, entered>>
    PROVE  RowsAreIndexed' /\ IdentitiesLeadHome'
<1>1. TypeOK
  BY DEF IInv
<1>2. RowsAreIndexed'
  BY DEF IInv, RowsAreIndexed
<1>3. /\ \A i \in DOMAIN providerIndex : providerIndex[i] # drawn + 1
      /\ \A i \in DOMAIN entered : entered[i] # drawn + 1
  BY <1>1, Ids DEF TypeOK
<1>4. IdentitiesLeadHome'
  BY <1>3 DEF IInv, IdentitiesLeadHome, FindByProviderId
<1>5. QED
  BY <1>2, <1>4

LEMMA InviteKeepsInvariant ==
    ASSUME IInv, NEW e \in Emails, NEW role \in Requested, Invite(e, role)
    PROVE  IInv'
<1> DEFINE u == drawn + 1
<1>1. TypeOK /\ u \notin DOMAIN users /\ drawn \in Nat
  BY Ids DEF IInv
<1>2. /\ Create(u, None, e, role, "invited") /\ role \in Roles
      /\ UNCHANGED <<tenant, entered, ownerLeft>>
  BY DEF Invite
<1>3. "invited" \in Statuses /\ None \in Identities \cup {None}
  BY DEF Statuses
<1>4. /\ EmailsLeadToUsers'
      /\ drawn' = u /\ drawn' \in 0..MaxUsers
      /\ DOMAIN users' = DOMAIN users \cup {u}
      /\ DOMAIN users' \subseteq 1..drawn'
      /\ \A v \in DOMAIN users : users'[v] = users[v]
      /\ \A v \in DOMAIN users' : users'[v] \in UserRow
      /\ users'[u].identity = None
      /\ DOMAIN emailIndex' \subseteq Emails
  BY <1>2, <1>3, CreateKeepsEmails
<1>5. providerIndex' = providerIndex
  BY <1>2 DEF Create
<1>6. RowsAreIndexed' /\ IdentitiesLeadHome'
  BY <1>2, <1>4, <1>5, SameIdentitiesKeepHome
<1>7. TypeOK'
  BY <1>1, <1>2, <1>4, <1>5 DEF TypeOK
<1>8. QED
  BY <1>4, <1>6, <1>7 DEF IInv

-----------------------------------------------------------------------------
(* Changing and leaving                                                      *)

LEMMA UpdateKeepsInvariant ==
    ASSUME IInv, NEW u \in DOMAIN users, NEW role \in Requested, NEW status \in Statuses,
           UpdateUser(u, role, status)
    PROVE  IInv'
<1>1. TypeOK /\ users[u] \in UserRow
  BY DEF IInv, TypeOK
<1>2. /\ role \in Roles
      /\ UNCHANGED <<tenant, emailIndex, providerIndex, drawn, entered>>
      /\ ownerLeft' \in BOOLEAN
  BY <1>1 DEF UpdateUser, TypeOK
<1>3. /\ DOMAIN users' = DOMAIN users
      /\ \A v \in DOMAIN users \ {u} : users'[v] = users[v]
      /\ users'[u] = [users[u] EXCEPT !.role = role, !.status = status]
  BY DEF UpdateUser, Put
<1>4. /\ users'[u] \in UserRow
      /\ users'[u].email = users[u].email
      /\ users'[u].identity = users[u].identity
  BY <1>1, <1>2, <1>3 DEF UserRow
<1>5. \A v \in DOMAIN users : users'[v].email = users[v].email
                               /\ users'[v].identity = users[v].identity
  BY <1>3, <1>4
<1>6. EmailsLeadToUsers'
  BY <1>2, <1>3, <1>5 DEF IInv, EmailsLeadToUsers
<1>7. RowsAreIndexed' /\ IdentitiesLeadHome'
  BY <1>2, <1>3, <1>5, SameIdentitiesKeepHome
<1>8. TypeOK'
  BY <1>1, <1>2, <1>3, <1>4 DEF TypeOK
<1>9. QED
  BY <1>6, <1>7, <1>8 DEF IInv

LEMMA ChangeEmailKeepsInvariant ==
    ASSUME IInv, NEW u \in DOMAIN users, NEW e \in Emails, ChangeEmail(u, e)
    PROVE  IInv'
<1>1. TypeOK /\ users[u] \in UserRow
  BY DEF IInv, TypeOK
<1>2. /\ e \notin DOMAIN emailIndex
      /\ UNCHANGED <<tenant, providerIndex, drawn, entered, ownerLeft>>
  BY DEF ChangeEmail
<1>3. /\ DOMAIN users' = DOMAIN users
      /\ \A v \in DOMAIN users \ {u} : users'[v] = users[v]
      /\ users'[u] = [users[u] EXCEPT !.email = e]
  BY DEF ChangeEmail, Put
<1>4. /\ users'[u] \in UserRow /\ users'[u].email = e
      /\ users'[u].identity = users[u].identity
  BY <1>1, <1>3 DEF UserRow
<1>5. /\ DOMAIN emailIndex' = (DOMAIN emailIndex \ {users[u].email}) \cup {e}
      /\ emailIndex'[e] = u
      /\ \A f \in DOMAIN emailIndex \ {users[u].email} : emailIndex'[f] = emailIndex[f]
  BY <1>2 DEF ChangeEmail, Put, Drop, Restrict
<1>6. EmailsLeadToUsers'
  <2>1. \A v \in DOMAIN users \ {u} : users[v].email # users[u].email
    BY DEF IInv, EmailsLeadToUsers
  <2>2. \A v \in DOMAIN users \ {u} :
           /\ users'[v].email \in DOMAIN emailIndex'
           /\ emailIndex'[users'[v].email] = v
    BY <1>3, <1>5, <2>1 DEF IInv, EmailsLeadToUsers
  <2>3. ASSUME NEW f \in DOMAIN emailIndex'
        PROVE  emailIndex'[f] \in DOMAIN users' /\ users'[emailIndex'[f]].email = f
    <3>1. CASE f = e
      BY <3>1, <1>3, <1>4, <1>5
    <3>2. CASE f # e
      <4>1. f \in DOMAIN emailIndex /\ f # users[u].email /\ emailIndex'[f] = emailIndex[f]
        BY <3>2, <1>5
      <4>2. emailIndex[f] \in DOMAIN users \ {u} /\ users[emailIndex[f]].email = f
        BY <4>1 DEF IInv, EmailsLeadToUsers
      <4>3. QED
        BY <4>1, <4>2, <1>3
    <3>3. QED
      BY <3>1, <3>2
  <2>4. users'[u].email \in DOMAIN emailIndex' /\ emailIndex'[users'[u].email] = u
    BY <1>4, <1>5
  <2>5. \A v \in DOMAIN users' :
           users'[v].email \in DOMAIN emailIndex' /\ emailIndex'[users'[v].email] = v
    BY <1>3, <2>2, <2>4
  <2>6. QED
    BY <2>3, <2>5 DEF EmailsLeadToUsers
<1>7. RowsAreIndexed' /\ IdentitiesLeadHome'
  BY <1>2, <1>3, <1>4, SameIdentitiesKeepHome
<1>8. TypeOK'
  BY <1>1, <1>2, <1>3, <1>4, <1>5 DEF TypeOK
<1>9. QED
  BY <1>6, <1>7, <1>8 DEF IInv

\* Whatever is removed takes along the index entries that lead to it from its
\* address and from the identity it was linked to last, and those of nobody
\* else.
LEMMA DeleteKeepsInvariant ==
    ASSUME IInv, NEW U \in SUBSET DOMAIN users, Delete(U), tenant' \in BOOLEAN
    PROVE  IInv'
<1>1. TypeOK
  BY DEF IInv
<1>2. /\ DOMAIN users' = DOMAIN users \ U
      /\ \A v \in DOMAIN users \ U : users'[v] = users[v]
      /\ DOMAIN emailIndex' = DOMAIN emailIndex \ {users[v].email : v \in U}
      /\ \A e \in DOMAIN emailIndex' : emailIndex'[e] = emailIndex[e]
      /\ DOMAIN providerIndex' = DOMAIN providerIndex \ {users[v].identity : v \in U}
      /\ \A i \in DOMAIN providerIndex' : providerIndex'[i] = providerIndex[i]
      /\ drawn' = drawn /\ entered' = entered
      /\ ownerLeft' \in BOOLEAN
  BY <1>1 DEF Delete, Drop, Restrict, TypeOK
<1>3. EmailsLeadToUsers'
  <2>1. \A v \in DOMAIN users', w \in U : users[v].email # users[w].email
    BY <1>2 DEF IInv, EmailsLeadToUsers
  <2>2. QED
    BY <1>2, <2>1 DEF IInv, EmailsLeadToUsers
<1>4. \A i \in DOMAIN providerIndex \ DOMAIN providerIndex' : providerIndex[i] \in U
  <2> SUFFICES ASSUME NEW v \in U, users[v].identity \in DOMAIN providerIndex
               PROVE  providerIndex[users[v].identity] \in U
    BY <1>2
  <2>1. users[v].identity # None
    BY <1>1, MembershipConstants DEF TypeOK
  <2>2. QED
    BY <2>1 DEF IInv, RowsAreIndexed
<1>5. RowsAreIndexed'
  <2> SUFFICES ASSUME NEW v \in DOMAIN users', users'[v].identity # None
               PROVE  /\ users'[v].identity \in DOMAIN providerIndex'
                      /\ providerIndex'[users'[v].identity] = v
    BY DEF RowsAreIndexed
  <2>1. /\ v \in DOMAIN users /\ v \notin U /\ users'[v] = users[v]
        /\ users[v].identity \in DOMAIN providerIndex
        /\ providerIndex[users[v].identity] = v
    BY <1>2 DEF IInv, RowsAreIndexed
  <2>2. QED
    BY <2>1, <1>2, <1>4
<1>6. IdentitiesLeadHome'
  <2> SUFFICES ASSUME NEW i \in Identities
               PROVE  FindByProviderId(i)' =
                         IF i \in DOMAIN entered /\ entered[i] \in DOMAIN users'
                         THEN entered[i] ELSE None
    BY <1>2 DEF IdentitiesLeadHome
  <2>1. FindByProviderId(i) = IF i \in DOMAIN entered /\ entered[i] \in DOMAIN users
                              THEN entered[i] ELSE None
    BY DEF IInv, IdentitiesLeadHome
  <2>2. FindByProviderId(i)' = IF FindByProviderId(i) \in DOMAIN users'
                               THEN FindByProviderId(i) ELSE None
    BY <1>1, <1>2, <1>4, Ids DEF FindByProviderId
  <2>3. None \notin DOMAIN users'
    BY <1>1, <1>2, Ids
  <2>4. QED
    BY <1>2, <2>1, <2>2, <2>3
<1>7. TypeOK'
  <2>1. DOMAIN emailIndex' \subseteq Emails
    BY <1>1, <1>2 DEF TypeOK
  <2>2. QED
    BY <1>1, <1>2, <2>1 DEF TypeOK
<1>8. QED
  BY <1>3, <1>5, <1>6, <1>7 DEF IInv

LEMMA InvariantStep == IInv /\ [Next]_vars => IInv'
<1> SUFFICES ASSUME IInv, [Next]_vars PROVE IInv'
  OBVIOUS
<1>1. CASE UNCHANGED vars
  BY <1>1
  DEF vars, IInv, TypeOK, EmailsLeadToUsers, RowsAreIndexed, IdentitiesLeadHome,
      FindByProviderId
<1>2. ASSUME NEW i \in Identities, NEW e \in Emails \cup {None}, Login(i, e)
      PROVE  IInv'
  BY <1>2, KnownKeepsInvariant, LinkedKeepsInvariant, NewKeepsInvariant DEF Login
<1>3. ASSUME NEW u \in DOMAIN users, RemoveUser(u)
      PROVE  IInv'
  <2>1. Delete({u}) /\ tenant' \in BOOLEAN /\ {u} \in SUBSET DOMAIN users
    BY <1>3 DEF RemoveUser, IInv, TypeOK
  <2>2. QED
    BY <2>1, DeleteKeepsInvariant
<1>4. ASSUME DeleteTenant
      PROVE  IInv'
  <2>1. Delete(DOMAIN users) /\ tenant' \in BOOLEAN
    BY <1>4 DEF DeleteTenant
  <2>2. QED
    BY <2>1, DeleteKeepsInvariant
<1>5. CASE Next
  BY <1>2, <1>3, <1>4, <1>5, InviteKeepsInvariant, UpdateKeepsInvariant,
     ChangeEmailKeepsInvariant
  DEF Next
<1>6. QED
  BY <1>1, <1>5

THEOREM InvariantHolds == Spec => []IInv
<1>1. QED
  BY InvariantInit, InvariantStep, PTL DEF Spec

-----------------------------------------------------------------------------
(* Theorems                                                                  *)

\* Rows and indexes keep the shape the code gives them.
THEOREM TypeCorrect == Spec => []TypeOK
<1>1. QED
  BY InvariantHolds, PTL DEF IInv

\* One address is one account, and the address index is exact (User.create,
\* update, delete).
THEOREM OneAccountPerAddress == Spec => []EmailsLeadToUsers
<1>1. QED
  BY InvariantHolds, PTL DEF IInv

\* Whatever was linked, renamed and removed, an identity leads to the account
\* it logged in to last as long as that exists, and then to nobody
\* (findOrCreateUser, linkProviderIdentity, delete).
THEOREM LoginsLeadHome == Spec => []IdentitiesLeadHome
<1>1. QED
  BY InvariantHolds, PTL DEF IInv
=============================================================================

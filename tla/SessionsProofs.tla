---------------------------- MODULE SessionsProofs ----------------------------
(***************************************************************************)
(* Sessions, proved for any number of users and token pairs and for any    *)
(* lifetimes: rotation, logging out and removal end what they should, and  *)
(* the tokens implement LiveSessions.                                      *)
(***************************************************************************)
EXTENDS Sessions, TLAPS

-----------------------------------------------------------------------------
(* The inductive invariant                                                   *)

\* A session is one user's, and one unrevoked refresh token carries it.
Rotation ==
    \A r, s \in DOMAIN refreshTokens :
       refreshTokens[r].session = refreshTokens[s].session =>
          /\ refreshTokens[r].userId = refreshTokens[s].userId
          /\ ~refreshTokens[r].revoked /\ ~refreshTokens[s].revoked => r = s

\* A logged-out token's entry lasts until the token itself does.
Blocked == \A a \in loggedOut : blocklist[a] = 2 * accessTokens[a].exp

\* No access token outlives one lifetime from now.
Lifetimes ==
    \A n \in DOMAIN accessTokens :
       2 * accessTokens[n].exp <= now + 2 * AccessSeconds

\* What a user's cut left behind.
CutHolds(u) ==
    /\ u \notin users => \A n \in DOMAIN refreshTokens :
          refreshTokens[n].userId = u => n <= cut[u].upTo
    /\ \A n \in DOMAIN refreshTokens :
          refreshTokens[n].userId = u /\ n <= cut[u].upTo =>
             /\ refreshTokens[n].revoked \/ u \notin users
             /\ 2 * accessTokens[n].exp <= cut[u].at + 2 * AccessSeconds

CutsHold == \A u \in DOMAIN cut : CutHolds(u)

IInv == TypeOK /\ Rotation /\ Blocked /\ Lifetimes /\ CutsHold

LEMMA Numbers ==
    ASSUME TypeOK
    PROVE  /\ now \in Nat /\ drawn.pairs \in Nat /\ drawn.sessions \in Nat
           /\ AccessSeconds \in Nat /\ RefreshTime \in Nat
           /\ MaxPairs \in Nat /\ MaxTime \in Nat
           /\ DOMAIN drawn = {"pairs", "sessions"}
BY SessionsConstants DEF TypeOK

LEMMA InvariantInit == Init => IInv
BY SessionsConstants
DEF Init, IInv, TypeOK, Rotation, Blocked, Lifetimes, CutsHold

-----------------------------------------------------------------------------
(* A verified token's blocklist entry cannot have been forgotten, and a      *)
(* token accepted now is within its two half seconds.                        *)

LEMMA AcceptedIsBeforeExpiry ==
    ASSUME TypeOK, NEW a \in DOMAIN accessTokens, VerifyToken(a)
    PROVE  now < 2 * accessTokens[a].exp
<1>1. now \in Nat /\ accessTokens[a].exp \in Nat
  BY DEF TypeOK, AccessPayload
<1>2. now \div 2 < accessTokens[a].exp
  BY DEF VerifyToken
<1>3. QED
  BY <1>1, <1>2

LEMMA InvariantImplies ==
    IInv => OneGoodTokenPerSession /\ LoggedOutTokensStayOut /\ CutIsFinal
<1> SUFFICES ASSUME IInv
             PROVE  OneGoodTokenPerSession /\ LoggedOutTokensStayOut /\ CutIsFinal
  OBVIOUS
<1>1. OneGoodTokenPerSession
  BY DEF IInv, Rotation, OneGoodTokenPerSession, Usable, FindValid
<1>2. LoggedOutTokensStayOut
  <2> SUFFICES ASSUME NEW a \in loggedOut, VerifyToken(a) PROVE IsRevoked(a)
    BY DEF LoggedOutTokensStayOut, Accepted
  <2>1. a \in DOMAIN accessTokens /\ a \in DOMAIN blocklist
    BY DEF IInv, TypeOK
  <2>2. now < 2 * accessTokens[a].exp
    BY <2>1, AcceptedIsBeforeExpiry DEF IInv
  <2>3. now \in Nat /\ accessTokens[a].exp \in Nat
    BY <2>1 DEF IInv, TypeOK, AccessPayload
  <2>4. QED
    BY <2>1, <2>2, <2>3 DEF IsRevoked, IInv, Blocked
<1>3. CutIsFinal
  <2> SUFFICES ASSUME NEW u \in DOMAIN cut, NEW n \in CutPairs(u)
               PROVE  /\ n \notin Usable
                      /\ Accepted(n) => now < cut[u].at + 2 * AccessSeconds
    BY DEF CutIsFinal
  <2>1. /\ n \in DOMAIN refreshTokens /\ n \in DOMAIN accessTokens
        /\ refreshTokens[n].userId = u
        /\ n <= cut[u].upTo
    BY DEF CutPairs, IInv, TypeOK, CutsHold, CutHolds
  <2>2. /\ refreshTokens[n].revoked \/ u \notin users
        /\ 2 * accessTokens[n].exp <= cut[u].at + 2 * AccessSeconds
    BY <2>1 DEF IInv, CutsHold, CutHolds
  <2>3. n \notin Usable
    BY <2>1, <2>2 DEF Usable, FindValid
  <2>4. ASSUME Accepted(n) PROVE now < cut[u].at + 2 * AccessSeconds
    <3>1. now < 2 * accessTokens[n].exp
      BY <2>1, <2>4, AcceptedIsBeforeExpiry DEF Accepted, IInv
    <3>2. /\ now \in Nat /\ accessTokens[n].exp \in Nat
          /\ cut[u].at \in Nat /\ AccessSeconds \in Nat
      BY <2>1, Numbers DEF IInv, TypeOK, AccessPayload
    <3>3. QED
      BY <2>2, <3>1, <3>2
  <2>5. QED
    BY <2>3, <2>4
<1>4. QED
  BY <1>1, <1>2, <1>3

-----------------------------------------------------------------------------
(* Issuing                                                                   *)

\* The same rows as before, except that some may have been revoked.
Revoking(rows) ==
    /\ DOMAIN rows = DOMAIN refreshTokens
    /\ \A r \in DOMAIN refreshTokens :
          /\ rows[r] \in RefreshRow
          /\ rows[r].userId = refreshTokens[r].userId
          /\ rows[r].session = refreshTokens[r].session
          /\ refreshTokens[r].revoked => rows[r].revoked

\* The session of a new pair has no other good token, and no other user.
MayCarryOn(u, session, rows) ==
    \A r \in DOMAIN refreshTokens :
       refreshTokens[r].session = session =>
          refreshTokens[r].userId = u /\ rows[r].revoked

LEMMA RevokedRow ==
    ASSUME TypeOK, NEW r \in DOMAIN refreshTokens
    PROVE  /\ Revoked(r) \in RefreshRow
           /\ Revoked(r).userId = refreshTokens[r].userId
           /\ Revoked(r).session = refreshTokens[r].session
           /\ Revoked(r).revoked
BY DEF TypeOK, Revoked, RefreshRow

LEMMA IssueKeepsInvariant ==
    ASSUME IInv, NEW u \in users, NEW session \in 1..(drawn.sessions + 1), NEW rows,
           Revoking(rows), MayCarryOn(u, session, rows),
           IssueTokenPair(u, session, rows),
           UNCHANGED <<users, blocklist, now, loggedOut, cut>>
    PROVE  IInv'
<1> DEFINE n == drawn.pairs + 1
<1>1. TypeOK
  BY DEF IInv
<1>n. n \in 1..MaxPairs /\ n \notin 1..drawn.pairs /\ 1..n = 1..drawn.pairs \cup {n}
  BY <1>1, Numbers DEF IssueTokenPair, Pairs
<1>2. /\ drawn'.pairs = n
      /\ drawn'.sessions \in drawn.sessions..(drawn.sessions + 1)
      /\ session <= drawn'.sessions
      /\ drawn'.sessions <= n
      /\ drawn' \in [pairs : 0..MaxPairs, sessions : 0..MaxPairs]
  BY <1>1, <1>n, Numbers DEF IssueTokenPair, TypeOK
<1>3. /\ DOMAIN refreshTokens' = 1..n
      /\ \A r \in 1..drawn.pairs : refreshTokens'[r] = rows[r]
      /\ refreshTokens'[n] = RefreshRecord(u, session)
  BY <1>1, <1>n DEF IssueTokenPair, Put, TypeOK, Revoking
<1>4. /\ DOMAIN accessTokens' = 1..n
      /\ \A a \in 1..drawn.pairs : accessTokens'[a] = accessTokens[a]
      /\ accessTokens'[n] = SignToken(u)
  BY <1>1, <1>n DEF IssueTokenPair, Put, TypeOK
<1>5. /\ RefreshRecord(u, session) \in RefreshRow
      /\ RefreshRecord(u, session).userId = u
      /\ RefreshRecord(u, session).session = session
  BY <1>1, <1>n, <1>2, Numbers DEF RefreshRecord, RefreshRow, TypeOK, Pairs
<1>6. /\ SignToken(u) \in AccessPayload
      /\ SignToken(u).userId = u
      /\ 2 * SignToken(u).exp <= now + 2 * AccessSeconds
  <2>1. 2 * ((now \div 2) + AccessSeconds) <= now + 2 * AccessSeconds
    BY <1>1, Numbers
  <2>2. (now \div 2) + AccessSeconds \in Nat
    BY <1>1, Numbers
  <2>3. QED
    BY <1>1, <2>1, <2>2 DEF SignToken, AccessPayload, TypeOK
<1>old. DOMAIN refreshTokens = 1..drawn.pairs /\ DOMAIN accessTokens = 1..drawn.pairs
  BY <1>1 DEF TypeOK
<1>7. TypeOK'
  <2>1. \A k \in 1..drawn'.pairs :
           /\ refreshTokens'[k] \in RefreshRow
           /\ refreshTokens'[k].session <= drawn'.sessions
           /\ accessTokens'[k] \in AccessPayload
           /\ accessTokens'[k].userId = refreshTokens'[k].userId
    <3> SUFFICES ASSUME NEW k \in 1..n
                 PROVE  /\ refreshTokens'[k] \in RefreshRow
                        /\ refreshTokens'[k].session <= drawn'.sessions
                        /\ accessTokens'[k] \in AccessPayload
                        /\ accessTokens'[k].userId = refreshTokens'[k].userId
      BY <1>2
    <3>1. CASE k = n
      BY <3>1, <1>2, <1>3, <1>4, <1>5, <1>6
    <3>2. CASE k \in 1..drawn.pairs
      <4>1. rows[k] \in RefreshRow /\ rows[k].userId = refreshTokens[k].userId
            /\ rows[k].session = refreshTokens[k].session
        BY <3>2, <1>old DEF Revoking
      <4>2. refreshTokens[k].session <= drawn.sessions /\ rows[k].session \in Nat
        BY <3>2, <1>1, <4>1 DEF TypeOK, RefreshRow, Pairs
      <4>3. rows[k].session <= drawn'.sessions
        BY <4>1, <4>2, <1>2, <1>1, Numbers
      <4>4. QED
        BY <3>2, <4>1, <4>3, <1>1, <1>3, <1>4 DEF TypeOK
    <3>3. QED
      BY <1>n, <3>1, <3>2
  <2>2. loggedOut' \subseteq 1..drawn'.pairs
    BY <1>1, <1>2, <1>n DEF TypeOK
  <2>3. \A v \in DOMAIN cut' : cut'[v] \in [at : 0..now', upTo : 0..drawn'.pairs]
    BY <1>1, <1>2, Numbers DEF TypeOK
  <2>4. QED
    BY <1>1, <1>2, <1>3, <1>4, <2>1, <2>2, <2>3 DEF TypeOK
<1>8. Rotation'
  <2> SUFFICES ASSUME NEW r \in 1..n, NEW s \in 1..n,
                      refreshTokens'[r].session = refreshTokens'[s].session
               PROVE  /\ refreshTokens'[r].userId = refreshTokens'[s].userId
                      /\ ~refreshTokens'[r].revoked /\ ~refreshTokens'[s].revoked
                            => r = s
    BY <1>3 DEF Rotation
  <2>1. CASE r = n /\ s = n
    BY <2>1
  <2>2. CASE r = n /\ s # n
    <3>1. s \in DOMAIN refreshTokens /\ refreshTokens'[s] = rows[s]
      BY <2>2, <1>n, <1>old, <1>3
    <3>2. QED
      BY <2>2, <3>1, <1>3, <1>5 DEF Revoking, MayCarryOn
  <2>3. CASE r # n /\ s = n
    <3>1. r \in DOMAIN refreshTokens /\ refreshTokens'[r] = rows[r]
      BY <2>3, <1>n, <1>old, <1>3
    <3>2. QED
      BY <2>3, <3>1, <1>3, <1>5 DEF Revoking, MayCarryOn
  <2>4. CASE r # n /\ s # n
    <3>1. /\ r \in DOMAIN refreshTokens /\ refreshTokens'[r] = rows[r]
          /\ s \in DOMAIN refreshTokens /\ refreshTokens'[s] = rows[s]
      BY <2>4, <1>n, <1>old, <1>3
    <3>2. QED
      BY <3>1 DEF Revoking, IInv, Rotation
  <2>5. QED
    BY <2>1, <2>2, <2>3, <2>4
<1>9. Blocked'
  BY <1>1, <1>4 DEF IInv, TypeOK, Blocked
<1>10. Lifetimes'
  BY <1>4, <1>6, <1>n, <1>old DEF IInv, Lifetimes
<1>11. CutsHold'
  <2> SUFFICES ASSUME NEW v \in DOMAIN cut PROVE CutHolds(v)'
    BY DEF CutsHold
  <2>1. CutHolds(v) /\ cut[v].upTo \in 0..drawn.pairs
    BY <1>1 DEF IInv, CutsHold, TypeOK
  <2>2. ~(n <= cut[v].upTo)
    BY <2>1, <1>1, Numbers
  <2>3. \A k \in DOMAIN refreshTokens :
           /\ refreshTokens'[k].userId = refreshTokens[k].userId
           /\ refreshTokens[k].revoked => refreshTokens'[k].revoked
           /\ accessTokens'[k] = accessTokens[k]
    BY <1>3, <1>4, <1>old DEF Revoking
  <2>4. DOMAIN refreshTokens' = DOMAIN refreshTokens \cup {n}
    BY <1>3, <1>n, <1>old
  <2>5. refreshTokens'[n].userId = u
    BY <1>3, <1>5
  <2>6. QED
    BY <2>1, <2>2, <2>3, <2>4, <2>5 DEF CutHolds
<1>12. QED
  BY <1>7, <1>8, <1>9, <1>10, <1>11 DEF IInv

LEMMA LoginKeepsInvariant ==
    ASSUME IInv, NEW u \in users, Login(u)
    PROVE  IInv'
<1>1. TypeOK /\ drawn.sessions + 1 \in 1..(drawn.sessions + 1)
  BY Numbers DEF IInv
<1>2. Revoking(refreshTokens)
  BY <1>1 DEF Revoking, TypeOK
<1>3. MayCarryOn(u, drawn.sessions + 1, refreshTokens)
  BY <1>1, Numbers DEF MayCarryOn, TypeOK, RefreshRow, Pairs
<1>4. QED
  BY <1>1, <1>2, <1>3, IssueKeepsInvariant DEF Login

LEMMA RefreshKeepsInvariant ==
    ASSUME IInv, NEW r \in DOMAIN refreshTokens, Refresh(r)
    PROVE  IInv'
<1> DEFINE u == refreshTokens[r].userId
           session == refreshTokens[r].session
           rows == Put(refreshTokens, r, Revoked(r))
<1>1. TypeOK
  BY DEF IInv
<1>2. u \in users /\ ~refreshTokens[r].revoked
  BY DEF Refresh, Usable, FindValid
<1>3. session \in 1..(drawn.sessions + 1)
  BY <1>1, Numbers DEF TypeOK, RefreshRow, Pairs
<1>4. DOMAIN rows = DOMAIN refreshTokens
      /\ \A k \in DOMAIN rows :
            rows[k] = IF k = r THEN Revoked(r) ELSE refreshTokens[k]
  BY DEF Put
<1>5. Revoking(rows)
  BY <1>1, <1>4, RevokedRow DEF Revoking, TypeOK
<1>6. MayCarryOn(u, session, rows)
  BY <1>1, <1>2, <1>4, RevokedRow DEF MayCarryOn, IInv, Rotation
<1>7. IssueTokenPair(u, session, rows)
      /\ UNCHANGED <<users, blocklist, now, loggedOut, cut>>
  BY DEF Refresh
<1> HIDE DEF u, session, rows
<1>8. QED
  BY <1>2, <1>3, <1>5, <1>6, <1>7, IssueKeepsInvariant

-----------------------------------------------------------------------------
(* Ending                                                                    *)

\* Everything but the cuts, when somebody logs out with a.
LEMMA LogoutKeepsRows ==
    ASSUME IInv, NEW a \in DOMAIN accessTokens, Block(a),
           Revoking(refreshTokens'),
           UNCHANGED <<users, accessTokens, now, drawn>>
    PROVE  /\ Rotation' /\ Blocked' /\ Lifetimes'
           /\ \A v \in Users : cut' = cut \/ cut' = Put(cut, v, [at |-> now, upTo |-> drawn.pairs])
                 => TypeOK'
<1>1. TypeOK
  BY DEF IInv
<1>2. Rotation'
  BY DEF IInv, Rotation, Revoking
<1>3. a \in 1..drawn.pairs /\ accessTokens[a].exp \in Nat
  BY <1>1 DEF TypeOK, AccessPayload
<1>4. /\ DOMAIN blocklist' = DOMAIN blocklist \cup {a}
      /\ \A b \in DOMAIN blocklist' :
            blocklist'[b] = IF b = a THEN 2 * accessTokens[a].exp ELSE blocklist[b]
      /\ loggedOut' = loggedOut \cup {a}
  BY DEF Block, Put
<1>5. Blocked'
  BY <1>1, <1>4 DEF IInv, TypeOK, Blocked
<1>6. Lifetimes'
  BY DEF IInv, Lifetimes
<1>7. ASSUME NEW v \in Users,
             cut' = cut \/ cut' = Put(cut, v, [at |-> now, upTo |-> drawn.pairs])
      PROVE  TypeOK'
  <2>1. \A b \in DOMAIN blocklist' : blocklist'[b] \in Nat
    BY <1>1, <1>3, <1>4 DEF TypeOK
  <2>2. /\ DOMAIN cut' \subseteq Users
        /\ \A w \in DOMAIN cut' : cut'[w] \in [at : 0..now, upTo : 0..drawn.pairs]
    BY <1>1, <1>7, Numbers DEF TypeOK, Put
  <2>3. /\ DOMAIN refreshTokens' = 1..drawn.pairs
        /\ \A n \in 1..drawn.pairs :
              /\ refreshTokens'[n] \in RefreshRow
              /\ refreshTokens'[n].session <= drawn.sessions
              /\ accessTokens[n].userId = refreshTokens'[n].userId
    BY <1>1 DEF TypeOK, Revoking
  <2>4. QED
    BY <1>1, <1>3, <1>4, <2>1, <2>2, <2>3 DEF TypeOK
<1>8. QED
  BY <1>2, <1>5, <1>6, <1>7

LEMMA LogoutKeepsInvariant ==
    ASSUME IInv, NEW a \in DOMAIN accessTokens, NEW R, Logout(a, R)
    PROVE  IInv'
<1>1. TypeOK /\ accessTokens[a].userId \in Users
  BY DEF IInv, TypeOK, AccessPayload
<1>2. Revoking(refreshTokens')
  BY <1>1, RevokedRow DEF Logout, Revoking, TypeOK
<1>3. TypeOK' /\ Rotation' /\ Blocked' /\ Lifetimes'
  BY <1>1, <1>2, LogoutKeepsRows DEF Logout
<1>4. CutsHold'
  BY <1>2 DEF IInv, CutsHold, CutHolds, Revoking, Logout
<1>5. QED
  BY <1>3, <1>4 DEF IInv

LEMMA LogoutEverywhereKeepsInvariant ==
    ASSUME IInv, NEW a \in DOMAIN accessTokens, LogoutEverywhere(a)
    PROVE  IInv'
<1> DEFINE u == accessTokens[a].userId
           c == [at |-> now, upTo |-> drawn.pairs]
<1>1. TypeOK /\ u \in Users
  BY DEF IInv, TypeOK, AccessPayload
<1>2. /\ DOMAIN refreshTokens' = DOMAIN refreshTokens
      /\ \A r \in DOMAIN refreshTokens :
            refreshTokens'[r] = IF refreshTokens[r].userId = u
                                THEN Revoked(r) ELSE refreshTokens[r]
  BY DEF LogoutEverywhere
<1>3. Revoking(refreshTokens')
  BY <1>1, <1>2, RevokedRow DEF Revoking, TypeOK
<1>4. cut' = IF u \in users THEN Put(cut, u, c) ELSE cut
  BY DEF LogoutEverywhere, CutOff
<1>5. TypeOK' /\ Rotation' /\ Blocked' /\ Lifetimes'
  BY <1>1, <1>3, <1>4, LogoutKeepsRows DEF LogoutEverywhere
<1>6. UNCHANGED <<users, accessTokens, now, drawn>>
  BY DEF LogoutEverywhere
<1>7. CutsHold'
  <2> SUFFICES ASSUME NEW v \in DOMAIN cut' PROVE CutHolds(v)'
    BY DEF CutsHold
  <2>1. CASE v = u /\ u \in users
    <3>1. cut'[v] = c
      BY <2>1, <1>4 DEF Put
    <3>2. \A r \in DOMAIN refreshTokens' :
             refreshTokens'[r].userId = u => refreshTokens'[r].revoked
      BY <1>1, <1>2, RevokedRow
    <3>3. \A r \in DOMAIN refreshTokens' :
             2 * accessTokens'[r].exp <= now + 2 * AccessSeconds
      BY <1>2, <1>6, <1>1 DEF IInv, Lifetimes, TypeOK
    <3>4. QED
      BY <2>1, <3>1, <3>2, <3>3, <1>6 DEF CutHolds
  <2>2. CASE ~(v = u /\ u \in users)
    <3>1. v \in DOMAIN cut /\ cut'[v] = cut[v]
      BY <2>2, <1>4 DEF Put
    <3>2. QED
      BY <3>1, <1>3, <1>6 DEF IInv, CutsHold, CutHolds, Revoking
  <2>3. QED
    BY <2>1, <2>2
<1>8. QED
  BY <1>5, <1>7 DEF IInv

LEMMA RemoveUserKeepsInvariant ==
    ASSUME IInv, NEW u \in users, RemoveUser(u)
    PROVE  IInv'
<1> DEFINE c == [at |-> now, upTo |-> drawn.pairs]
<1>1. TypeOK /\ u \in Users
  BY DEF IInv, TypeOK
<1>2. /\ users' = users \ {u} /\ cut' = Put(cut, u, c)
      /\ UNCHANGED <<refreshTokens, accessTokens, blocklist, now, drawn, loggedOut>>
  BY DEF RemoveUser, CutOff
<1>3. TypeOK'
  <2>1. /\ DOMAIN cut' \subseteq Users
        /\ \A w \in DOMAIN cut' : cut'[w] \in [at : 0..now, upTo : 0..drawn.pairs]
    BY <1>1, <1>2, Numbers DEF TypeOK, Put
  <2>2. QED
    BY <1>1, <1>2, <2>1 DEF TypeOK
<1>4. Rotation' /\ Blocked' /\ Lifetimes'
  BY <1>2 DEF IInv, Rotation, Blocked, Lifetimes
<1>5. CutsHold'
  <2> SUFFICES ASSUME NEW v \in DOMAIN cut' PROVE CutHolds(v)'
    BY DEF CutsHold
  <2>1. CASE v = u
    <3>1. cut'[v] = c /\ u \notin users'
      BY <2>1, <1>2 DEF Put
    <3>2. \A r \in DOMAIN refreshTokens :
             /\ r <= drawn.pairs
             /\ 2 * accessTokens[r].exp <= now + 2 * AccessSeconds
      BY <1>1, Numbers DEF IInv, Lifetimes, TypeOK
    <3>3. QED
      BY <2>1, <3>1, <3>2, <1>2 DEF CutHolds
  <2>2. CASE v # u
    <3>1. v \in DOMAIN cut /\ cut'[v] = cut[v] /\ (v \in users' <=> v \in users)
      BY <2>2, <1>2 DEF Put
    <3>2. QED
      BY <3>1, <1>2 DEF IInv, CutsHold, CutHolds
  <2>3. QED
    BY <2>1, <2>2
<1>6. QED
  BY <1>3, <1>4, <1>5 DEF IInv

LEMMA TickKeepsInvariant ==
    ASSUME IInv, Tick
    PROVE  IInv'
<1>1. TypeOK
  BY DEF IInv
<1>2. now' = now + 1 /\ now' \in 0..MaxTime
  BY <1>1, Numbers DEF Tick, TypeOK
<1>3. TypeOK'
  <2>1. \A u \in DOMAIN cut : cut[u] \in [at : 0..now', upTo : 0..drawn.pairs]
    BY <1>1, <1>2, Numbers DEF TypeOK
  <2>2. QED
    BY <1>1, <1>2, <2>1 DEF TypeOK, Tick
<1>4. Lifetimes'
  <2> SUFFICES ASSUME NEW n \in DOMAIN accessTokens
               PROVE  2 * accessTokens[n].exp <= now' + 2 * AccessSeconds
    BY DEF Lifetimes, Tick
  <2>1. accessTokens[n].exp \in Nat
    BY <1>1 DEF TypeOK, AccessPayload
  <2>2. QED
    BY <1>1, <1>2, <2>1, Numbers DEF IInv, Lifetimes
<1>5. Rotation' /\ Blocked' /\ CutsHold'
  BY DEF IInv, Rotation, Blocked, CutsHold, CutHolds, Tick
<1>6. QED
  BY <1>3, <1>4, <1>5 DEF IInv

LEMMA InvariantStep == IInv /\ [Next]_vars => IInv'
<1> SUFFICES ASSUME IInv, [Next]_vars PROVE IInv'
  OBVIOUS
<1>1. CASE UNCHANGED vars
  BY <1>1
  DEF vars, IInv, TypeOK, Rotation, Blocked, Lifetimes, CutsHold, CutHolds
<1>2. CASE Next
  BY <1>2, LoginKeepsInvariant, RefreshKeepsInvariant, LogoutKeepsInvariant,
     LogoutEverywhereKeepsInvariant, RemoveUserKeepsInvariant, TickKeepsInvariant
  DEF Next
<1>3. QED
  BY <1>1, <1>2

THEOREM InvariantHolds == Spec => []IInv
<1>1. QED
  BY InvariantInit, InvariantStep, PTL DEF Spec

-----------------------------------------------------------------------------
(* Theorems                                                                  *)

\* Every token ever issued keeps the shape the code gives it, and the two
\* tokens of a pair stay one user's.
THEOREM TypeCorrect == Spec => []TypeOK
<1>1. QED
  BY InvariantHolds, PTL DEF IInv

\* Rotation leaves one good refresh token per session, whatever is presented
\* again (refreshAccessToken).
THEOREM OneGoodToken == Spec => []OneGoodTokenPerSession
<1>1. QED
  BY InvariantHolds, InvariantImplies, PTL

\* Logging out ends an access token at once and for good, for every lifetime
\* and at every boundary between seconds (TokenBlocklist, requireAuth).
THEOREM LoggedOutStayOut == Spec => []LoggedOutTokensStayOut
<1>1. QED
  BY InvariantHolds, InvariantImplies, PTL

\* Logging out everywhere and being removed end all of a user's sessions, but
\* for access tokens on other devices, which outlive it by one lifetime at most.
THEOREM CutsAreFinal == Spec => []CutIsFinal
<1>1. QED
  BY InvariantHolds, InvariantImplies, PTL

-----------------------------------------------------------------------------
(* The tokens implement LiveSessions                                         *)

\* Time, removals and revocations can only end sessions.
LEMMA EndingEnds ==
    ASSUME IInv,
           DOMAIN refreshTokens' = DOMAIN refreshTokens,
           \A r \in DOMAIN refreshTokens :
              refreshTokens'[r] = refreshTokens[r] \/ refreshTokens'[r] = Revoked(r),
           users' \subseteq users, now' \in Nat, now <= now',
           drawn' = drawn
    PROVE  Promised!Next
<1>1. TypeOK
  BY DEF IInv
<1>2. ASSUME NEW r \in Usable'
      PROVE  r \in Usable /\ refreshTokens'[r] = refreshTokens[r]
  <2>1. r \in DOMAIN refreshTokens /\ ~refreshTokens'[r].revoked
        /\ now' <= refreshTokens'[r].expiresAt /\ refreshTokens'[r].userId \in users'
    BY <1>2 DEF Usable, FindValid
  <2>2. refreshTokens'[r] = refreshTokens[r]
    BY <1>1, <2>1, RevokedRow
  <2>3. refreshTokens[r].expiresAt \in Nat /\ now \in Nat
    BY <1>1, <2>1 DEF TypeOK, RefreshRow
  <2>4. QED
    BY <2>1, <2>2, <2>3 DEF Usable, FindValid
<1>3. live' \subseteq live
  BY <1>2 DEF live
<1>4. QED
  BY <1>3 DEF Promised!Next, Promised!End

LEMMA RefreshContinues ==
    ASSUME IInv, NEW r \in DOMAIN refreshTokens, Refresh(r)
    PROVE  Promised!Next
<1> DEFINE n == drawn.pairs + 1
           new == RefreshRecord(refreshTokens[r].userId, refreshTokens[r].session)
<1>1. TypeOK
  BY DEF IInv
<1>2. /\ r \in Usable
      /\ refreshTokens' = Put(Put(refreshTokens, r, Revoked(r)), n, new)
      /\ drawn'.sessions = drawn.sessions
      /\ users' = users /\ now' = now
  BY <1>1, Numbers DEF Refresh, IssueTokenPair, TypeOK, RefreshRow, Pairs
<1>3. /\ new.session = refreshTokens[r].session
      /\ new.userId = refreshTokens[r].userId
  BY DEF RefreshRecord
<1>4. ASSUME NEW q \in Usable'
      PROVE  \E p \in Usable :
                /\ refreshTokens'[q].session = refreshTokens[p].session
                /\ refreshTokens'[q].userId = refreshTokens[p].userId
  <2>1. CASE q = n
    BY <1>2, <1>3, <2>1 DEF Put
  <2>2. CASE q # n
    <3>1. q \in DOMAIN refreshTokens
          /\ refreshTokens'[q] = IF q = r THEN Revoked(r) ELSE refreshTokens[q]
      BY <1>2, <1>4, <2>2 DEF Usable, Put
    <3>2. ~refreshTokens'[q].revoked
      BY <1>4 DEF Usable, FindValid
    <3>3. refreshTokens'[q] = refreshTokens[q]
      BY <1>1, <3>1, <3>2, RevokedRow
    <3>4. q \in Usable
      BY <1>2, <1>4, <3>1, <3>3 DEF Usable, FindValid
    <3>5. QED
      BY <3>3, <3>4
  <2>3. QED
    BY <2>1, <2>2
<1>5. live' \subseteq live
  BY <1>4 DEF live
<1>6. QED
  BY <1>2, <1>5 DEF Promised!Next, Promised!End

LEMMA LoginStarts ==
    ASSUME IInv, NEW u \in users, Login(u)
    PROVE  Promised!Next
<1> DEFINE n == drawn.pairs + 1
           s == drawn.sessions + 1
           new == RefreshRecord(u, s)
<1>1. TypeOK /\ u \in Users
  BY DEF IInv, TypeOK
<1>2. /\ refreshTokens' = Put(refreshTokens, n, new)
      /\ drawn'.sessions = s
      /\ users' = users /\ now' = now
      /\ n \notin DOMAIN refreshTokens
  BY <1>1, Numbers DEF Login, IssueTokenPair, TypeOK
<1>3. /\ new.session = s /\ new.userId = u
      /\ ~new.revoked /\ now <= new.expiresAt
  BY <1>1, Numbers DEF RefreshRecord
<1>4. \A q \in DOMAIN refreshTokens : refreshTokens'[q] = refreshTokens[q]
  BY <1>2 DEF Put
<1>5. DOMAIN refreshTokens' = DOMAIN refreshTokens \cup {n} /\ refreshTokens'[n] = new
  BY <1>2 DEF Put
<1>6. Usable' = Usable \cup {n}
  BY <1>2, <1>3, <1>4, <1>5 DEF Usable, FindValid
<1>7. Usable \subseteq DOMAIN refreshTokens
  BY DEF Usable
<1>8. live' = live \cup {<<s, u>>}
  BY <1>3, <1>4, <1>5, <1>6, <1>7 DEF live
<1>9. QED
  BY <1>1, <1>2, <1>8 DEF Promised!Next, Promised!Start

\* What ended stays ended, and a session is only ever continued for its own
\* user: tokens, rotation and expiry implement the promise of LiveSessions.
THEOREM TokensKeepThePromise == Spec => SessionsStayEnded
<1>1. Init => Promised!Init
  BY DEF Init, Promised!Init, live, Usable
<1>2. IInv /\ [Next]_vars => [Promised!Next]_<<live, drawn.sessions>>
  <2> SUFFICES ASSUME IInv, [Next]_vars
               PROVE  Promised!Next \/ UNCHANGED <<live, drawn.sessions>>
    OBVIOUS
  <2>1. CASE UNCHANGED vars
    BY <2>1 DEF vars, live, Usable, FindValid
  <2>2. TypeOK /\ now \in Nat
    BY Numbers DEF IInv
  <2>3. ASSUME NEW a \in DOMAIN accessTokens, NEW R, Logout(a, R)
        PROVE  Promised!Next
    BY <2>2, <2>3, EndingEnds DEF Logout
  <2>4. ASSUME NEW a \in DOMAIN accessTokens, LogoutEverywhere(a)
        PROVE  Promised!Next
    BY <2>2, <2>4, EndingEnds DEF LogoutEverywhere
  <2>5. ASSUME NEW u \in users, RemoveUser(u)
        PROVE  Promised!Next
    BY <2>2, <2>5, EndingEnds DEF RemoveUser
  <2>6. ASSUME Tick
        PROVE  Promised!Next
    BY <2>2, <2>6, EndingEnds DEF Tick
  <2>7. CASE Next
    BY <2>3, <2>4, <2>5, <2>6, <2>7, LoginStarts, RefreshContinues DEF Next
  <2>8. QED
    BY <2>1, <2>7
<1>3. QED
  BY <1>1, <1>2, InvariantHolds, PTL DEF Spec, SessionsStayEnded, Promised!Spec
=============================================================================

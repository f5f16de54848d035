------------------------------- MODULE Sessions -------------------------------
(***************************************************************************)
(* Logins, token pairs, their rotation, and logging out                    *)
(* (controllers/authController.js, models/RefreshToken.js, models/         *)
(* TokenBlocklist.js, middleware/auth.js, utils/jwt.js, routes/auth.js).   *)
(*                                                                         *)
(* Access tokens are signed and kept by the clients alone; the server      *)
(* knows only those it has blocklisted.  Refresh tokens are rows.  Every   *)
(* token ever issued may be presented at any time: by its owner, after a   *)
(* lost response, from another tab.                                        *)
(*                                                                         *)
(* The clock counts half seconds: a JWT's times are whole seconds, rounded *)
(* down, while rows keep milliseconds.  Tokens that a platform admin       *)
(* issues to impersonate a tenant are left out.                            *)
(*                                                                         *)
(* A definition named ...Fault is the definition that follows it with a    *)
(* plausible mistake in it, which the properties are expected to notice.   *)
(***************************************************************************)
EXTENDS Naturals, Maps

CONSTANTS
    Users,          \* everyone who has a user row
    AccessSeconds,  \* JWT_EXPIRES_IN
    RefreshTime,    \* REFRESH_TOKEN_EXPIRES_IN, in half seconds
    MaxPairs,       \* bound: token pairs issued
    MaxTime         \* bound: the last instant of the clock

ASSUME SessionsConstants == {AccessSeconds, RefreshTime, MaxPairs, MaxTime} \subseteq Nat

VARIABLES
    users,          \* store.users
    refreshTokens,  \* store.refreshTokens: pair -> row
    accessTokens,   \* the JWTs issued: pair -> payload
    blocklist,      \* store.tokenBlocklist: pair -> expiresAt
    now,            \* the server's clock
    drawn,          \* history: how many pairs and sessions there have been
    loggedOut,      \* history: the access tokens somebody logged out with
    cut             \* history: user -> when all sessions were last ended, and
                    \* the last pair issued until then

vars == <<users, refreshTokens, accessTokens, blocklist, now, drawn, loggedOut, cut>>

-----------------------------------------------------------------------------
(* Tokens                                                                    *)

Pairs == 1..MaxPairs

\* The two tokens of a pair have one number; `session` is history: the login
\* the pair comes from.
RefreshRow ==
    [userId : Users, expiresAt : Nat, revoked : BOOLEAN, session : Pairs]

AccessPayload == [userId : Users, exp : Nat]

\* RefreshToken.findValid
FindValid(r) == ~refreshTokens[r].revoked /\ now <= refreshTokens[r].expiresAt

\* A token that refreshAccessToken would exchange.
Usable == {r \in DOMAIN refreshTokens :
             FindValid(r) /\ refreshTokens[r].userId \in users}

\* jwt.verify compares whole seconds.
VerifyToken(a) == now \div 2 < accessTokens[a].exp

\* TokenBlocklist.isRevoked.  It forgets an entry whose time has passed, which
\* no token that was verified before can have.
IsRevoked(a) == a \in DOMAIN blocklist /\ now <= blocklist[a]

\* requireAuth
Accepted(a) == VerifyToken(a) /\ ~IsRevoked(a)

Revoked(r) == [refreshTokens[r] EXCEPT !.revoked = TRUE]

-----------------------------------------------------------------------------
(* Issuing                                                                   *)

RefreshRecordFault(u, session) ==   \* the arguments change places
    [userId |-> session, expiresAt |-> now + RefreshTime, revoked |-> FALSE,
     session |-> u]

RefreshRecord(u, session) ==
    [userId |-> u, expiresAt |-> now + RefreshTime, revoked |-> FALSE,
     session |-> session]

SignToken(u) == [userId |-> u, exp |-> (now \div 2) + AccessSeconds]

\* issueTokenPair, next to the refresh tokens that are there already.
IssueTokenPair(u, session, others) ==
    LET n == drawn.pairs + 1 IN
    /\ n \in Pairs
    /\ refreshTokens' = Put(others, n, RefreshRecord(u, session))
    /\ accessTokens' = Put(accessTokens, n, SignToken(u))
    /\ drawn' = [pairs |-> n, sessions |-> IF session > drawn.sessions
                                           THEN session ELSE drawn.sessions]

Login(u) ==
    /\ IssueTokenPair(u, drawn.sessions + 1, refreshTokens)
    /\ UNCHANGED <<users, blocklist, now, loggedOut, cut>>

RefreshUnrotatedFault(r) ==   \* the exchanged token stays valid
    /\ r \in Usable
    /\ IssueTokenPair(refreshTokens[r].userId, refreshTokens[r].session,
                      refreshTokens)
    /\ UNCHANGED <<users, blocklist, now, loggedOut, cut>>

RefreshFault(r) ==   \* the user is not looked up again
    /\ FindValid(r)
    /\ IssueTokenPair(refreshTokens[r].userId, refreshTokens[r].session,
                      Put(refreshTokens, r, Revoked(r)))
    /\ UNCHANGED <<users, blocklist, now, loggedOut, cut>>

RefreshRetryFault(r) ==   \* a revoked token is good for a retry
    /\ now <= refreshTokens[r].expiresAt
    /\ refreshTokens[r].userId \in users
    /\ IssueTokenPair(refreshTokens[r].userId, refreshTokens[r].session,
                      Put(refreshTokens, r, Revoked(r)))
    /\ UNCHANGED <<users, blocklist, now, loggedOut, cut>>

\* refreshAccessToken: the old token is rotated out.
Refresh(r) ==
    /\ r \in Usable
    /\ IssueTokenPair(refreshTokens[r].userId, refreshTokens[r].session,
                      Put(refreshTokens, r, Revoked(r)))
    /\ UNCHANGED <<users, blocklist, now, loggedOut, cut>>

-----------------------------------------------------------------------------
(* Ending                                                                    *)

BlockFault(a) ==   \* seconds taken for milliseconds
    /\ blocklist' = Put(blocklist, a, accessTokens[a].exp)
    /\ loggedOut' = loggedOut \cup {a}

\* TokenBlocklist.revoke, with the seconds of `exp` as a time.
Block(a) ==
    /\ blocklist' = Put(blocklist, a, 2 * accessTokens[a].exp)
    /\ loggedOut' = loggedOut \cup {a}

\* Whoever's the refresh tokens in R are: the one that was sent, or none.
Logout(a, R) ==
    /\ Accepted(a)
    /\ Block(a)
    /\ refreshTokens' = [r \in DOMAIN refreshTokens |->
                           IF r \in R THEN Revoked(r) ELSE refreshTokens[r]]
    /\ UNCHANGED <<users, accessTokens, now, drawn, cut>>

\* History.  Whoever is removed was cut off then, and stays so.
CutOff(u) ==
    cut' = IF u \in users THEN Put(cut, u, [at |-> now, upTo |-> drawn.pairs])
                          ELSE cut

LogoutEverywhereFault(a) ==   \* only the tokens of the session at hand
    /\ Accepted(a)
    /\ Block(a)
    /\ refreshTokens' = [r \in DOMAIN refreshTokens |->
                           IF refreshTokens[r].session = refreshTokens[a].session
                           THEN Revoked(r) ELSE refreshTokens[r]]
    /\ CutOff(accessTokens[a].userId)
    /\ UNCHANGED <<users, accessTokens, now, drawn>>

\* RefreshToken.revokeAllForUser; no other access token is blocklisted.
LogoutEverywhere(a) ==
    /\ Accepted(a)
    /\ Block(a)
    /\ refreshTokens' = [r \in DOMAIN refreshTokens |->
                           IF refreshTokens[r].userId = accessTokens[a].userId
                           THEN Revoked(r) ELSE refreshTokens[r]]
    /\ CutOff(accessTokens[a].userId)
    /\ UNCHANGED <<users, accessTokens, now, drawn>>

\* User.delete: the tokens stay.
RemoveUser(u) ==
    /\ users' = users \ {u}
    /\ CutOff(u)
    /\ UNCHANGED <<refreshTokens, accessTokens, blocklist, now, drawn, loggedOut>>

Tick ==
    /\ now < MaxTime
    /\ now' = now + 1
    /\ UNCHANGED <<users, refreshTokens, accessTokens, blocklist, drawn,
                   loggedOut, cut>>

-----------------------------------------------------------------------------
Init ==
    /\ users = Users
    /\ refreshTokens = << >>
    /\ accessTokens = << >>
    /\ blocklist = << >>
    /\ now = 0
    /\ drawn = [pairs |-> 0, sessions |-> 0]
    /\ loggedOut = {}
    /\ cut = << >>

Next ==
    \/ \E u \in users : Login(u) \/ RemoveUser(u)
    \/ \E r \in DOMAIN refreshTokens : Refresh(r)
    \/ \E a \in DOMAIN accessTokens :
          \/ \E r \in DOMAIN refreshTokens : Logout(a, {r})
          \/ Logout(a, {})
          \/ LogoutEverywhere(a)
    \/ Tick

Spec == Init /\ [][Next]_vars

-----------------------------------------------------------------------------
(* Properties                                                                *)

\* Tokens have the shape the code gives them (RefreshToken.create, signToken),
\* and the two tokens of a pair belong to one user.
TypeOK ==
    /\ users \subseteq Users
    /\ now \in 0..MaxTime
    /\ drawn \in [pairs : 0..MaxPairs, sessions : 0..MaxPairs]
    /\ drawn.sessions <= drawn.pairs
    /\ DOMAIN refreshTokens = 1..drawn.pairs
    /\ DOMAIN accessTokens = 1..drawn.pairs
    /\ \A n \in 1..drawn.pairs :
          /\ refreshTokens[n] \in RefreshRow
          /\ refreshTokens[n].session <= drawn.sessions
          /\ accessTokens[n] \in AccessPayload
          /\ accessTokens[n].userId = refreshTokens[n].userId
    /\ DOMAIN blocklist = loggedOut
    /\ \A a \in DOMAIN blocklist : blocklist[a] \in Nat
    /\ loggedOut \subseteq 1..drawn.pairs
    /\ DOMAIN cut \subseteq Users
    /\ \A u \in DOMAIN cut : cut[u] \in [at : 0..now, upTo : 0..drawn.pairs]

\* However often a session is refreshed, and whichever of its tokens are
\* presented again, at most one of its refresh tokens is good (rotation in
\* refreshAccessToken).
OneGoodTokenPerSession ==
    \A r, s \in Usable :
       refreshTokens[r].session = refreshTokens[s].session => r = s

\* Nobody gets in again with an access token that was logged out, also in the
\* second in which the token and its blocklist entry expire (requireAuth,
\* TokenBlocklist.isRevoked).
LoggedOutTokensStayOut == \A a \in loggedOut : ~Accepted(a)

\* The pairs that were to stop working when u was last cut off: those issued
\* until then, and after a removal whatever was issued later.
CutPairs(u) ==
    {n \in DOMAIN refreshTokens :
       /\ refreshTokens[n].userId = u
       /\ n <= cut[u].upTo \/ u \notin users}

\* Logging out everywhere, and being removed, end every session: no refresh
\* token of it can be used, and its access tokens work for one lifetime more at
\* most (revokeAllForUser, User.delete, the lookup in refreshAccessToken).
CutIsFinal ==
    \A u \in DOMAIN cut : \A n \in CutPairs(u) :
       /\ n \notin Usable
       /\ Accepted(n) => now < cut[u].at + 2 * AccessSeconds

live == {<<refreshTokens[r].session, refreshTokens[r].userId>> : r \in Usable}

Promised == INSTANCE LiveSessions WITH live <- live, started <- drawn.sessions

\* The tokens keep the promise of LiveSessions: only a login starts a session,
\* refreshing continues it for the same user, and once it has ended, by a
\* logout, a removal or its time, no token brings it back.
SessionsStayEnded == Promised!Spec
=============================================================================

----------------------------- MODULE RateLimiter ------------------------------
(***************************************************************************)
(* The fixed-window rate limiter of the public routes and of the SMS       *)
(* webhooks (middleware/rateLimit.js; routes/publicEstimate.js,            *)
(* routes/smsWebhook.js): one limiter, the requests it counts, and the     *)
(* clock.  A key is a client's address.                                    *)
(*                                                                         *)
(* The specification is fair: time passes, and a client whose request was  *)
(* refused asks again.  The second is the client's doing, not the code's:  *)
(* providers repeat webhooks, and customers reload the page.               *)
(*                                                                         *)
(* A definition named ...Fault is the definition that follows it with a    *)
(* plausible mistake in it, which the properties are expected to notice.   *)
(***************************************************************************)
EXTENDS Naturals, Sequences, Maps

CONSTANTS
    Keys,           \* the clients
    Max, Window,    \* how many requests pass in a window, and its length
    MaxTime         \* bound: the last instant of the clock

ASSUME LimiterConstants ==
    /\ {Max, Window} \subseteq Nat \ {0}
    /\ MaxTime \in Nat

VARIABLES
    hits,       \* the Map: key -> the count of its window, and when that ends
    now,        \* Date.now()
    passed,     \* history: key -> when its requests passed, since the reset
    last        \* history: key -> what became of its last request, and when

vars == <<hits, now, passed, last>>

-----------------------------------------------------------------------------
EntryFault(k) ==   \* the window ends an instant early
    IF k \in DOMAIN hits /\ hits[k].resetAt > now + 1 THEN hits[k]
    ELSE [count |-> 0, resetAt |-> now + Window]

\* The window the request falls into: a new one if there is none, or it ended.
Entry(k) ==
    IF k \in DOMAIN hits /\ hits[k].resetAt > now THEN hits[k]
    ELSE [count |-> 0, resetAt |-> now + Window]

CountFault(k) ==   \* every request keeps the window open
    [count |-> IF Entry(k).count > Max THEN Max + 1 ELSE Entry(k).count + 1,
     resetAt |-> now + Window]

\* The window with this request in it.  A refused request counts too; beyond
\* Max + 1 the count is not told apart.
Count(k) ==
    [Entry(k) EXCEPT !.count = IF @ > Max THEN Max + 1 ELSE @ + 1]

ExceedsFault(entry) == entry.count >= Max   \* one request fewer

Exceeds(entry) == entry.count > Max

PassFault(k) ==   \* a window's first request is not stored
    /\ ~Exceeds(Count(k))
    /\ hits' = IF k \in DOMAIN hits THEN Put(hits, k, Count(k))
               ELSE Put(hits, k, [count |-> 0, resetAt |-> now + Window])
    /\ passed' = [passed EXCEPT ![k] = Append(@, now)]
    /\ last' = [last EXCEPT ![k] = [what |-> "passed", at |-> now]]

Pass(k) ==
    /\ ~Exceeds(Count(k))
    /\ hits' = Put(hits, k, Count(k))
    /\ passed' = [passed EXCEPT ![k] = Append(@, now)]
    /\ last' = [last EXCEPT ![k] = [what |-> "passed", at |-> now]]

\* 429, with the rest of the window as Retry-After.
Refuse(k) ==
    /\ Exceeds(Count(k))
    /\ hits' = Put(hits, k, Count(k))
    /\ last' = [last EXCEPT ![k] = [what |-> "refused", at |-> now]]
    /\ UNCHANGED passed

Request(k) == (Pass(k) \/ Refuse(k)) /\ UNCHANGED now

Nothing == [k \in Keys |-> << >>]
Unasked == [k \in Keys |-> [what |-> "none", at |-> 0]]

\* .reset() forgets every count.
Reset ==
    /\ hits' = << >>
    /\ passed' = Nothing
    /\ last' = Unasked
    /\ UNCHANGED now

Tick ==
    /\ now < MaxTime
    /\ now' = now + 1
    /\ UNCHANGED <<hits, passed, last>>

Init ==
    /\ hits = << >>
    /\ now = 0
    /\ passed = Nothing
    /\ last = Unasked

Next == (\E k \in Keys : Request(k)) \/ Reset \/ Tick

Fairness == WF_vars(Tick) /\ \A k \in Keys : WF_vars(Request(k))

Spec == Init /\ [][Next]_vars /\ Fairness

-----------------------------------------------------------------------------
(* Properties                                                                *)

\* Only keys that asked have an entry; it counts at least the request that
\* created it, and ends at most a window from now (hits in rateLimit.js).
TypeOK ==
    /\ DOMAIN hits \subseteq Keys
    /\ hits \in [DOMAIN hits -> [count : 1..Max + 1, resetAt : Window..now + Window]]
    /\ now \in 0..MaxTime
    /\ passed \in [Keys -> Seq(0..now)]
    /\ last \in [Keys -> [what : {"none", "passed", "refused"}, at : 0..now]]

\* A fixed window lets a burst through at each side of its end, but never more
\* than that: of any 2 * Max + 1 requests of one client that pass in a row, the
\* last comes more than a window's length after the first.
AtMostTwiceInAWindow ==
    \A k \in Keys : \A i, n \in DOMAIN passed[k] :
       n = i + 2 * Max => passed[k][n] > passed[k][i] + Window

\* Nobody is refused for nothing, or for what another client did: when a
\* request was refused, Max requests of the same client had passed less than a
\* window's length before it.
RefusedForCause ==
    \A k \in Keys :
       last[k].what = "refused" =>
          LET n == Len(passed[k]) IN
          n >= Max /\ passed[k][n - Max + 1] + Window > last[k].at

\* A client that was refused and keeps asking is let in again: being refused
\* does not prolong the wait (the count of a refused request, resetAt).
LetInAgain ==
    \A k \in Keys :
       last[k].what = "refused" /\ now + Window <= MaxTime
          ~> last[k].what = "passed"
===============================================================================

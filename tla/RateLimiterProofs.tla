--------------------------- MODULE RateLimiterProofs ---------------------------
(***************************************************************************)
(* RateLimiter, proved for any number of clients, any limit and any window *)
(* length: what a fixed window lets through, and whom it refuses.          *)
(***************************************************************************)
EXTENDS RateLimiter, SequenceTheorems, TLAPS

-----------------------------------------------------------------------------
(* The inductive invariant                                                   *)

Start(k) == hits[k].resetAt - Window

Counted(k) == IF hits[k].count > Max THEN Max ELSE hits[k].count

\* How many requests passed before the window of k's entry.
Before(k) == Len(passed[k]) - Counted(k)

\* The last requests of k that passed are those its entry counts, and they
\* passed in its window; the others passed before it, and all but the last Max
\* of these before the window in front of it.
Windowed(k) ==
    IF k \in DOMAIN hits
    THEN /\ Before(k) \in Nat
         /\ \A i \in 1..Before(k) :
               /\ passed[k][i] < Start(k)
               /\ i + Max <= Before(k) => passed[k][i] + Window < Start(k)
         /\ \A i \in (Before(k) + 1)..Len(passed[k]) :
               Start(k) <= passed[k][i] /\ passed[k][i] < hits[k].resetAt
    ELSE passed[k] = << >> /\ last[k].what # "refused"

\* The two invariants, for one client.
SpacedOut(k) ==
    \A i, n \in DOMAIN passed[k] :
       n = i + 2 * Max => passed[k][n] > passed[k][i] + Window

Caused(k) ==
    last[k].what = "refused" =>
       LET n == Len(passed[k]) IN
       n >= Max /\ passed[k][n - Max + 1] + Window > last[k].at

Row(k) == Windowed(k) /\ SpacedOut(k) /\ Caused(k)

IInv == TypeOK /\ \A k \in Keys : Row(k)

LEMMA Numbers ==
    ASSUME TypeOK
    PROVE  /\ Max \in Nat /\ Max > 0 /\ Window \in Nat /\ Window > 0
           /\ MaxTime \in Nat /\ now \in Nat
           /\ DOMAIN passed = Keys /\ DOMAIN last = Keys
           /\ \A k \in Keys : /\ passed[k] \in Seq(Nat)
                              /\ passed[k] \in Seq(0..now)
                              /\ Len(passed[k]) \in Nat
                              /\ DOMAIN passed[k] = 1..Len(passed[k])
                              /\ \A i \in 1..Len(passed[k]) : passed[k][i] \in 0..now
           /\ \A k \in DOMAIN hits : /\ k \in Keys
                                     /\ hits[k].count \in 1..Max + 1
                                     /\ hits[k].resetAt \in Window..now + Window
BY LimiterConstants DEF TypeOK

LEMMA InvariantInit == Init => IInv
<1> SUFFICES ASSUME Init PROVE IInv
  OBVIOUS
<1>1. /\ hits = << >> /\ DOMAIN hits = {} /\ now = 0
      /\ passed = Nothing /\ last = Unasked
  BY DEF Init
<1>2. passed \in [Keys -> Seq(0..now)]
  BY <1>1 DEF Nothing
<1>3. last \in [Keys -> [what : {"none", "passed", "refused"}, at : 0..now]]
  BY <1>1 DEF Unasked
<1>4. TypeOK
  BY <1>1, <1>2, <1>3, LimiterConstants DEF TypeOK
<1>5. ASSUME NEW k \in Keys PROVE Row(k)
  <2>1. passed[k] = << >> /\ last[k].what = "none"
    BY <1>1 DEF Nothing, Unasked
  <2>2. QED
    BY <1>1, <2>1 DEF Row, Windowed, SpacedOut, Caused
<1>6. QED
  BY <1>4, <1>5 DEF IInv

-----------------------------------------------------------------------------
(* The window a request falls into                                           *)

\* Either k's window is running, and the request is one more in it, or the
\* request opens a window.
LEMMA TheWindow ==
    ASSUME TypeOK, NEW k \in Keys
    PROVE  \/ /\ k \in DOMAIN hits /\ hits[k].resetAt > now
              /\ Count(k) = [count |-> IF hits[k].count > Max THEN Max + 1
                                       ELSE hits[k].count + 1,
                             resetAt |-> hits[k].resetAt]
           \/ /\ k \in DOMAIN hits => hits[k].resetAt <= now
              /\ Count(k) = [count |-> 1, resetAt |-> now + Window]
<1>1. CASE k \in DOMAIN hits /\ hits[k].resetAt > now
  <2>1. Entry(k) = hits[k]
    BY <1>1 DEF Entry
  <2>2. hits[k] \in [count : 1..Max + 1, resetAt : Window..now + Window]
    BY <1>1 DEF TypeOK
  <2>3. QED
    BY <1>1, <2>1, <2>2 DEF Count
<1>2. CASE ~(k \in DOMAIN hits /\ hits[k].resetAt > now)
  <2>1. Entry(k) = [count |-> 0, resetAt |-> now + Window]
    BY <1>2 DEF Entry
  <2>2. k \in DOMAIN hits => hits[k].resetAt <= now
    BY <1>2, Numbers
  <2>3. Count(k) = [count |-> 1, resetAt |-> now + Window]
    BY <2>1, Numbers DEF Count
  <2>4. QED
    BY <2>2, <2>3
<1>3. QED
  BY <1>1, <1>2

\* The row of the client that asked, whose window holds m of its requests and
\* began at ws: what both ways of passing need.
LEMMA PassingRow ==
    ASSUME IInv, NEW k \in Keys,
           Count(k).count <= Max,
           hits' = Put(hits, k, Count(k)),
           passed' = [passed EXCEPT ![k] = Append(@, now)],
           last' = [last EXCEPT ![k] = [what |-> "passed", at |-> now]]
    PROVE  Row(k)'
<1> DEFINE a == passed[k]
           b == passed'[k]
           L == Len(a)
           s == IF k \in DOMAIN hits /\ hits[k].resetAt > now THEN Before(k) ELSE L
           ws == IF k \in DOMAIN hits /\ hits[k].resetAt > now THEN Start(k) ELSE now
<1>1. TypeOK /\ Windowed(k) /\ SpacedOut(k)
  BY DEF IInv, Row
<1>2. /\ L \in Nat /\ a \in Seq(Nat) /\ DOMAIN a = 1..L
      /\ \A i \in 1..L : a[i] \in 0..now
  BY <1>1, Numbers
<1>3. /\ b = Append(a, now) /\ Len(b) = L + 1 /\ DOMAIN b = 1..L + 1
      /\ b[L + 1] = now /\ \A i \in 1..L : b[i] = a[i]
  <2>1. b = Append(a, now)
    BY <1>1, Numbers
  <2>2. QED
    BY <2>1, <1>1, <1>2, Numbers
<1>4. /\ last'[k].what = "passed"
      /\ k \in DOMAIN hits' /\ hits'[k] = Count(k)
  BY <1>1, Numbers DEF Put
<1>5. /\ s \in Nat /\ s <= L /\ L + 1 <= s + Max
      /\ hits'[k].resetAt = ws + Window /\ ws <= now /\ now < ws + Window /\ ws \in Int
      /\ Before(k)' = s /\ Start(k)' = ws
      /\ \A i \in 1..s : a[i] < ws /\ (i + Max <= s => a[i] + Window < ws)
      /\ \A i \in (s + 1)..L : ws <= a[i] /\ a[i] < ws + Window
  <2>1. CASE k \in DOMAIN hits /\ hits[k].resetAt > now
    <3>1. /\ Count(k).count = hits[k].count + 1 /\ hits[k].count + 1 <= Max
          /\ Count(k).resetAt = hits[k].resetAt
      BY <2>1, <1>1, TheWindow, Numbers
    <3>2. /\ Counted(k) = hits[k].count /\ Counted(k)' = hits[k].count + 1
      BY <2>1, <3>1, <1>1, <1>4, Numbers DEF Counted
    <3>3. Before(k) = L - hits[k].count /\ Before(k)' = L - hits[k].count
      <4>1. Before(k) = L - Counted(k) /\ Before(k)' = Len(b) - Counted(k)'
        BY DEF Before
      <4>2. hits[k].count \in Nat /\ L \in Nat /\ Len(b) = L + 1
        BY <2>1, <1>1, <1>2, <1>3, Numbers
      <4> HIDE DEF L, b
      <4>3. QED
        BY <3>2, <4>1, <4>2
    <3>4. Start(k)' = Start(k) /\ Start(k) \in Int /\ hits[k].resetAt = Start(k) + Window /\ Start(k) <= now
      BY <2>1, <3>1, <1>1, <1>4, Numbers DEF Start
    <3>5. s = Before(k) /\ ws = Start(k)
      BY <2>1
    <3>6. s \in Nat /\ s <= L /\ L + 1 <= s + Max
      BY <3>1, <3>3, <3>5, <1>1, <1>2, <2>1, Numbers DEF Windowed
    <3> HIDE DEF s, ws
    <3>7. QED
      BY <2>1, <3>1, <3>3, <3>4, <3>5, <3>6, <1>1, <1>4 DEF Windowed
  <2>2. CASE ~(k \in DOMAIN hits /\ hits[k].resetAt > now)
    <3>1. /\ Count(k) = [count |-> 1, resetAt |-> now + Window]
          /\ k \in DOMAIN hits => hits[k].resetAt <= now
      BY <2>2, <1>1, TheWindow, Numbers
    <3>2. Counted(k)' = 1 /\ Before(k)' = L /\ Start(k)' = now
      BY <3>1, <1>1, <1>2, <1>3, <1>4, Numbers DEF Counted, Before, Start
    <3>3. s = L /\ ws = now
      BY <2>2
    <3>4. ASSUME NEW i \in 1..L
          PROVE  a[i] < now /\ (i + Max <= L => a[i] + Window < now)
      <4>1. k \in DOMAIN hits
        BY <1>1, <1>2 DEF Windowed
      <4>2. /\ hits[k].resetAt <= now /\ hits[k].resetAt \in Nat
            /\ Start(k) = hits[k].resetAt - Window
            /\ Before(k) \in Nat /\ L <= Before(k) + Max
        <5>1. hits[k].resetAt <= now /\ hits[k].resetAt \in Nat /\ hits[k].count \in Nat
          BY <4>1, <3>1, <1>1, Numbers
        <5>2. Counted(k) \in Nat /\ Counted(k) <= Max
          BY <5>1, <1>1, Numbers DEF Counted
        <5>3. Before(k) = L - Counted(k) /\ Start(k) = hits[k].resetAt - Window
          BY DEF Before, Start
        <5>4. Before(k) \in Nat
          BY <4>1, <1>1 DEF Windowed
        <5> HIDE DEF L
        <5>5. L \in Nat /\ Max \in Nat
          BY <1>1, <1>2, Numbers
        <5>6. QED
          BY <5>1, <5>2, <5>3, <5>4, <5>5
      <4>3. a[i] \in Nat /\ i \in Nat /\ i <= L /\ L \in Nat
        BY <1>2
      <4>4. CASE i <= Before(k)
        <5>1. a[i] < Start(k)
          BY <4>1, <4>2, <4>3, <4>4, <1>1 DEF Windowed
        <5>2. a[i] + Window < now
          BY <5>1, <4>2, <4>3, <1>1, Numbers
        <5>3. QED
          BY <5>2, <4>3, <1>1, Numbers
      <4>5. CASE i > Before(k)
        <5>1. i \in (Before(k) + 1)..L
          BY <4>2, <4>3, <4>5
        <5>2. a[i] < hits[k].resetAt
          BY <4>1, <5>1, <1>1 DEF Windowed
        <5>3. ~(i + Max <= L)
          BY <4>2, <4>3, <4>5, <1>1, Numbers
        <5>4. QED
          BY <5>2, <5>3, <4>2, <4>3, <1>1, Numbers
      <4>6. QED
        BY <4>2, <4>3, <4>4, <4>5
    <3> HIDE DEF s, ws
    <3>5. QED
      BY <3>1, <3>2, <3>3, <3>4, <1>1, <1>2, <1>4, Numbers
  <2>3. QED
    BY <2>1, <2>2
<1> HIDE DEF a, b, s, ws
<1>6. Windowed(k)'
  <2>1. \A i \in 1..s : b[i] < ws /\ (i + Max <= s => b[i] + Window < ws)
    BY <1>2, <1>3, <1>5
  <2>2. \A i \in (s + 1)..(L + 1) : ws <= b[i] /\ b[i] < ws + Window
    BY <1>1, <1>2, <1>3, <1>5, Numbers
  <2>3. QED
    BY <1>3, <1>4, <1>5, <2>1, <2>2 DEF Windowed, b
<1>7. SpacedOut(k)'
  <2> SUFFICES ASSUME NEW i \in 1..L + 1, NEW n \in 1..L + 1, n = i + 2 * Max
               PROVE  b[n] > b[i] + Window
    BY <1>3 DEF SpacedOut, b
  <2>1. CASE n <= L
    <3>1. i \in 1..L /\ n \in 1..L
      BY <2>1, <1>1, <1>2, Numbers
    <3>2. a[n] > a[i] + Window
      BY <3>1, <1>1, <1>2 DEF SpacedOut, a
    <3>3. QED
      BY <3>1, <3>2, <1>3
  <2>2. CASE n = L + 1
    <3> HIDE DEF L
    <3>1. L \in Nat /\ s \in Nat /\ s <= L /\ L + 1 <= s + Max /\ Max \in Nat /\ Max > 0
      BY <1>1, <1>2, <1>5, Numbers
    <3>2. i \in 1..s /\ i + Max <= s
      BY <2>2, <3>1
    <3>3. i \in 1..L
      BY <3>1, <3>2
    <3>4. a[i] + Window < ws
      BY <3>2, <1>5
    <3>5. b[n] = now /\ b[i] = a[i] /\ ws <= now /\ ws \in Int /\ now \in Nat
          /\ a[i] \in 0..now /\ Window \in Nat
      BY <2>2, <3>3, <1>1, <1>2, <1>3, <1>5, Numbers
    <3>6. QED
      BY <3>4, <3>5
  <2>3. QED
    BY <2>1, <2>2, <1>2
<1>8. Caused(k)'
  BY <1>4 DEF Caused
<1>9. QED
  BY <1>6, <1>7, <1>8 DEF Row

\* The row of a client that is refused: Max requests passed in its window.
LEMMA RefusingRow ==
    ASSUME IInv, NEW k \in Keys, Count(k).count > Max,
           hits' = Put(hits, k, Count(k)),
           last' = [last EXCEPT ![k] = [what |-> "refused", at |-> now]],
           passed' = passed
    PROVE  Row(k)'
<1> DEFINE a == passed[k]
           L == Len(a)
<1>1. TypeOK /\ Windowed(k) /\ SpacedOut(k)
  BY DEF IInv, Row
<1>2. /\ L \in Nat /\ Max \in Nat /\ Max > 0 /\ Window \in Nat /\ now \in Nat
      /\ DOMAIN a = 1..L /\ \A i \in 1..L : a[i] \in Nat
  BY <1>1, Numbers
<1>3. /\ last'[k].what = "refused" /\ last'[k].at = now
      /\ k \in DOMAIN hits' /\ hits'[k] = Count(k)
  BY <1>1, Numbers DEF Put
<1>4. /\ k \in DOMAIN hits /\ hits[k].resetAt > now /\ hits[k].count >= Max
      /\ Count(k).resetAt = hits[k].resetAt /\ hits[k].resetAt \in Nat
  BY <1>1, <1>2, TheWindow, Numbers
<1>5. Counted(k) = Max /\ Counted(k)' = Max
  BY <1>1, <1>3, <1>4, Numbers DEF Counted
<1>6. /\ Before(k) = L - Max /\ Before(k)' = Before(k) /\ Start(k)' = Start(k)
      /\ Start(k) = hits[k].resetAt - Window
  BY <1>3, <1>4, <1>5 DEF Before, Start
<1>7. Windowed(k)'
  BY <1>1, <1>3, <1>4, <1>6 DEF Windowed
<1>8. SpacedOut(k)'
  BY <1>1 DEF SpacedOut
<1>9. Caused(k)'
  <2>1. Before(k) \in Nat /\ \A i \in (Before(k) + 1)..L : Start(k) <= a[i]
    BY <1>1, <1>4 DEF Windowed
  <2> HIDE DEF L
  <2>2. L >= Max /\ L - Max + 1 \in (Before(k) + 1)..L /\ L - Max + 1 \in 1..L
    BY <2>1, <1>2, <1>6
  <2>3. Start(k) <= a[L - Max + 1] /\ a[L - Max + 1] \in Nat
    BY <2>1, <2>2, <1>2
  <2>4. a[L - Max + 1] + Window > now
    BY <2>3, <1>2, <1>4, <1>6
  <2>5. QED
    BY <1>3, <2>2, <2>4 DEF Caused, L
<1>10. QED
  BY <1>7, <1>8, <1>9 DEF Row

\* A row depends on what is stored about its client alone.
LEMMA RowStays ==
    ASSUME NEW x \in Keys, Row(x),
           x \in DOMAIN hits' <=> x \in DOMAIN hits,
           x \in DOMAIN hits => hits'[x] = hits[x],
           passed'[x] = passed[x], last'[x] = last[x]
    PROVE  Row(x)'
<1>1. x \in DOMAIN hits => Before(x)' = Before(x) /\ Start(x)' = Start(x)
  BY DEF Before, Start, Counted
<1>2. Windowed(x)'
  BY <1>1 DEF Row, Windowed
<1>3. SpacedOut(x)' /\ Caused(x)'
  BY DEF Row, SpacedOut, Caused
<1>4. QED
  BY <1>2, <1>3 DEF Row

-----------------------------------------------------------------------------
(* Every step                                                                *)

LEMMA CountIsTyped ==
    ASSUME TypeOK, NEW k \in Keys
    PROVE  Count(k) \in [count : 1..Max + 1, resetAt : Window..now + Window]
<1>1. CASE /\ k \in DOMAIN hits /\ hits[k].resetAt > now
           /\ Count(k) = [count |-> IF hits[k].count > Max THEN Max + 1
                                    ELSE hits[k].count + 1,
                          resetAt |-> hits[k].resetAt]
  BY <1>1, Numbers
<1>2. CASE Count(k) = [count |-> 1, resetAt |-> now + Window]
  BY <1>2, Numbers
<1>3. QED
  BY <1>1, <1>2, TheWindow

LEMMA RequestKeepsTypes ==
    ASSUME TypeOK, NEW k \in Keys, Request(k)
    PROVE  TypeOK'
<1>1. hits' = Put(hits, k, Count(k)) /\ now' = now
  BY DEF Request, Pass, Refuse
<1>2. hits' \in [DOMAIN hits' -> [count : 1..Max + 1, resetAt : Window..now + Window]]
  BY <1>1, CountIsTyped DEF Put, TypeOK
<1>3. DOMAIN hits' \subseteq Keys
  BY <1>1 DEF Put, TypeOK
<1>4. passed' \in [Keys -> Seq(0..now)]
  <2>1. CASE Pass(k)
    <3>1. passed' = [passed EXCEPT ![k] = Append(@, now)] /\ now \in 0..now
      BY <2>1, Numbers DEF Pass
    <3>2. Append(passed[k], now) \in Seq(0..now)
      BY <3>1 DEF TypeOK
    <3>3. QED
      BY <3>1, <3>2 DEF TypeOK
  <2>2. CASE Refuse(k)
    BY <2>2 DEF Refuse, TypeOK
  <2>3. QED
    BY <2>1, <2>2 DEF Request
<1>5. last' \in [Keys -> [what : {"none", "passed", "refused"}, at : 0..now]]
  <2>1. now \in 0..now
    BY Numbers
  <2>2. \E r \in [what : {"none", "passed", "refused"}, at : 0..now] :
           last' = [last EXCEPT ![k] = r]
    <3>1. CASE Pass(k)
      <4>1. [what |-> "passed", at |-> now] \in
               [what : {"none", "passed", "refused"}, at : 0..now]
        BY <2>1
      <4>2. QED
        BY <3>1, <4>1 DEF Pass
    <3>2. CASE Refuse(k)
      <4>1. [what |-> "refused", at |-> now] \in
               [what : {"none", "passed", "refused"}, at : 0..now]
        BY <2>1
      <4>2. QED
        BY <3>2, <4>1 DEF Refuse
    <3>3. QED
      BY <3>1, <3>2 DEF Request
  <2>3. QED
    BY <2>2 DEF TypeOK
<1>6. QED
  BY <1>1, <1>2, <1>3, <1>4, <1>5 DEF TypeOK

LEMMA RequestKeepsInvariant ==
    ASSUME IInv, NEW k \in Keys, Request(k)
    PROVE  IInv'
<1>1. TypeOK
  BY DEF IInv
<1>2. TypeOK'
  BY <1>1, RequestKeepsTypes
<1>3. hits' = Put(hits, k, Count(k)) /\ Count(k).count \in Nat /\ Max \in Nat
  BY <1>1, CountIsTyped, Numbers DEF Request, Pass, Refuse
<1>4. Row(k)'
  <2>1. CASE Pass(k)
    <3>1. Count(k).count <= Max
      BY <2>1, <1>3 DEF Pass, Exceeds
    <3>2. QED
      BY <2>1, <3>1, PassingRow DEF Pass
  <2>2. CASE Refuse(k)
    BY <2>2, RefusingRow DEF Refuse, Exceeds
  <2>3. QED
    BY <2>1, <2>2 DEF Request
<1>5. ASSUME NEW x \in Keys, x # k PROVE Row(x)'
  <2>1. /\ x \in DOMAIN hits' <=> x \in DOMAIN hits
        /\ x \in DOMAIN hits => hits'[x] = hits[x]
    BY <1>3, <1>5 DEF Put
  <2>2. passed'[x] = passed[x] /\ last'[x] = last[x]
    BY <1>1, <1>5, Numbers DEF Request, Pass, Refuse
  <2>3. Row(x)
    BY DEF IInv
  <2>4. QED
    BY <2>1, <2>2, <2>3, RowStays
<1>6. QED
  BY <1>2, <1>4, <1>5 DEF IInv

LEMMA ResetKeepsInvariant ==
    ASSUME IInv, Reset
    PROVE  IInv'
<1>1. hits' = << >> /\ DOMAIN hits' = {} /\ passed' = Nothing /\ last' = Unasked /\ now' = now
  BY DEF Reset
<1>2. TypeOK'
  <2>1. now \in 0..MaxTime /\ 0 \in 0..now
    BY Numbers DEF IInv, TypeOK
  <2>2. passed' \in [Keys -> Seq(0..now)]
    BY <1>1 DEF Nothing
  <2>3. last' \in [Keys -> [what : {"none", "passed", "refused"}, at : 0..now]]
    BY <1>1, <2>1 DEF Unasked
  <2>4. QED
    BY <1>1, <2>1, <2>2, <2>3 DEF TypeOK
<1>3. ASSUME NEW k \in Keys PROVE Row(k)'
  <2>1. passed'[k] = << >> /\ last'[k].what = "none"
    BY <1>1 DEF Nothing, Unasked
  <2>2. QED
    BY <1>1, <2>1 DEF Row, Windowed, SpacedOut, Caused
<1>4. QED
  BY <1>2, <1>3 DEF IInv

LEMMA TickKeepsInvariant ==
    ASSUME IInv, Tick
    PROVE  IInv'
<1>1. TypeOK /\ now' = now + 1 /\ UNCHANGED <<hits, passed, last>> /\ now < MaxTime
  BY DEF IInv, Tick
<1>2. now \in Nat /\ MaxTime \in Nat /\ Window \in Nat
  BY <1>1, Numbers
<1>3. /\ now' \in 0..MaxTime /\ 0..now \subseteq 0..now'
      /\ Window..now + Window \subseteq Window..now' + Window
  BY <1>1, <1>2 DEF TypeOK
<1>4. passed' \in [Keys -> Seq(0..now')]
  <2>1. ASSUME NEW k \in Keys PROVE passed[k] \in Seq(0..now')
    <3>1. passed[k] \in Seq(0..now)
      BY <1>1 DEF TypeOK
    <3>2. QED
      BY <3>1, <1>3, SeqMonotonic
  <2>2. QED
    BY <1>1, <2>1 DEF TypeOK
<1>5. last' \in [Keys -> [what : {"none", "passed", "refused"}, at : 0..now']]
  BY <1>1, <1>3 DEF TypeOK
<1>6. hits' \in [DOMAIN hits' -> [count : 1..Max + 1, resetAt : Window..now' + Window]]
  BY <1>1, <1>3 DEF TypeOK
<1>7. TypeOK'
  BY <1>1, <1>3, <1>4, <1>5, <1>6 DEF TypeOK
<1>8. ASSUME NEW k \in Keys PROVE Row(k)'
  BY <1>1, RowStays DEF IInv
<1>9. QED
  BY <1>7, <1>8 DEF IInv

LEMMA InvariantStep == IInv /\ [Next]_vars => IInv'
<1> SUFFICES ASSUME IInv, [Next]_vars PROVE IInv'
  OBVIOUS
<1>1. ASSUME NEW k \in Keys, Request(k) PROVE IInv'
  BY <1>1, RequestKeepsInvariant
<1>2. CASE Reset
  BY <1>2, ResetKeepsInvariant
<1>3. CASE Tick
  BY <1>3, TickKeepsInvariant
<1>4. CASE UNCHANGED vars
  <2>1. TypeOK'
    BY <1>4 DEF IInv, TypeOK, vars
  <2>2. ASSUME NEW k \in Keys PROVE Row(k)'
    BY <1>4, RowStays DEF IInv, vars
  <2>3. QED
    BY <2>1, <2>2 DEF IInv
<1>5. QED
  BY <1>1, <1>2, <1>3, <1>4 DEF Next

LEMMA InvariantImplies ==
    IInv => TypeOK /\ AtMostTwiceInAWindow /\ RefusedForCause
BY DEF IInv, Row, SpacedOut, Caused, AtMostTwiceInAWindow, RefusedForCause

-----------------------------------------------------------------------------
\* The limiter's Map has the shape rateLimit.js gives it.
THEOREM TypeCorrect == Spec => []TypeOK
BY InvariantInit, InvariantStep, InvariantImplies, PTL DEF Spec

\* For any limit and any window: of 2 * Max + 1 requests of a client that
\* passed, the last came more than a window after the first (rateLimit.js:29).
THEOREM BurstsAreBounded == Spec => []AtMostTwiceInAWindow
BY InvariantInit, InvariantStep, InvariantImplies, PTL DEF Spec

\* Whoever was refused had Max requests passed less than a window before, and
\* no other client's requests counted (rateLimit.js:36).
THEOREM RefusalsHaveACause == Spec => []RefusedForCause
BY InvariantInit, InvariantStep, InvariantImplies, PTL DEF Spec
===============================================================================

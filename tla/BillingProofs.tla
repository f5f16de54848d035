---------------------------- MODULE BillingProofs -----------------------------
(***************************************************************************)
(* Billing, proved for any offers, jobs, estimates, members and prices:    *)
(* the arithmetic of prices adds up and projects in order for every offer, *)
(* the composition leaves the estimate workflow what it is and time        *)
(* tracking what it is proved to be, and what is billed is never an        *)
(* outdated version.                                                       *)
(***************************************************************************)
EXTENDS Billing, EstimatesProofs, FiniteSetTheorems, WellFoundedInduction

-----------------------------------------------------------------------------
(* Sums over finite sets                                                     *)

\* What can be shown of a finite set from all smaller sets holds of all finite
\* sets: induction over finite sets, with a set for what is to be shown.
LEMMA BySmallerSets ==
    ASSUME NEW S, IsFiniteSet(S), NEW P,
           \A W \in SUBSET S :
              (\A U \in SUBSET W : U # W => U \in P) => W \in P
    PROVE  SUBSET S \subseteq P
<1> DEFINE R == StrictSubsetOrdering(S)
           Left == (SUBSET S) \ P
<1>1. SUBSET S = FiniteSubsetsOf(S)
  BY FS_Subset DEF FiniteSubsetsOf
<1>2. IsWellFoundedOn(R, SUBSET S)
  BY <1>1, FS_StrictSubsetOrderingWellFounded
<1>3. ASSUME Left # {} PROVE FALSE
  <2>1. PICK W \in Left : \A U \in Left : <<U, W>> \notin R
    <3>1. Left \subseteq SUBSET S
      OBVIOUS
    <3> HIDE DEF R, Left
    <3>2. QED
      BY <1>2, <1>3, <3>1, WFMin
  <2>2. ASSUME NEW U \in SUBSET W, U # W PROVE U \in P
    BY <2>1, <2>2 DEF StrictSubsetOrdering
  <2>3. QED
    BY <2>1, <2>2
<1>4. QED
  BY <1>3

Pick(s) == CHOOSE x \in s : TRUE

FoldsTo(g, f, S) ==
    g = [s \in SUBSET S |-> IF s = {} THEN 0
                            ELSE f[Pick(s)] + g[s \ {Pick(s)}]]

LEMMA PickIsIn == ASSUME NEW s, s # {} PROVE Pick(s) \in s
BY DEF Pick

\* Two folds of one function, each over a set that S is a part of, agree on S:
\* a fold is unique, and does not depend on the set it was chosen for.
LEMMA OneFold ==
    ASSUME NEW S, IsFiniteSet(S), NEW f, NEW g, NEW h, NEW A, NEW B,
           FoldsTo(g, f, A), FoldsTo(h, f, B), S \subseteq A, S \subseteq B
    PROVE  g[S] = h[S]
<1> DEFINE P == {s \in SUBSET S : g[s] = h[s]}
<1>1. ASSUME NEW W \in SUBSET S, \A U \in SUBSET W : U # W => U \in P
      PROVE  W \in P
  <2>1. CASE W = {}
    BY <2>1 DEF FoldsTo
  <2>2. CASE W # {}
    <3> DEFINE U == W \ {Pick(W)}
    <3>1. Pick(W) \in W
      BY <2>2, PickIsIn
    <3>2. U \in SUBSET W /\ U # W
      BY <3>1
    <3>3. g[U] = h[U]
      BY <1>1, <3>2
    <3>4. g[W] = f[Pick(W)] + g[U] /\ h[W] = f[Pick(W)] + h[U]
      BY <2>2 DEF FoldsTo
    <3>5. QED
      BY <3>3, <3>4
  <2>3. QED
    BY <2>1, <2>2
<1> HIDE DEF P
<1>2. SUBSET S \subseteq P
  BY <1>1, BySmallerSets
<1>3. QED
  BY <1>2 DEF P

\* There is a fold: what SumFunctionOnSet chooses exists.
LEMMA SomeFold ==
    ASSUME NEW S, IsFiniteSet(S), NEW f
    PROVE  \E g : FoldsTo(g, f, S)
<1> DEFINE P == {s \in SUBSET S : \E g : FoldsTo(g, f, s)}
<1>1. ASSUME NEW W \in SUBSET S, \A U \in SUBSET W : U # W => U \in P
      PROVE  W \in P
  <2> DEFINE Fold(U) == CHOOSE g : FoldsTo(g, f, U)
             x == Pick(W)
             Value(U) == IF U = {} THEN 0
                         ELSE f[Pick(U)] + Fold(U \ {Pick(U)})[U \ {Pick(U)}]
             g == [U \in SUBSET W |-> Value(U)]
  <2>1. ASSUME NEW U \in SUBSET W, U # W PROVE FoldsTo(Fold(U), f, U)
    BY <1>1, <2>1
  <2>2. ASSUME NEW U \in SUBSET W, U # W PROVE Fold(U)[U] = Value(U)
    <3>1. CASE U = {}
      <4> HIDE DEF Fold
      <4> QED BY <2>1, <2>2, <3>1 DEF FoldsTo
    <3>2. CASE U # {}
      <4> DEFINE V == U \ {Pick(U)}
      <4>1. Pick(U) \in U
        BY <3>2, PickIsIn
      <4>2. V \in SUBSET U /\ V \in SUBSET W /\ V # W /\ V # U
        BY <4>1
      <4>3. IsFiniteSet(V)
        BY <4>2, FS_Subset
      <4> HIDE DEF Fold
      <4>4. FoldsTo(Fold(U), f, U) /\ FoldsTo(Fold(V), f, V)
        BY <2>1, <2>2, <4>2
      <4>5. Fold(U)[V] = Fold(V)[V]
        BY <4>2, <4>3, <4>4, OneFold
      <4>6. Fold(U)[U] = f[Pick(U)] + Fold(U)[V]
        BY <3>2, <4>4 DEF FoldsTo
      <4>7. QED
        BY <3>2, <4>5, <4>6
    <3>3. QED
      BY <3>1, <3>2
  <2>3. ASSUME NEW U \in SUBSET W, U # {}
        PROVE  Value(U) = f[Pick(U)] + g[U \ {Pick(U)}]
    <3> DEFINE V == U \ {Pick(U)}
    <3>1. V \in SUBSET W /\ V # W
      BY <2>3, PickIsIn
    <3> HIDE DEF Fold
    <3>2. g[V] = Fold(V)[V]
      BY <2>2, <3>1
    <3>3. QED
      BY <2>3, <3>2
  <2>4. g = [U \in SUBSET W |-> IF U = {} THEN 0
                                ELSE f[Pick(U)] + g[U \ {Pick(U)}]]
    <3>1. Value({}) = 0
      OBVIOUS
    <3>2. g = [U \in SUBSET W |-> Value(U)]
      OBVIOUS
    <3> HIDE DEF Value, g
    <3>3. \A U \in SUBSET W : Value(U) = IF U = {} THEN 0
                                ELSE f[Pick(U)] + g[U \ {Pick(U)}]
      BY <2>3, <3>1
    <3>4. QED
      BY <3>2, <3>3
  <2> HIDE DEF g
  <2>5. QED
    BY <2>4 DEF FoldsTo
<1> HIDE DEF P
<1>2. SUBSET S \subseteq P
  BY <1>1, BySmallerSets
<1>3. QED
  BY <1>2 DEF P

\* A sum is some element's share and the sum over the rest.
LEMMA SumUnfolds ==
    ASSUME NEW S, IsFiniteSet(S), NEW f
    PROVE  SumFunctionOnSet(f, S) =
              IF S = {} THEN 0
              ELSE f[Pick(S)] + SumFunctionOnSet(f, S \ {Pick(S)})
<1> DEFINE Fold(W) == CHOOSE g : FoldsTo(g, f, W)
<1>1. ASSUME NEW W, IsFiniteSet(W)
      PROVE  /\ FoldsTo(Fold(W), f, W)
             /\ SumFunctionOnSet(f, W) = Fold(W)[W]
  <2>1. FoldsTo(Fold(W), f, W)
    BY <1>1, SomeFold
  <2>2. SumFunctionOnSet(f, W) = Fold(W)[W]
    BY DEF SumFunctionOnSet, FoldFunctionOnSet, MapThenFoldSet, FoldsTo, Pick
  <2>3. QED
    BY <2>1, <2>2
<1> HIDE DEF Fold
<1>2. CASE S = {}
  BY <1>1, <1>2 DEF FoldsTo
<1>3. CASE S # {}
  <2> DEFINE U == S \ {Pick(S)}
  <2>1. U \subseteq S /\ IsFiniteSet(U)
    BY FS_Subset
  <2>2. Fold(S)[U] = Fold(U)[U]
    BY <1>1, <2>1, OneFold
  <2>3. Fold(S)[S] = f[Pick(S)] + Fold(S)[U]
    BY <1>1, <1>3 DEF FoldsTo
  <2>4. QED
    BY <1>1, <1>3, <2>1, <2>2, <2>3
<1>4. QED
  BY <1>2, <1>3

\* What holds of {} and of every set that is one element larger than one it
\* holds of, holds of S.
LEMMA ByOneMore ==
    ASSUME NEW S, IsFiniteSet(S), NEW P,
           {} \in P,
           \A W \in SUBSET S, x \in S : x \in W /\ W \ {x} \in P => W \in P
    PROVE  S \in P
<1>1. ASSUME NEW W \in SUBSET S, \A U \in SUBSET W : U # W => U \in P
      PROVE  W \in P
  <2>1. CASE W = {}
    BY <2>1
  <2>2. CASE W # {}
    <3>1. PICK x : x \in W
      BY <2>2
    <3>2. W \ {x} \in P
      BY <1>1, <3>1
    <3>3. QED
      BY <3>1, <3>2
  <2>3. QED
    BY <2>1, <2>2
<1>2. QED
  BY <1>1, BySmallerSets

LEMMA SumOfNone == ASSUME NEW f PROVE SumFunctionOnSet(f, {}) = 0
BY SumUnfolds, FS_EmptySet

LEMMA SumType ==
    ASSUME NEW S, IsFiniteSet(S), NEW f, \A x \in S : f[x] \in Int
    PROVE  SumFunctionOnSet(f, S) \in Int
<1> DEFINE P == {s \in SUBSET S : SumFunctionOnSet(f, s) \in Int}
<1>1. ASSUME NEW W \in SUBSET S, \A U \in SUBSET W : U # W => U \in P
      PROVE  W \in P
  <2>1. CASE W = {}
    BY <2>1, SumOfNone
  <2>2. CASE W # {}
    <3>1. Pick(W) \in W /\ IsFiniteSet(W)
      BY <2>2, PickIsIn, FS_Subset
    <3>2. SumFunctionOnSet(f, W \ {Pick(W)}) \in Int
      BY <1>1, <3>1
    <3>3. SumFunctionOnSet(f, W)
             = f[Pick(W)] + SumFunctionOnSet(f, W \ {Pick(W)})
      BY <2>2, <3>1, SumUnfolds
    <3>4. QED
      BY <3>1, <3>2, <3>3
  <2>3. QED
    BY <2>1, <2>2
<1> HIDE DEF P
<1>2. S \in P
  BY <1>1, BySmallerSets
<1>3. QED
  BY <1>2 DEF P

\* That element may be any one: the order in which a sum is taken is nothing to
\* it.
LEMMA SumSplitsOff ==
    ASSUME NEW S, IsFiniteSet(S), NEW f, \A x \in S : f[x] \in Int,
           NEW e \in S
    PROVE  SumFunctionOnSet(f, S) = f[e] + SumFunctionOnSet(f, S \ {e})
<1> DEFINE Sum(s) == SumFunctionOnSet(f, s)
           P == {s \in SUBSET S : \A x \in s : Sum(s) = f[x] + Sum(s \ {x})}
<1>0. ASSUME NEW W \in SUBSET S
      PROVE  /\ IsFiniteSet(W)
             /\ Sum(W) \in Int
             /\ W # {} => /\ Pick(W) \in W
                          /\ Sum(W) = f[Pick(W)] + Sum(W \ {Pick(W)})
  <2>1. IsFiniteSet(W)
    BY FS_Subset
  <2>2. QED
    BY <2>1, SumType, SumUnfolds, PickIsIn
<1>1. ASSUME NEW W \in SUBSET S, \A U \in SUBSET W : U # W => U \in P
      PROVE  W \in P
  <2>1. ASSUME NEW x \in W, x # Pick(W)
        PROVE  Sum(W) = f[x] + Sum(W \ {x})
    <3> DEFINE p == Pick(W)
               A == W \ {p}
               B == W \ {x}
               C == (W \ {p}) \ {x}
    <3>1. p \in W
      BY <2>1, <1>0
    <3>2. /\ A \in SUBSET W /\ A # W /\ x \in A
          /\ B \in SUBSET W /\ B # W /\ p \in B
          /\ C = B \ {p} /\ C \in SUBSET S
      BY <2>1, <3>1
    <3> HIDE DEF Sum
    <3>3. Sum(A) = f[x] + Sum(C)
      BY <1>1, <3>2
    <3>4. Sum(B) = f[p] + Sum(C)
      BY <1>1, <3>2
    <3>5. Sum(W) = f[p] + Sum(A)
      BY <1>0, <2>1
    <3>6. Sum(C) \in Int /\ f[p] \in Int /\ f[x] \in Int
      BY <1>0, <2>1, <3>1, <3>2
    <3> HIDE DEF p, A, B, C
    <3>7. Sum(W) = f[x] + Sum(B)
      BY <3>3, <3>4, <3>5, <3>6
    <3>8. QED
      BY <3>7 DEF B
  <2>2. ASSUME NEW x \in W, x = Pick(W)
        PROVE  Sum(W) = f[x] + Sum(W \ {x})
    BY <1>0, <2>2
  <2>3. QED
    BY <2>1, <2>2
<1> HIDE DEF P
<1>2. S \in P
  BY <1>1, BySmallerSets
<1>3. QED
  BY <1>2 DEF P

\* The sum of sums is the sum.
LEMMA SumAdds ==
    ASSUME NEW S, IsFiniteSet(S), NEW f, NEW g, NEW h,
           \A x \in S : f[x] \in Int /\ g[x] \in Int /\ h[x] = f[x] + g[x]
    PROVE  SumFunctionOnSet(h, S)
              = SumFunctionOnSet(f, S) + SumFunctionOnSet(g, S)
<1> DEFINE P == {s \in SUBSET S : SumFunctionOnSet(h, s)
                    = SumFunctionOnSet(f, s) + SumFunctionOnSet(g, s)}
<1>1. {} \in P
  BY SumOfNone
<1>2. ASSUME NEW W \in SUBSET S, NEW x \in S, x \in W /\ W \ {x} \in P
      PROVE  W \in P
  <2>1. IsFiniteSet(W) /\ IsFiniteSet(W \ {x})
    BY FS_Subset
  <2> DEFINE U == W \ {x}
  <2>2. /\ SumFunctionOnSet(f, W) = f[x] + SumFunctionOnSet(f, U)
        /\ SumFunctionOnSet(g, W) = g[x] + SumFunctionOnSet(g, U)
        /\ SumFunctionOnSet(h, W) = h[x] + SumFunctionOnSet(h, U)
    BY <1>2, <2>1, SumSplitsOff
  <2>3. SumFunctionOnSet(f, U) \in Int /\ SumFunctionOnSet(g, U) \in Int
    BY <2>1, SumType
  <2>4. QED
    BY <1>2, <2>2, <2>3
<1> HIDE DEF P
<1>3. S \in P
  BY <1>1, <1>2, ByOneMore
<1>4. QED
  BY <1>3 DEF P

\* A sum of what is nowhere more is not more.
LEMMA SumIsMonotone ==
    ASSUME NEW S, IsFiniteSet(S), NEW f, NEW g,
           \A x \in S : f[x] \in Int /\ g[x] \in Int /\ f[x] <= g[x]
    PROVE  SumFunctionOnSet(f, S) <= SumFunctionOnSet(g, S)
<1> DEFINE P == {s \in SUBSET S :
                    SumFunctionOnSet(f, s) <= SumFunctionOnSet(g, s)}
<1>1. {} \in P
  BY SumOfNone
<1>2. ASSUME NEW W \in SUBSET S, NEW x \in S, x \in W /\ W \ {x} \in P
      PROVE  W \in P
  <2>1. IsFiniteSet(W) /\ IsFiniteSet(W \ {x})
    BY FS_Subset
  <2> DEFINE U == W \ {x}
  <2>2. /\ SumFunctionOnSet(f, W) = f[x] + SumFunctionOnSet(f, U)
        /\ SumFunctionOnSet(g, W) = g[x] + SumFunctionOnSet(g, U)
    BY <1>2, <2>1, SumSplitsOff
  <2>3. SumFunctionOnSet(f, U) \in Int /\ SumFunctionOnSet(g, U) \in Int
    BY <2>1, SumType
  <2>4. QED
    BY <1>2, <2>2, <2>3
<1> HIDE DEF P
<1>3. S \in P
  BY <1>1, <1>2, ByOneMore
<1>4. QED
  BY <1>3 DEF P

\* The sum over a set is that over a part of it and over the rest.
LEMMA SumSplits ==
    ASSUME NEW S, IsFiniteSet(S), NEW f, \A x \in S : f[x] \in Int,
           NEW A \in SUBSET S
    PROVE  SumFunctionOnSet(f, S)
              = SumFunctionOnSet(f, A) + SumFunctionOnSet(f, S \ A)
<1> DEFINE Sum(s) == SumFunctionOnSet(f, s)
           In(s) == s \cap A
           Out(s) == s \ A
           P == {s \in SUBSET S : Sum(s) = Sum(In(s)) + Sum(Out(s))}
<1>1. ASSUME NEW s \in SUBSET S
      PROVE  /\ Sum(s) \in Int
             /\ \A y \in s : Sum(s) = f[y] + Sum(s \ {y})
  <2>1. IsFiniteSet(s)
    BY FS_Subset
  <2>2. QED
    BY <2>1, SumType, SumSplitsOff
<1>2. {} \in P
  <2>1. In({}) = {} /\ Out({}) = {}
    OBVIOUS
  <2>2. QED
    BY <2>1, SumOfNone
<1>3. ASSUME NEW W \in SUBSET S, NEW x \in S, x \in W /\ W \ {x} \in P
      PROVE  W \in P
  <2> DEFINE U == W \ {x}
  <2>1. Sum(U) = Sum(In(U)) + Sum(Out(U)) /\ Sum(W) = f[x] + Sum(U)
    BY <1>1, <1>3
  <2>2. Sum(In(U)) \in Int /\ Sum(Out(U)) \in Int /\ f[x] \in Int
    BY <1>1
  <2>3. CASE x \in A
    <3>1. In(W) \ {x} = In(U) /\ Out(W) = Out(U) /\ x \in In(W)
      BY <1>3, <2>3
    <3> HIDE DEF Sum, In, Out, U
    <3>2. Sum(In(W)) = f[x] + Sum(In(U))
      <4>1. Sum(In(W)) = f[x] + Sum(In(W) \ {x})
        BY <1>1, <3>1 DEF In, Out
      <4>2. QED
        BY <3>1, <4>1, Zenon
    <3>3. Sum(W) = Sum(In(W)) + Sum(Out(W))
      BY <2>1, <2>2, <3>1, <3>2
    <3>4. QED
      BY <3>3
  <2>4. CASE x \notin A
    <3>1. Out(W) \ {x} = Out(U) /\ In(W) = In(U) /\ x \in Out(W)
      BY <1>3, <2>4
    <3> HIDE DEF Sum, In, Out, U
    <3>2. Sum(Out(W)) = f[x] + Sum(Out(U))
      <4>1. Sum(Out(W)) = f[x] + Sum(Out(W) \ {x})
        BY <1>1, <3>1 DEF In, Out
      <4>2. QED
        BY <3>1, <4>1, Zenon
    <3>3. Sum(W) = Sum(In(W)) + Sum(Out(W))
      BY <2>1, <2>2, <3>1, <3>2
    <3>4. QED
      BY <3>3
  <2>5. QED
    BY <2>3, <2>4
<1>4. S \in P
  <2> HIDE DEF P
  <2>1. QED
    BY <1>2, <1>3, ByOneMore
<1>5. In(S) = A /\ Out(S) = S \ A
  OBVIOUS
<1> HIDE DEF Sum, In, Out
<1>6. Sum(S) = Sum(A) + Sum(S \ A)
  BY <1>4, <1>5
<1>7. QED
  BY <1>6 DEF Sum

\* The sums over the classes of a set, summed, are the sum over the set.
LEMMA SumOfClasses ==
    ASSUME NEW S, IsFiniteSet(S), NEW f, \A x \in S : f[x] \in Int,
           NEW K, IsFiniteSet(K), NEW class, \A x \in S : class[x] \in K,
           NEW part,
           \A c \in K : /\ part[c] \in SUBSET S
                        /\ \A x \in S : x \in part[c] <=> class[x] = c,
           NEW h, \A c \in K : h[c] = SumFunctionOnSet(f, part[c])
    PROVE  SumFunctionOnSet(h, K) = SumFunctionOnSet(f, S)
<1> DEFINE Sum(s) == SumFunctionOnSet(f, s)
           In(k) == {x \in S : class[x] \in k}
           P == {k \in SUBSET K : SumFunctionOnSet(h, k) = Sum(In(k))}
<1>1. ASSUME NEW s \in SUBSET S PROVE IsFiniteSet(s) /\ Sum(s) \in Int
  <2>1. IsFiniteSet(s)
    BY FS_Subset
  <2>2. QED
    BY <2>1, SumType
<1>2. \A c \in K : h[c] \in Int
  BY <1>1
<1>3. {} \in P
  <2>1. In({}) = {}
    OBVIOUS
  <2>2. QED
    BY <2>1, SumOfNone
<1>4. ASSUME NEW W \in SUBSET K, NEW c \in K, c \in W /\ W \ {c} \in P
      PROVE  W \in P
  <2> DEFINE U == W \ {c}
             A == part[c]
  <2>1. SumFunctionOnSet(h, W) = h[c] + SumFunctionOnSet(h, U)
    <3>1. IsFiniteSet(W) /\ \A k \in W : h[k] \in Int
      BY <1>2, FS_Subset
    <3>2. QED
      BY <1>4, <3>1, SumSplitsOff
  <2>2. A \subseteq In(W) /\ In(W) \ A = In(U)
    BY <1>4
  <2>3. Sum(In(W)) = Sum(A) + Sum(In(W) \ A)
    <3>1. IsFiniteSet(In(W)) /\ \A x \in In(W) : f[x] \in Int
      BY <1>1
    <3> HIDE DEF In, A
    <3>2. QED
      BY <2>2, <3>1, SumSplits
  <2>4. h[c] = Sum(A) /\ SumFunctionOnSet(h, U) = Sum(In(U))
    BY <1>4
  <2> HIDE DEF Sum, In, A, U
  <2>5. SumFunctionOnSet(h, W) = Sum(In(W))
    BY <2>1, <2>2, <2>3, <2>4
  <2>6. QED
    BY <2>5
<1>5. K \in P
  <2> HIDE DEF P
  <2>1. QED
    BY <1>3, <1>4, ByOneMore
<1>6. In(K) = S
  OBVIOUS
<1> HIDE DEF In
<1>7. QED
  BY <1>5, <1>6

-----------------------------------------------------------------------------
(* The arithmetic of prices                                                  *)

LEMMA RoundType ==
    ASSUME NEW n \in Int, NEW d \in Nat \ {0}
    PROVE  Round2(n, d) \in Int
BY DEF Round2

\* Rounding moves an amount by half a cent at most.
LEMMA RoundsToNearest ==
    ASSUME NEW n \in Int, NEW d \in Nat \ {0}
    PROVE  /\ Round2(n, d) \in Int
           /\ 2 * d * Round2(n, d) <= 2 * n + d
           /\ 2 * n - d < 2 * d * Round2(n, d)
<1> DEFINE q == 2 * d
           m == 2 * n + d
<1>1. q \in Nat \ {0} /\ m \in Int
  OBVIOUS
<1>2. Round2(n, d) = m \div q
  BY DEF Round2
<1> HIDE DEF q, m
<1>3. /\ m \div q \in Int
      /\ q * (m \div q) <= m
      /\ m < q * (m \div q) + q
  BY <1>1
<1>4. QED
  BY <1>2, <1>3 DEF q, m

LEMMA TimesAtMost ==
    ASSUME NEW a \in Int, NEW b \in Int, NEW c \in Nat, a <= b
    PROVE  /\ c * a \in Int /\ c * b \in Int
           /\ c * a <= c * b
OBVIOUS

\* Rounding keeps the order of amounts.
LEMMA RoundIsMonotone ==
    ASSUME NEW a \in Int, NEW b \in Int, NEW d \in Nat \ {0}, a <= b
    PROVE  Round2(a, d) <= Round2(b, d)
<1> DEFINE x == Round2(a, d)
           y == Round2(b, d)
<1>1. x \in Int /\ y \in Int /\ 2 * d * x <= 2 * a + d /\ 2 * b - d < 2 * d * y
  BY RoundsToNearest
<1>2. ASSUME y + 1 <= x PROVE FALSE
  <2> HIDE DEF x, y
  <2> DEFINE q == 2 * d
  <2>1. q \in Nat /\ q * (y + 1) <= q * x /\ q * (y + 1) = q * y + q
    BY <1>1, <1>2
  <2>2. QED
    BY <1>1, <2>1
<1>3. QED
  BY <1>1, <1>2

\* A share of at most all of an amount, rounded, is at most the amount.
LEMMA ShareIsAPart ==
    ASSUME NEW n \in Nat, NEW v \in Nat, v <= 100 * Percent
    PROVE  Round2(n * v, 100 * Percent) \in 0..n
<1> DEFINE m == n * v
           r == Round2(m, 100 * Percent)
<1>1. v \in 0..10000
  BY DEF Percent
<1>2. m \in Nat /\ m <= n * 10000
  BY <1>1
<1> HIDE DEF m
<1>3. /\ r \in Int
      /\ 2 * 10000 * r <= 2 * m + 10000
      /\ 2 * m - 10000 < 2 * 10000 * r
  BY <1>2, RoundsToNearest DEF Percent
<1> HIDE DEF r
<1>4. r \in 0..n
  BY <1>2, <1>3
<1>5. QED
  BY <1>4 DEF m, r

LEMMA LineTypes ==
    ASSUME NEW li \in LineItems
    PROVE  Cost(li) \in Int /\ MarkupAmount(li) \in Int /\ Price(li) \in Int
<1>1. /\ li.quantity * li.unitCost \in Int
      /\ li.markupValue \in Int
  BY DEF LineItems
<1>2. Cost(li) \in Int
  BY <1>1, RoundType DEF Cost
<1>3. Cost(li) * li.markupValue \in Int
  BY <1>1, <1>2
<1>4. MarkupAmount(li) \in Int
  BY <1>1, <1>3, RoundType DEF MarkupAmount, Percent
<1>5. QED
  BY <1>2, <1>4 DEF Price

\* What normalizeLineItem stores is a line item, whichever fields the request
\* leaves out and whatever numbers it gives: the defaults fill every gap, and
\* there is one for every category (DEFAULT_MARKUP_PERCENT_BY_CATEGORY).
THEOREM NormalizedIsALineItem ==
    ASSUME NEW absent, absent \notin Categories, absent \notin MarkupTypes,
           absent \notin Int,
           NEW li \in [category : Categories \cup {absent},
                       quantity : Int \cup {absent},
                       unitCost : Int \cup {absent},
                       markupType : MarkupTypes \cup {absent},
                       markupValue : Int \cup {absent}]
    PROVE  NormalizeLineItem(li, absent) \in LineItems
<1> DEFINE category ==
             IF li.category = absent THEN "materials" ELSE li.category
<1>1. category \in Categories
  BY DEF Categories
<1>2. DefaultMarkup[category] \in Int
  BY <1>1 DEF DefaultMarkup, Categories, Percent
<1>3. "percent" \in MarkupTypes
  BY DEF MarkupTypes
<1> DEFINE default == DefaultMarkup[category]
           quantity == IF li.quantity = absent THEN 100 ELSE li.quantity
           unitCost == IF li.unitCost = absent THEN 0 ELSE li.unitCost
           type == IF li.markupType = absent THEN "percent" ELSE li.markupType
           value == IF li.markupValue = absent THEN default ELSE li.markupValue
<1>4. /\ quantity \in Int /\ unitCost \in Int
      /\ type \in MarkupTypes /\ value \in Int
  BY <1>2, <1>3
<1>5. NormalizeLineItem(li, absent) =
         [category |-> category, quantity |-> quantity, unitCost |-> unitCost,
          markupType |-> type, markupValue |-> value]
  BY DEF NormalizeLineItem
<1> HIDE DEF category, quantity, unitCost, type, value
<1>6. QED
  BY <1>1, <1>4, <1>5 DEF LineItems

LEMMA LinesFinite ==
    ASSUME NEW lines \in Seq(LineItems)
    PROVE  /\ IsFiniteSet(DOMAIN lines)
           /\ \A i \in DOMAIN lines : lines[i] \in LineItems
<1>1. IsFiniteSet(1..Len(lines))
  BY FS_Interval
<1>2. QED
  BY <1>1

LEMMA ColumnTypes ==
    ASSUME NEW lines \in Seq(LineItems)
    PROVE  \A i \in DOMAIN lines :
              /\ Costs(lines)[i] \in Int
              /\ MarkupAmounts(lines)[i] \in Int
              /\ LinePrices(lines)[i] \in Int
              /\ LinePrices(lines)[i]
                    = Costs(lines)[i] + MarkupAmounts(lines)[i]
BY LinesFinite, LineTypes DEF Costs, MarkupAmounts, LinePrices, Price

\* The lines' prices come to the subtotal, which is computed from the total cost
\* and the total markup.
LEMMA LinesAddUp ==
    ASSUME NEW lines \in Seq(LineItems)
    PROVE  /\ TotalCost(lines) \in Int
           /\ TotalMarkup(lines) \in Int
           /\ SumFunction(LinePrices(lines)) = SubtotalPrice(lines)
<1> DEFINE D == DOMAIN lines
<1>1. /\ IsFiniteSet(D)
      /\ DOMAIN Costs(lines) = D
      /\ DOMAIN MarkupAmounts(lines) = D
      /\ DOMAIN LinePrices(lines) = D
  BY LinesFinite DEF Costs, MarkupAmounts, LinePrices
<1>2. /\ SumFunctionOnSet(Costs(lines), D) \in Int
      /\ SumFunctionOnSet(MarkupAmounts(lines), D) \in Int
  BY <1>1, ColumnTypes, SumType
<1>3. SumFunctionOnSet(LinePrices(lines), D)
         = SumFunctionOnSet(Costs(lines), D)
              + SumFunctionOnSet(MarkupAmounts(lines), D)
  BY <1>1, ColumnTypes, SumAdds
<1>4. QED
  BY <1>1, <1>2, <1>3 DEF SumFunction, TotalCost, TotalMarkup, SubtotalPrice

LEMMA CategoriesFinite == IsFiniteSet(Categories)
<1> DEFINE Two == {"materials", "labor"}
           Four == Two \cup {"equipment", "subcontract"}
<1>1. \A a, b : IsFiniteSet({a, b})
  <2> TAKE a, b
  <2>1. IsFiniteSet({a} \cup {b})
    BY FS_Singleton, FS_Union
  <2>2. {a} \cup {b} = {a, b}
    OBVIOUS
  <2>3. QED
    BY <2>1, <2>2, Zenon
<1>2. Categories = Four \cup {"travel", "other"}
  BY DEF Categories
<1>3. QED
  BY <1>1, <1>2, FS_Union

\* So do the categories' prices, and those of labor and of the rest.
LEMMA CategoriesAddUp ==
    ASSUME NEW lines \in Seq(LineItems)
    PROVE  /\ SumFunction(ByCategory(lines)) = SubtotalPrice(lines)
           /\ PriceOf(lines, {"labor"}) \in Int
           /\ PriceOf(lines, Categories \ {"labor"}) \in Int
           /\ PriceOf(lines, {"labor"}) + PriceOf(lines, Categories \ {"labor"})
                 = SubtotalPrice(lines)
<1> DEFINE D == DOMAIN lines
           f == LinePrices(lines)
           class == [i \in D |-> lines[i].category]
           Of(cs) == {i \in D : lines[i].category \in cs}
<1>1. /\ IsFiniteSet(D)
      /\ \A i \in D : f[i] \in Int /\ lines[i].category \in Categories
  BY LinesFinite, ColumnTypes DEF LineItems
<1>2. SumFunctionOnSet(f, D) = SubtotalPrice(lines)
  <2>1. DOMAIN f = D
    BY DEF LinePrices
  <2>2. QED
    BY <2>1, LinesAddUp DEF SumFunction
<1>3. \A cs : PriceOf(lines, cs) = SumFunctionOnSet(f, Of(cs))
  BY DEF PriceOf
<1>4. SumFunction(ByCategory(lines)) = SubtotalPrice(lines)
  <2> DEFINE h == ByCategory(lines)
             part == [c \in Categories |-> Of({c})]
  <2>1. DOMAIN h = Categories
    BY DEF ByCategory
  <2>2. \A i \in D : class[i] \in Categories
    BY <1>1
  <2>3. \A c \in Categories :
           /\ part[c] \in SUBSET D
           /\ \A i \in D : i \in part[c] <=> class[i] = c
    OBVIOUS
  <2>4. \A c \in Categories : h[c] = SumFunctionOnSet(f, part[c])
    BY <1>3 DEF ByCategory
  <2> HIDE DEF D, f, class, h, part
  <2>5. SumFunctionOnSet(h, Categories) = SumFunctionOnSet(f, D)
    BY <1>1, <2>2, <2>3, <2>4, CategoriesFinite, SumOfClasses
  <2>6. QED
    BY <1>2, <2>1, <2>5 DEF SumFunction, h
<1>5. /\ Of({"labor"}) \in SUBSET D
      /\ D \ Of({"labor"}) = Of(Categories \ {"labor"})
      /\ Of(Categories \ {"labor"}) \in SUBSET D
  BY <1>1
<1> HIDE DEF D, f, class, Of
<1>6. /\ SumFunctionOnSet(f, Of({"labor"})) \in Int
      /\ SumFunctionOnSet(f, Of(Categories \ {"labor"})) \in Int
  <2>1. ASSUME NEW s \in SUBSET D PROVE SumFunctionOnSet(f, s) \in Int
    <3>1. IsFiniteSet(s)
      BY <1>1, FS_Subset
    <3>2. QED
      BY <1>1, <3>1, SumType
  <2>2. QED
    BY <1>5, <2>1
<1>7. SumFunctionOnSet(f, D) = SumFunctionOnSet(f, Of({"labor"}))
         + SumFunctionOnSet(f, D \ Of({"labor"}))
  BY <1>1, <1>5, SumSplits
<1>8. SumFunctionOnSet(f, D \ Of({"labor"}))
         = SumFunctionOnSet(f, Of(Categories \ {"labor"}))
  BY <1>5, Zenon
<1>9. QED
  BY <1>2, <1>3, <1>4, <1>6, <1>7, <1>8

LEMMA TotalType ==
    ASSUME NEW offer \in Offers
    PROVE  /\ offer.lineItems \in Seq(LineItems)
           /\ SubtotalPrice(offer.lineItems) \in Int
           /\ TaxAmount(offer) \in Int
           /\ TotalPrice(offer) \in Int
<1>1. offer.lineItems \in Seq(LineItems) /\ offer.taxRate \in Int
  BY DEF Offers
<1>2. SubtotalPrice(offer.lineItems) \in Int
  BY <1>1, LinesAddUp DEF SubtotalPrice
<1>3. SubtotalPrice(offer.lineItems) * offer.taxRate \in Int
  BY <1>1, <1>2
<1>4. TaxAmount(offer) \in Int
  BY <1>3, RoundType DEF TaxAmount, Percent
<1>5. QED
  BY <1>1, <1>2, <1>4 DEF TotalPrice

\* A deposit of at most all of the total is between nothing and the total.
LEMMA DepositIsAPart ==
    ASSUME NEW offer \in Offers,
           TotalPrice(offer) >= 0, offer.depositValue >= 0,
           offer.depositType = "percent" => offer.depositValue <= 100 * Percent
    PROVE  Deposit(offer) \in 0..TotalPrice(offer)
<1> DEFINE t == TotalPrice(offer)
           v == offer.depositValue
<1>1. t \in Nat /\ v \in Nat
  BY TotalType DEF Offers
<1>2. CASE offer.depositType = "percent"
  <2>1. v <= 100 * Percent
    BY <1>2
  <2>2. Deposit(offer) = Round2(t * v, 100 * Percent)
    BY <1>2 DEF Deposit
  <2> HIDE DEF t, v
  <2>3. Deposit(offer) \in 0..t
    BY <1>1, <2>1, <2>2, ShareIsAPart
  <2>4. QED
    BY <2>3 DEF t
<1>3. CASE offer.depositType = "fixed"
  <2>1. Deposit(offer) = IF v < t THEN v ELSE t
    BY <1>3 DEF Deposit
  <2>2. QED
    BY <1>1, <2>1
<1>4. CASE offer.depositType = "none"
  BY <1>1, <1>4 DEF Deposit
<1>5. QED
  BY <1>2, <1>3, <1>4 DEF Offers, DepositTypes

\* Every offer adds up to the cent, however many lines it has and whatever they
\* cost: lines, categories, labor and the rest, tax, deposit and balance, each
\* rounded on its own, come to the one total (calculateEstimateTotals,
\* calculateDeposit).
THEOREM OffersAddUp == \A offer \in Offers : AddsUp(offer)
<1> SUFFICES ASSUME NEW offer \in Offers PROVE AddsUp(offer)
  OBVIOUS
<1>1. SumFunction(LinePrices(offer.lineItems)) = SubtotalPrice(offer.lineItems)
  BY TotalType, LinesAddUp
<1>2. SumFunction(ByCategory(offer.lineItems)) = SubtotalPrice(offer.lineItems)
  BY TotalType, CategoriesAddUp
<1>3. LaborPrice(offer) + NonLaborPrice(offer) + TaxAmount(offer)
         = TotalPrice(offer)
  BY TotalType, CategoriesAddUp DEF LaborPrice, NonLaborPrice, TotalPrice
<1>4. ASSUME TotalPrice(offer) >= 0, offer.depositValue >= 0,
             offer.depositType = "percent"
                => offer.depositValue <= 100 * Percent
      PROVE  Deposit(offer) >= 0 /\ BalanceDue(offer) >= 0
  BY <1>4, TotalType, DepositIsAPart DEF BalanceDue
<1>5. QED
  BY <1>1, <1>2, <1>3, <1>4 DEF AddsUp

\* A tax that takes back no more than all of it keeps the order of subtotals,
\* also through the rounding.
LEMMA TaxKeepsOrder ==
    ASSUME NEW s \in Int, NEW t \in Int, s <= t,
           NEW rate \in Int, rate >= -100 * Percent
    PROVE  s + Round2(s * rate, 100 * Percent)
              <= t + Round2(t * rate, 100 * Percent)
<1> DEFINE D == 100 * Percent
           u == s * rate
           w == t * rate
           x == Round2(u, D)
           y == Round2(w, D)
<1>1. /\ D = 10000 /\ u \in Int /\ w \in Int
      /\ (t - s) * (D + rate) >= 0
      /\ (t - s) * (D + rate) = D * t - D * s + w - u
  <2>1. D = 10000 /\ D \in Nat \ {0} /\ u \in Int /\ w \in Int
    BY DEF Percent
  <2>2. t - s \in Nat /\ D + rate \in Nat
    BY <2>1
  <2> HIDE DEF D
  <2>3. (t - s) * (D + rate) = D * t - D * s + w - u
    BY <2>1
  <2>4. \A a, b \in Nat : a * b >= 0
    OBVIOUS
  <2>5. QED
    BY <2>1, <2>2, <2>3, <2>4
<1> HIDE DEF u, w, D
<1>2. /\ x \in Int /\ 2 * D * x <= 2 * u + D
      /\ y \in Int /\ 2 * w - D < 2 * D * y
  <2>1. D \in Nat \ {0} /\ u \in Int /\ w \in Int
    BY <1>1
  <2>2. x \in Int /\ 2 * D * x <= 2 * u + D
    BY <2>1, RoundsToNearest
  <2>3. y \in Int /\ 2 * w - D < 2 * D * y
    BY <2>1, RoundsToNearest
  <2>4. QED
    BY <2>2, <2>3
<1> HIDE DEF x, y
<1>3. 0 <= 10000 * t - 10000 * s + w - u
  BY <1>1
<1>4. s + x <= t + y
  BY <1>1, <1>2, <1>3
<1>5. QED
  BY <1>4 DEF D, u, w, x, y

\* What projectMarkupChange leaves, and what it moves.
LEMMA ProjectedLines ==
    ASSUME NEW offer \in Offers, NEW delta \in Int
    PROVE  LET p == ProjectMarkupChange(offer, delta)
               lines == offer.lineItems IN
           /\ p \in Offers
           /\ p.taxRate = offer.taxRate
           /\ DOMAIN p.lineItems = DOMAIN lines
           /\ \A i \in DOMAIN lines :
                 /\ Cost(p.lineItems[i]) = Cost(lines[i])
                 /\ i \notin PercentLines(offer) => p.lineItems[i] = lines[i]
                 /\ i \in PercentLines(offer) =>
                       /\ p.lineItems[i].markupType = "percent"
                       /\ p.lineItems[i].markupValue =
                             IF lines[i].markupValue + delta < 0 THEN 0
                             ELSE lines[i].markupValue + delta
<1> DEFINE p == ProjectMarkupChange(offer, delta)
           lines == offer.lineItems
           Line(li) == IF li.markupType = "fixed" THEN li
                       ELSE [li EXCEPT !.markupValue =
                                IF @ + delta < 0 THEN 0 ELSE @ + delta]
           new == [i \in DOMAIN lines |-> Line(lines[i])]
<1>1. /\ lines \in Seq(LineItems)
      /\ \A i \in DOMAIN lines : lines[i] \in LineItems
  BY TotalType, LinesFinite
<1>2. p = [offer EXCEPT !.lineItems = new]
  BY DEF ProjectMarkupChange
<1>3. ASSUME NEW li \in LineItems
      PROVE  /\ Line(li) \in LineItems
             /\ Cost(Line(li)) = Cost(li)
             /\ li.markupType # "percent" => Line(li) = li
             /\ li.markupType = "percent" =>
                   /\ Line(li).markupType = "percent"
                   /\ Line(li).markupValue =
                         IF li.markupValue + delta < 0 THEN 0
                         ELSE li.markupValue + delta
  BY DEF LineItems, MarkupTypes, Cost
<1> HIDE DEF Line
<1>4. new \in Seq(LineItems) /\ DOMAIN new = DOMAIN lines
  BY <1>1, <1>3
<1>5. p \in Offers /\ p.lineItems = new /\ p.taxRate = offer.taxRate
  BY <1>2, <1>4 DEF Offers
<1>6. QED
  BY <1>1, <1>3, <1>4, <1>5 DEF PercentLines

LEMMA NoChangeProjected ==
    ASSUME NEW offer \in Offers,
           \A i \in PercentLines(offer) : offer.lineItems[i].markupValue >= 0
    PROVE  ProjectMarkupChange(offer, 0) = offer
<1> DEFINE lines == offer.lineItems
           new == ProjectMarkupChange(offer, 0).lineItems
<1>1. /\ lines \in Seq(LineItems)
      /\ \A i \in DOMAIN lines : lines[i] \in LineItems
  BY TotalType, LinesFinite
<1>2. ASSUME NEW li \in LineItems,
             li.markupType = "percent" => li.markupValue >= 0
      PROVE  (IF li.markupType = "fixed" THEN li
              ELSE [li EXCEPT !.markupValue =
                       IF @ + 0 < 0 THEN 0 ELSE @ + 0]) = li
  BY <1>2 DEF LineItems, MarkupTypes
<1>3. new = lines
  BY <1>1, <1>2 DEF ProjectMarkupChange, PercentLines, Offers
<1>4. QED
  BY <1>3 DEF ProjectMarkupChange, Offers

LEMMA MarkupKeepsOrder ==
    ASSUME NEW li \in LineItems, NEW lj \in LineItems,
           li.markupType = "percent", lj.markupType = "percent",
           Cost(li) = Cost(lj), Cost(li) >= 0,
           li.markupValue <= lj.markupValue
    PROVE  MarkupAmount(li) <= MarkupAmount(lj)
<1> DEFINE c == Cost(li)
           v == li.markupValue
           w == lj.markupValue
<1>1. c \in Nat /\ v \in Int /\ w \in Int /\ v <= w
  BY LineTypes DEF LineItems
<1>2. /\ MarkupAmount(li) = Round2(c * v, 100 * Percent)
      /\ MarkupAmount(lj) = Round2(c * w, 100 * Percent)
  BY DEF MarkupAmount
<1>3. 100 * Percent \in Nat \ {0}
  BY DEF Percent
<1> HIDE DEF c, v, w
<1>4. c * v \in Int /\ c * w \in Int /\ c * v <= c * w
  BY <1>1, TimesAtMost
<1>5. QED
  BY <1>2, <1>3, <1>4, RoundIsMonotone

\* A smaller markup on lines that cost something never raises the total.
LEMMA MarkdownLowersTotal ==
    ASSUME NEW offer \in Offers, NEW a \in Int, NEW b \in Int, a <= b,
           \A i \in PercentLines(offer) : Cost(offer.lineItems[i]) >= 0,
           offer.taxRate >= -100 * Percent
    PROVE  TotalPrice(ProjectMarkupChange(offer, a))
              <= TotalPrice(ProjectMarkupChange(offer, b))
<1> DEFINE p == ProjectMarkupChange(offer, a)
           q == ProjectMarkupChange(offer, b)
           D == DOMAIN offer.lineItems
<1>1. /\ p \in Offers /\ q \in Offers
      /\ p.lineItems \in Seq(LineItems) /\ q.lineItems \in Seq(LineItems)
      /\ offer.lineItems \in Seq(LineItems)
      /\ p.taxRate = offer.taxRate /\ q.taxRate = offer.taxRate
      /\ DOMAIN p.lineItems = D /\ DOMAIN q.lineItems = D
      /\ IsFiniteSet(D)
  BY ProjectedLines, TotalType, LinesFinite
<1>2. ASSUME NEW i \in D
      PROVE  /\ Cost(p.lineItems[i]) = Cost(q.lineItems[i])
             /\ MarkupAmount(p.lineItems[i]) <= MarkupAmount(q.lineItems[i])
  <2>1. /\ p.lineItems[i] \in LineItems /\ q.lineItems[i] \in LineItems
        /\ offer.lineItems[i] \in LineItems
    BY <1>1, LinesFinite
  <2>2. /\ Cost(p.lineItems[i]) = Cost(offer.lineItems[i])
        /\ Cost(q.lineItems[i]) = Cost(offer.lineItems[i])
    BY ProjectedLines
  <2>3. CASE i \in PercentLines(offer)
    <3>1. /\ p.lineItems[i].markupType = "percent"
          /\ q.lineItems[i].markupType = "percent"
          /\ p.lineItems[i].markupValue <= q.lineItems[i].markupValue
      <4> DEFINE v == offer.lineItems[i].markupValue
      <4>1. v \in Int
        BY <2>1 DEF LineItems
      <4>2. /\ p.lineItems[i].markupType = "percent"
            /\ p.lineItems[i].markupValue = IF v + a < 0 THEN 0 ELSE v + a
        BY <2>3, ProjectedLines
      <4>3. /\ q.lineItems[i].markupType = "percent"
            /\ q.lineItems[i].markupValue = IF v + b < 0 THEN 0 ELSE v + b
        BY <2>3, ProjectedLines
      <4> HIDE DEF p, q, v
      <4>4. QED
        BY <4>1, <4>2, <4>3
    <3>2. QED
      BY <2>1, <2>2, <2>3, <3>1, MarkupKeepsOrder
  <2>4. CASE i \notin PercentLines(offer)
    <3>1. p.lineItems[i] = q.lineItems[i]
      BY <2>4, ProjectedLines
    <3>2. MarkupAmount(p.lineItems[i]) \in Int
      BY <2>1, LineTypes
    <3>3. QED
      BY <2>2, <3>1, <3>2
  <2>5. QED
    BY <2>3, <2>4
<1> HIDE DEF p, q, D
<1>3. TotalCost(p.lineItems) = TotalCost(q.lineItems)
  BY <1>1, <1>2 DEF TotalCost, Costs
<1>4. TotalMarkup(p.lineItems) <= TotalMarkup(q.lineItems)
  <2> DEFINE f == MarkupAmounts(p.lineItems)
             g == MarkupAmounts(q.lineItems)
  <2>1. DOMAIN f = D /\ DOMAIN g = D
    BY <1>1 DEF MarkupAmounts
  <2>2. \A i \in D : f[i] \in Int /\ g[i] \in Int /\ f[i] <= g[i]
    <3>1. \A i \in D : f[i] \in Int /\ g[i] \in Int
      BY <1>1, ColumnTypes
    <3>2. QED
      BY <1>1, <1>2, <3>1 DEF MarkupAmounts
  <2> HIDE DEF f, g
  <2>3. SumFunctionOnSet(f, D) <= SumFunctionOnSet(g, D)
    BY <1>1, <2>2, SumIsMonotone
  <2>4. QED
    BY <2>1, <2>3 DEF TotalMarkup, SumFunction, f, g
<1>5. /\ SubtotalPrice(p.lineItems) \in Int
      /\ SubtotalPrice(q.lineItems) \in Int
      /\ SubtotalPrice(p.lineItems) <= SubtotalPrice(q.lineItems)
  BY <1>1, <1>3, <1>4, LinesAddUp DEF SubtotalPrice
<1>6. offer.taxRate \in Int
  BY DEF Offers
<1>7. TotalPrice(p) <= TotalPrice(q)
  BY <1>1, <1>5, <1>6, TaxKeepsOrder DEF TotalPrice, TaxAmount
<1>8. QED
  BY <1>7 DEF p, q

\* Projecting a change of markup is sound for every offer: under the stated
\* conditions a smaller markup never shows a higher total, and no change shows
\* the estimate's own (projectMarkupChange).
THEOREM OffersProjectInOrder ==
    \A offer \in Offers, deltas \in SUBSET Int : ProjectsInOrder(offer, deltas)
<1> SUFFICES ASSUME NEW offer \in Offers, NEW deltas \in SUBSET Int
             PROVE  ProjectsInOrder(offer, deltas)
  OBVIOUS
<1>1. (\A i \in PercentLines(offer) : offer.lineItems[i].markupValue >= 0)
        => TotalPrice(ProjectMarkupChange(offer, 0)) = TotalPrice(offer)
  BY NoChangeProjected
<1>2. ASSUME \A i \in PercentLines(offer) : Cost(offer.lineItems[i]) >= 0,
             offer.taxRate >= -100 * Percent,
             NEW a \in deltas, NEW b \in deltas, a <= b
      PROVE  TotalPrice(ProjectMarkupChange(offer, a))
                <= TotalPrice(ProjectMarkupChange(offer, b))
  <2>1. a \in Int /\ b \in Int
    OBVIOUS
  <2>2. QED
    BY <1>2, <2>1, MarkdownLowersTotal
<1>3. QED
  BY <1>1, <1>2 DEF ProjectsInOrder

-----------------------------------------------------------------------------
(* Estimates and time in one store                                           *)

\* The two columns of a job are of the same job, and only a job that is there
\* has a snapshot.
Together ==
    /\ timeDrawn \in [jobs : Nat, entries : Nat]
    /\ drawn.jobs = timeDrawn.jobs
    /\ DOMAIN models = DOMAIN jobs
    /\ DOMAIN models \subseteq 1..timeDrawn.jobs
    /\ DOMAIN snapshots \subseteq DOMAIN models

\* What the jobs are quoted.
Quoting == [j \in DOMAIN jobs |-> Quote(j)]

-----------------------------------------------------------------------------
(* The estimate workflow                                                     *)

LEMMA StepsOfTheWorkflow == [BillingNext]_allVars => [Next]_vars
BY DEF BillingNext, allVars, OpenJob, RemoveJob, EstimateRequest, TimeRequest,
       Next, JobRequest

\* Time tracking and billing only add to the estimate workflow: whatever is
\* said of it holds of the whole (estimateController.js next to
\* timeTrackingController.js).
THEOREM WorkflowIsKept == BillingSpec => Spec
<1>1. BillingInit => Init
  BY DEF BillingInit
<1>2. QED
  BY <1>1, StepsOfTheWorkflow, PTL DEF BillingSpec, Spec

-----------------------------------------------------------------------------
(* What both parts have in common                                            *)

LEMMA TogetherInit == BillingInit => Together
BY DEF BillingInit, Init, T!Init, Together

\* Requests about time leave the jobs; only finalizing adds a snapshot, to a
\* job that has none.
LEMMA TimeSteps ==
    ASSUME Together, TimeRequest
    PROVE  /\ UNCHANGED vars
           /\ timeDrawn' \in [jobs : Nat, entries : Nat]
           /\ timeDrawn'.jobs = timeDrawn.jobs
           /\ DOMAIN models' = DOMAIN models
           /\ DOMAIN snapshots' \subseteq DOMAIN models
           /\ \/ snapshots' = snapshots
              \/ \E j \in DOMAIN models : T!Finalize(j)
           /\ \A j \in DOMAIN snapshots :
                 /\ models'[j] = models[j]
                 /\ j \in DOMAIN snapshots'
                 /\ snapshots'[j] = snapshots[j]
<1> DEFINE Goal == /\ UNCHANGED vars
                   /\ timeDrawn' \in [jobs : Nat, entries : Nat]
                   /\ timeDrawn'.jobs = timeDrawn.jobs
                   /\ DOMAIN models' = DOMAIN models
                   /\ DOMAIN snapshots' \subseteq DOMAIN models
                   /\ \/ snapshots' = snapshots
                      \/ \E j \in DOMAIN models : T!Finalize(j)
                   /\ \A j \in DOMAIN snapshots :
                         /\ models'[j] = models[j]
                         /\ j \in DOMAIN snapshots'
                         /\ snapshots'[j] = snapshots[j]
<1>1. UNCHANGED vars
  BY DEF TimeRequest
<1>2. ASSUME UNCHANGED <<models, snapshots, timeDrawn>> PROVE Goal
  BY <1>1, <1>2 DEF Together
<1>3. ASSUME NEW row, T!AddEntry(row) PROVE Goal
  <2> DEFINE n == timeDrawn.entries + 1
  <2>1. /\ timeDrawn' = [timeDrawn EXCEPT !.entries = n]
        /\ UNCHANGED <<models, snapshots>>
    BY <1>3 DEF T!AddEntry
  <2>2. timeDrawn \in [jobs : Nat, entries : Nat] /\ n \in Nat
    BY DEF Together
  <2>3. /\ timeDrawn' \in [jobs : Nat, entries : Nat]
        /\ timeDrawn'.jobs = timeDrawn.jobs
    <3> HIDE DEF n
    <3> QED BY <2>1, <2>2
  <2>4. QED
    BY <1>1, <2>1, <2>3 DEF Together
<1>4. ASSUME NEW i, NEW by, T!Complete(i, by) PROVE Goal
  BY <1>2, <1>4 DEF T!Complete
<1>5. ASSUME NEW j \in DOMAIN models, NEW m, T!SetPricingModel(j, m) PROVE Goal
  BY <1>1, <1>5 DEF T!SetPricingModel, T!Finalized, Together
<1>6. ASSUME NEW j \in DOMAIN models, T!Finalize(j) PROVE Goal
  <2> DEFINE row == T!Summary(models[j], Quoting[j], T!TimeOf(j))
  <2>1. /\ j \notin DOMAIN snapshots
        /\ snapshots' = T!Put(snapshots, j, row)
        /\ UNCHANGED <<models, timeDrawn>>
    BY <1>6 DEF T!Finalize, T!Finalized, Quoting
  <2> HIDE DEF row
  <2>2. QED
    BY <1>1, <1>6, <2>1 DEF Together, T!Put
<1>7. CASE T!MemberRequest
  <2> SUFFICES ASSUME NEW u \in DOMAIN rates,
                      \/ \E j \in DOMAIN models : T!ClockIn(u, j)
                      \/ T!ClockOut(u)
                      \/ \E j \in DOMAIN models, in, out \in T!Times,
                            r \in Rates \cup {None}, b \in BOOLEAN :
                               T!CreateManual(u, j, in, out, r, b)
                      \/ \E r \in Rates : T!SetDefaultRate(u, r)
                      \/ T!RemoveMember(u)
               PROVE  Goal
    BY <1>7 DEF T!MemberRequest
  <2>1. ASSUME NEW j \in DOMAIN models, T!ClockIn(u, j) PROVE Goal
    BY <1>3, <2>1 DEF T!ClockIn
  <2>2. ASSUME T!ClockOut(u) PROVE Goal
    BY <1>4, <2>2 DEF T!ClockOut
  <2>3. ASSUME NEW j \in DOMAIN models, NEW in, NEW out, NEW r, NEW b,
               T!CreateManual(u, j, in, out, r, b)
        PROVE  Goal
    BY <1>3, <2>3 DEF T!CreateManual
  <2>4. ASSUME NEW r, T!SetDefaultRate(u, r) PROVE Goal
    BY <1>2, <2>4 DEF T!SetDefaultRate
  <2>5. ASSUME T!RemoveMember(u) PROVE Goal
    BY <1>2, <2>5 DEF T!RemoveMember
  <2>6. QED
    BY <2>1, <2>2, <2>3, <2>4, <2>5
<1>8. CASE T!EntryRequest
  <2>1. ASSUME NEW i, T!ForceClockOut(i) PROVE Goal
    BY <1>4, <2>1 DEF T!ForceClockOut
  <2>2. ASSUME NEW i, T!DeleteEntry(i) PROVE Goal
    BY <1>2, <2>2 DEF T!DeleteEntry
  <2>3. ASSUME NEW i, NEW r, NEW b, T!UpdateTerms(i, r, b) PROVE Goal
    BY <1>2, <2>3 DEF T!UpdateTerms
  <2>4. ASSUME NEW i, NEW r, NEW b, NEW in, NEW out,
               \/ T!UpdateTimes(i, r, b, in, out)
               \/ T!UpdateTimesRefused(i, r, b, in, out)
        PROVE  Goal
    BY <1>2, <2>4 DEF T!UpdateTimes, T!UpdateTimesRefused
  <2>5. QED
    BY <1>8, <2>1, <2>2, <2>3, <2>4 DEF T!EntryRequest
<1>9. CASE T!Tick
  BY <1>2, <1>9 DEF T!Tick
<1>10. QED
  BY <1>5, <1>6, <1>7, <1>8, <1>9 DEF TimeRequest

\* Requests about estimates leave the jobs where they are.
LEMMA EstimateSteps ==
    ASSUME DrawnOK, EstimateRequest
    PROVE  /\ UNCHANGED timeVars
           /\ DOMAIN jobs' = DOMAIN jobs
           /\ drawn'.jobs = drawn.jobs
<1> DEFINE Goal == DOMAIN jobs' = DOMAIN jobs /\ drawn'.jobs = drawn.jobs
<1>1. UNCHANGED timeVars
  BY DEF EstimateRequest
<1>2. ASSUME DrawEstimateAndToken PROVE drawn'.jobs = drawn.jobs
  <2>1. drawn = [jobs |-> drawn.jobs, estimates |-> drawn.estimates,
                 tokens |-> drawn.tokens]
    BY DEF DrawnOK
  <2>2. drawn' = [jobs |-> drawn.jobs, estimates |-> drawn.estimates + 1,
                  tokens |-> drawn.tokens + 1]
    BY <1>2, <2>1 DEF DrawEstimateAndToken
  <2>3. QED
    BY <2>2
<1>3. ASSUME UNCHANGED <<jobs, drawn>> PROVE Goal
  BY <1>3
<1>4. ASSUME NEW j, NEW e, SetCurrentEstimate(j, e), DrawEstimateAndToken
      PROVE  Goal
  BY <1>2, <1>4 DEF SetCurrentEstimate
<1>5. ASSUME NEW j \in DOMAIN jobs,
             \/ \E s \in JobStatuses : UpdateJobStatus(j, s)
             \/ \E c \in Contents, d \in ValidDays : CreateEstimate(j, c, d)
             \/ CreateEstimateThrows
      PROVE  Goal
  <2>1. ASSUME NEW s, UpdateJobStatus(j, s) PROVE Goal
    BY <2>1 DEF UpdateJobStatus
  <2>2. ASSUME NEW c, NEW d, CreateEstimate(j, c, d) PROVE Goal
    BY <1>4, <2>2 DEF CreateEstimate
  <2>3. ASSUME CreateEstimateThrows PROVE Goal
    BY <1>2, <2>3 DEF CreateEstimateThrows
  <2>4. QED
    BY <1>5, <2>1, <2>2, <2>3
<1>6. ASSUME NEW e \in DOMAIN estimates, NEW by,
             RecordApproval(e, by) \/ RecordRejection(e, by), UNCHANGED drawn
      PROVE  Goal
  BY <1>6 DEF RecordApproval, RecordRejection
<1>7. CASE StaffRequest
  <2>1. ASSUME NEW e, NEW c, NEW d,
               UpdateEstimate(e, c, d) \/ UpdateEstimateThrows(e, c, d)
        PROVE  Goal
    BY <1>3, <2>1 DEF UpdateEstimate, UpdateEstimateThrows
  <2>2. ASSUME NEW e, NEW c, NEW d, NEW co, ReviseEstimate(e, c, d, co)
        PROVE  Goal
    BY <1>4, <2>2 DEF ReviseEstimate
  <2>3. ASSUME NEW e, NEW co, ReviseEstimateThrows(e, co) PROVE Goal
    BY <1>2, <2>3 DEF ReviseEstimateThrows
  <2>4. ASSUME NEW e, \/ MarkSent(e) \/ MarkSentThrows(e)
                      \/ Expire(e) \/ DeleteEstimate(e)
        PROVE  Goal
    BY <1>3, <2>4 DEF MarkSent, MarkSentThrows, Expire, DeleteEstimate
  <2>5. ASSUME NEW e \in DOMAIN estimates, StaffApprove(e) \/ StaffReject(e)
        PROVE  Goal
    BY <1>6, <2>5 DEF StaffApprove, StaffReject
  <2>6. ASSUME NEW e, RegenerateShareLink(e) PROVE Goal
    <3>1. /\ jobs' = jobs
          /\ drawn' = [drawn EXCEPT !.tokens = drawn.tokens + 1]
      BY <2>6 DEF RegenerateShareLink
    <3>2. QED
      BY <3>1 DEF DrawnOK
  <2>7. QED
    BY <1>1, <1>7, <2>1, <2>2, <2>3, <2>4, <2>5, <2>6 DEF StaffRequest
<1>8. CASE CustomerRequest
  <2> SUFFICES ASSUME NEW t \in DOMAIN tokenIndex,
                      Resolves(t),
                      PublicView(t) \/ PublicApprove(t) \/ PublicReject(t)
               PROVE  Goal
    BY <1>1, <1>8 DEF CustomerRequest
  <2>1. ASSUME PublicView(t) PROVE Goal
    BY <1>3, <2>1 DEF PublicView
  <2>2. ASSUME NEW a, FirstAnswer(t, a) PROVE Goal
    BY <1>6, <2>2 DEF FirstAnswer, Resolves
  <2>3. ASSUME NEW a, RepeatAnswer(t, a) PROVE Goal
    BY <1>3, <2>3 DEF RepeatAnswer
  <2>4. QED
    BY <2>1, <2>2, <2>3 DEF PublicApprove, PublicReject
<1>9. CASE Tick
  BY <1>1, <1>3, <1>9 DEF Tick
<1>10. QED
  BY <1>1, <1>5, <1>7, <1>8, <1>9 DEF EstimateRequest

\* Opening a job draws a new id for it; deleting one drops its two columns and
\* its snapshot.
LEMMA OpenSteps ==
    ASSUME DrawnOK, Together, NEW m, OpenJob(m)
    PROVE  /\ Together'
           /\ UNCHANGED snapshots
           /\ \A j \in DOMAIN models : models'[j] = models[j]
<1>1. /\ jobs' = Put(jobs, drawn.jobs + 1,
                     [status |-> "estimating", currentEstimateId |-> None])
      /\ drawn' = [drawn EXCEPT !.jobs = drawn.jobs + 1]
  BY DEF OpenJob, CreateJob, NewJobId
<1>2. /\ models' = T!Put(models, timeDrawn.jobs + 1, m)
      /\ timeDrawn' = [timeDrawn EXCEPT !.jobs = timeDrawn.jobs + 1]
      /\ snapshots' = snapshots
  BY DEF OpenJob, T!CreateJob
<1>3. timeDrawn = [jobs |-> timeDrawn.jobs, entries |-> timeDrawn.entries]
  BY DEF Together
<1>4. /\ timeDrawn' = [jobs |-> timeDrawn.jobs + 1,
                       entries |-> timeDrawn.entries]
      /\ timeDrawn.jobs \in Nat /\ timeDrawn.entries \in Nat
  BY <1>2, <1>3 DEF Together
<1>5. /\ timeDrawn' \in [jobs : Nat, entries : Nat]
      /\ timeDrawn'.jobs = timeDrawn.jobs + 1
  BY <1>4
<1>6. drawn'.jobs = drawn.jobs + 1
  BY <1>1 DEF DrawnOK
<1>7. DOMAIN jobs' = DOMAIN jobs \cup {drawn.jobs + 1}
  BY <1>1 DEF Put
<1>8. /\ DOMAIN models' = DOMAIN models \cup {timeDrawn.jobs + 1}
      /\ \A j \in DOMAIN models : models'[j] = models[j]
  BY <1>2, <1>4 DEF T!Put, Together
<1>9. QED
  BY <1>2, <1>4, <1>5, <1>6, <1>7, <1>8 DEF Together

LEMMA RemoveSteps ==
    ASSUME Together, NEW j, RemoveJob(j)
    PROVE  /\ Together'
           /\ \A k \in DOMAIN snapshots :
                 k = j \/ /\ models'[k] = models[k]
                          /\ k \in DOMAIN snapshots'
                          /\ snapshots'[k] = snapshots[k]
<1>1. jobs' = Drop(jobs, {j}) /\ drawn' = drawn
  BY DEF RemoveJob, DeleteJob
<1>2. /\ models' = T!Drop(models, {j})
      /\ snapshots' = T!Drop(snapshots, {j})
      /\ timeDrawn' = timeDrawn
  BY DEF RemoveJob, T!DeleteJob
<1>3. DOMAIN jobs' = DOMAIN jobs \ {j}
  BY <1>1 DEF Drop, Restrict
<1>4. /\ DOMAIN models' = DOMAIN models \ {j}
      /\ DOMAIN snapshots' = DOMAIN snapshots \ {j}
      /\ \A k \in DOMAIN models \ {j} : models'[k] = models[k]
      /\ \A k \in DOMAIN snapshots \ {j} : snapshots'[k] = snapshots[k]
  BY <1>2 DEF T!Drop, T!Restrict
<1>5. QED
  BY <1>1, <1>2, <1>3, <1>4 DEF Together

\* Every request keeps the two columns of a job together.
LEMMA TogetherStep ==
    ASSUME DrawnOK, Together, [BillingNext]_allVars
    PROVE  Together'
<1>1. ASSUME NEW m, OpenJob(m) PROVE Together'
  BY <1>1, OpenSteps
<1>2. ASSUME NEW j, RemoveJob(j) PROVE Together'
  BY <1>2, RemoveSteps
<1>3. ASSUME EstimateRequest PROVE Together'
  BY <1>3, EstimateSteps DEF Together, timeVars
<1>4. ASSUME TimeRequest PROVE Together'
  BY <1>4, TimeSteps DEF Together, vars
<1>5. ASSUME UNCHANGED allVars PROVE Together'
  BY <1>5 DEF Together, allVars, timeVars, vars
<1>6. QED
  BY <1>1, <1>2, <1>3, <1>4, <1>5 DEF BillingNext

LEMMA TogetherHolds == BillingSpec => [](IInv /\ Together)
<1>1. IInv => DrawnOK
  BY DEF IInv, TypeOK
<1>2. BillingSpec => []IInv
  BY WorkflowIsKept, InvariantHolds, PTL
<1>3. BillingSpec => Together /\ [][BillingNext]_allVars
  BY TogetherInit DEF BillingSpec
<1>4. IInv /\ Together /\ [BillingNext]_allVars => Together'
  BY <1>1, TogetherStep
<1>5. QED
  BY <1>2, <1>3, <1>4, PTL

-----------------------------------------------------------------------------
(* What the whole keeps of its parts                                         *)

\* What was sent stays a business record, and an agreement is permanent, also
\* while time is logged and the job is priced and finalized
\* (timeTrackingController.js only reads the estimates).
THEOREM SentStaySent == BillingSpec => SentIsARecord
BY WorkflowIsKept, SentEstimatesAreRecords, PTL

\* Whatever is requested, a final number stays and its job keeps its model.
LEMMA FinalStep ==
    ASSUME DrawnOK, Together, [BillingNext]_allVars
    PROVE  T!FinalNumbersKept
<1>1. ASSUME NEW m, OpenJob(m) PROVE T!FinalNumbersKept
  BY <1>1, OpenSteps DEF T!FinalNumbersKept, T!Finalized, Together
<1>2. ASSUME NEW j, RemoveJob(j) PROVE T!FinalNumbersKept
  <2>1. j \notin DOMAIN models'
    BY <1>2 DEF RemoveJob, T!DeleteJob, T!Drop, T!Restrict
  <2>2. QED
    BY <1>2, <2>1, RemoveSteps DEF T!FinalNumbersKept, T!Finalized
<1>3. ASSUME EstimateRequest PROVE T!FinalNumbersKept
  BY <1>3, EstimateSteps DEF timeVars, T!FinalNumbersKept, T!Finalized
<1>4. ASSUME TimeRequest PROVE T!FinalNumbersKept
  BY <1>4, TimeSteps DEF T!FinalNumbersKept, T!Finalized
<1>5. ASSUME UNCHANGED allVars PROVE T!FinalNumbersKept
  BY <1>5 DEF allVars, timeVars, T!FinalNumbersKept, T!Finalized
<1>6. QED
  BY <1>1, <1>2, <1>3, <1>4, <1>5 DEF BillingNext

\* A final number never changes, with the estimates as they really move after
\* the job was finalized (finalizeJobPricing, SetPricingModel's refusal).
THEOREM FinalNumbersStayFinal == BillingSpec => FinalIsFinal
<1>1. BillingSpec => [][BillingNext]_allVars
  BY DEF BillingSpec
<1>2. IInv /\ Together /\ [BillingNext]_allVars
         => [T!FinalNumbersKept]_(T!vars)
  BY FinalStep DEF IInv, TypeOK
<1>3. QED
  BY <1>1, <1>2, TogetherHolds, PTL DEF FinalIsFinal, T!FinalIsFinal

-----------------------------------------------------------------------------
(* Time tracking, implemented: a request about estimates changes the quote   *)
(* of one job at most.                                                       *)

\* Of every job but j0, the estimate it points at is left alone.
OthersKept(j0) ==
    /\ \A j \in DOMAIN jobs :
          j # j0 => jobs'[j].currentEstimateId = jobs[j].currentEstimateId
    /\ \A e \in DOMAIN estimates :
          estimates[e].jobId # j0 =>
             /\ e \in DOMAIN estimates'
             /\ estimates'[e].content = estimates[e].content
    /\ DOMAIN estimates' \subseteq DOMAIN estimates \cup {NewEstimateId}

QuotesOK == \A j \in DOMAIN jobs : Quote(j) \in T!Quotes \cup {None}

LEMMA QuoteType == TypeOK => QuotesOK
<1> SUFFICES ASSUME TypeOK, NEW j \in DOMAIN jobs
             PROVE  Quote(j) \in T!Quotes \cup {None}
  BY DEF QuotesOK
<1> DEFINE e == jobs[j].currentEstimateId
<1>1. ASSUME e \in DOMAIN estimates PROVE Quote(j) \in T!Quotes
  <2>1. estimates[e].content \in Contents
    BY <1>1 DEF TypeOK, EstimatesOK, EstimateRow
  <2>2. QED
    BY <1>1, <2>1 DEF Quote, QuoteOf, Quoted, Prices, T!Quotes
<1>2. QED
  BY <1>1 DEF Quote

LEMMA QuotesOfOthersKept ==
    ASSUME IInv, NEW j0, OthersKept(j0), NEW j \in DOMAIN jobs, j # j0
    PROVE  Quote(j)' = Quote(j)
<1> DEFINE e == jobs[j].currentEstimateId
<1>1. jobs'[j].currentEstimateId = e
  BY DEF OthersKept
<1>2. CASE e \in DOMAIN estimates
  <2>1. estimates[e].jobId = j
    BY <1>2 DEF IInv, Chains, CurrentIsNotOutdated
  <2>2. e \in DOMAIN estimates' /\ estimates'[e].content = estimates[e].content
    BY <1>2, <2>1 DEF OthersKept
  <2>3. QED
    BY <1>1, <1>2, <2>2 DEF Quote, QuoteOf
<1>3. CASE e \notin DOMAIN estimates
  <2>1. e # NewEstimateId
    <3>1. e # None => e <= drawn.estimates
      BY DEF IInv, Chains, IdsDrawn
    <3>2. drawn.estimates \in Nat /\ e \in Nat \cup {None}
      BY DrawnFacts DEF IInv, TypeOK, DrawnOK, JobsOK, JobRow, EstimateIds
    <3>3. QED
      BY <3>1, <3>2, ConstantsAssumption DEF NewEstimateId
  <2>2. e \notin DOMAIN estimates'
    BY <1>3, <2>1 DEF OthersKept
  <2>3. QED
    BY <1>1, <1>3, <2>2 DEF Quote
<1>4. QED
  BY <1>2, <1>3

\* An estimate is rewritten or goes, and no job is pointed elsewhere.
LEMMA RowStepKeepsOthers ==
    ASSUME NEW e \in DOMAIN estimates,
           \/ /\ DOMAIN estimates' = DOMAIN estimates
              /\ \A f \in DOMAIN estimates :
                    f # e => estimates'[f] = estimates[f]
           \/ estimates' = Drop(estimates, {e}),
           \A j \in DOMAIN jobs :
              jobs'[j].currentEstimateId = jobs[j].currentEstimateId
    PROVE  OthersKept(estimates[e].jobId)
BY DEF OthersKept, Drop, Restrict

\* A version is added, and its job pointed at it.
LEMMA NewVersionKeepsOthers ==
    ASSUME NEW j, NEW table, NEW row, NEW n, n = NewEstimateId,
           n \notin DOMAIN estimates,
           DOMAIN table = DOMAIN estimates,
           \A f \in DOMAIN estimates : table[f].content = estimates[f].content,
           estimates' = Put(table, n, row),
           SetCurrentEstimate(j, n)
    PROVE  OthersKept(j)
<1>1. /\ DOMAIN estimates' = DOMAIN estimates \cup {n}
      /\ \A f \in DOMAIN estimates : estimates'[f] = table[f]
  BY DEF Put
<1>2. \A k \in DOMAIN jobs : k # j => jobs'[k] = jobs[k]
  BY DEF SetCurrentEstimate
<1>3. QED
  BY <1>1, <1>2 DEF OthersKept

LEMMA DecisionKeepsOthers ==
    ASSUME TypeOK, NEW e \in DOMAIN estimates, NEW by,
           RecordApproval(e, by) \/ RecordRejection(e, by)
    PROVE  OthersKept(estimates[e].jobId)
<1>1. \A j \in DOMAIN jobs :
         jobs'[j].currentEstimateId = jobs[j].currentEstimateId
  BY DEF RecordApproval, RecordRejection, TypeOK, JobsOK, JobRow
<1>2. /\ DOMAIN estimates' = DOMAIN estimates
      /\ \A f \in DOMAIN estimates : f # e => estimates'[f] = estimates[f]
  BY DEF RecordApproval, RecordRejection
<1>3. QED
  BY <1>1, <1>2, RowStepKeepsOthers

\* A request about estimates touches what one job is quoted.
LEMMA EstimateRequestKeepsOthers ==
    ASSUME IInv, EstimateRequest
    PROVE  \/ UNCHANGED <<jobs, estimates>>
           \/ \E j \in DOMAIN jobs : OthersKept(j)
<1> DEFINE Kept == \/ UNCHANGED <<jobs, estimates>>
                   \/ \E j \in DOMAIN jobs : OthersKept(j)
<1>1. TypeOK /\ \A e \in DOMAIN estimates : estimates[e].jobId \in DOMAIN jobs
  BY DEF IInv, Chains, RowsLinked
<1>2. ASSUME NEW j \in DOMAIN jobs,
             \/ \E s \in JobStatuses : UpdateJobStatus(j, s)
             \/ \E c \in Contents, d \in ValidDays : CreateEstimate(j, c, d)
             \/ CreateEstimateThrows
      PROVE  Kept
  <2>1. ASSUME NEW s, UpdateJobStatus(j, s) PROVE OthersKept(j)
    BY <2>1 DEF UpdateJobStatus, OthersKept
  <2>2. ASSUME NEW c, NEW d, CreateEstimate(j, c, d) PROVE OthersKept(j)
    <3>1. NewEstimateId \notin DOMAIN estimates
      BY <1>1, <2>2, IssueType DEF CreateEstimate
    <3>2. QED
      BY <2>2, <3>1, NewVersionKeepsOthers DEF CreateEstimate
  <2>3. ASSUME CreateEstimateThrows PROVE Kept
    BY <2>3 DEF CreateEstimateThrows
  <2>4. QED
    BY <1>2, <2>1, <2>2, <2>3
<1>3. CASE StaffRequest
  <2> SUFFICES ASSUME NEW e \in DOMAIN estimates,
                      \/ \E c \in Contents, d \in ValidDays \cup {None} :
                            UpdateEstimate(e, c, d)
                      \/ \E c \in Contents, d \in DatelessDays :
                            UpdateEstimateThrows(e, c, d)
                      \/ \E co \in BOOLEAN :
                            \/ \E c \in Contents, d \in ValidDays :
                                  ReviseEstimate(e, c, d, co)
                            \/ ReviseEstimateThrows(e, co)
                      \/ MarkSent(e)
                      \/ MarkSentThrows(e)
                      \/ StaffApprove(e)
                      \/ StaffReject(e)
                      \/ Expire(e)
                      \/ RegenerateShareLink(e)
                      \/ DeleteEstimate(e)
               PROVE  Kept
    BY <1>3 DEF StaffRequest
  <2> DEFINE j == estimates[e].jobId
  <2>1. ASSUME NEW c, NEW d,
               UpdateEstimate(e, c, d) \/ UpdateEstimateThrows(e, c, d)
        PROVE  OthersKept(j)
    BY <2>1, RowStepKeepsOthers DEF UpdateEstimate, UpdateEstimateThrows
  <2>2. ASSUME NEW c, NEW d, NEW co, ReviseEstimate(e, c, d, co)
        PROVE  OthersKept(j)
    <3> DEFINE table == Superseded(e, NewEstimateId)
    <3>1. NewEstimateId \notin DOMAIN estimates
      BY <1>1, <2>2, IssueType DEF ReviseEstimate
    <3>2. /\ DOMAIN table = DOMAIN estimates
          /\ \A f \in DOMAIN estimates :
                table[f].content = estimates[f].content
      BY <1>1 DEF Superseded, TypeOK, EstimatesOK, EstimateRow
    <3>3. /\ estimates' = Put(table, NewEstimateId, Revision(e, c, d, co))
          /\ SetCurrentEstimate(j, NewEstimateId)
      BY <2>2 DEF ReviseEstimate
    <3> HIDE DEF table, j
    <3>4. QED
      BY <3>1, <3>2, <3>3, NewVersionKeepsOthers
  <2>3. ASSUME NEW co, ReviseEstimateThrows(e, co) PROVE Kept
    BY <2>3 DEF ReviseEstimateThrows
  <2>4. ASSUME \/ MarkSent(e) \/ MarkSentThrows(e)
               \/ Expire(e) \/ RegenerateShareLink(e)
        PROVE  OthersKept(j)
    BY <2>4, RowStepKeepsOthers
    DEF MarkSent, MarkSentThrows, Expire, RegenerateShareLink
  <2>5. ASSUME StaffApprove(e) \/ StaffReject(e) PROVE OthersKept(j)
    BY <1>1, <2>5, DecisionKeepsOthers DEF StaffApprove, StaffReject
  <2>6. ASSUME DeleteEstimate(e) PROVE OthersKept(j)
    BY <2>6, RowStepKeepsOthers DEF DeleteEstimate
  <2>7. QED
    BY <1>1, <2>1, <2>2, <2>3, <2>4, <2>5, <2>6
<1>4. CASE CustomerRequest
  <2> SUFFICES ASSUME NEW t \in DOMAIN tokenIndex,
                      Resolves(t),
                      PublicView(t) \/ PublicApprove(t) \/ PublicReject(t)
               PROVE  Kept
    BY <1>4 DEF CustomerRequest
  <2> DEFINE e == tokenIndex[t]
             j == estimates[e].jobId
  <2>1. e \in DOMAIN estimates /\ j \in DOMAIN jobs
    BY <1>1 DEF Resolves
  <2>2. ASSUME PublicView(t) PROVE OthersKept(j)
    BY <2>1, <2>2, RowStepKeepsOthers DEF PublicView
  <2>3. ASSUME NEW a, FirstAnswer(t, a) PROVE OthersKept(j)
    BY <1>1, <2>1, <2>3, DecisionKeepsOthers DEF FirstAnswer
  <2>4. ASSUME NEW a, RepeatAnswer(t, a) PROVE Kept
    BY <2>4 DEF RepeatAnswer
  <2>5. QED
    BY <2>1, <2>2, <2>3, <2>4 DEF PublicApprove, PublicReject
<1>5. CASE Tick
  BY <1>5 DEF Tick
<1>6. QED
  BY <1>2, <1>3, <1>4, <1>5 DEF EstimateRequest

\* Whatever is asked of the estimates, TimeTracking sees one quote change.
LEMMA EstimateRequestIsAQuoteChange ==
    ASSUME IInv, Together, EstimateRequest, TypeOK'
    PROVE  \/ UNCHANGED T!vars
           \/ \E j \in DOMAIN models, q \in T!Quotes \cup {None} :
                 T!QuoteChanges(j, q)
<1>1. DOMAIN jobs' = DOMAIN jobs /\ UNCHANGED timeVars
  BY EstimateSteps DEF IInv, TypeOK
<1>2. CASE UNCHANGED <<jobs, estimates>>
  <2>1. Quoting' = Quoting
    BY <1>2 DEF Quoting, Quote, QuoteOf
  <2>2. QED
    BY <1>1, <2>1 DEF T!vars, timeVars, Quoting
<1>3. ASSUME NEW j0 \in DOMAIN jobs, OthersKept(j0)
      PROVE  \E q \in T!Quotes \cup {None} : T!QuoteChanges(j0, q)
  <2>1. \A j \in DOMAIN jobs : j # j0 => Quote(j)' = Quote(j)
    BY <1>3, QuotesOfOthersKept
  <2>2. Quote(j0)' \in T!Quotes \cup {None}
    <3>1. QuotesOK'
      BY QuoteType, PTL
    <3>2. QED
      BY <1>1, <3>1 DEF QuotesOK
  <2>3. Quoting' = [Quoting EXCEPT ![j0] = Quote(j0)']
    BY <1>1, <2>1 DEF Quoting
  <2>4. T!QuoteChanges(j0, Quote(j0)')
    BY <1>1, <2>3 DEF T!QuoteChanges, Quoting, timeVars
  <2>5. QED
    BY <2>2, <2>4
<1>4. QED
  BY <1>2, <1>3, EstimateRequestKeepsOthers DEF Together

LEMMA TimeTrackingStep ==
    ASSUME IInv, TypeOK', Together, [BillingNext]_allVars
    PROVE  [T!Next]_(T!vars)
<1>1. ASSUME NEW m \in T!PricingModels, OpenJob(m) PROVE T!Next
  BY <1>1 DEF OpenJob, T!Next, T!JobRequest
<1>2. ASSUME NEW j \in DOMAIN jobs, RemoveJob(j) PROVE T!Next
  BY <1>2 DEF Together, RemoveJob, T!Next, T!JobRequest
<1>3. ASSUME EstimateRequest PROVE [T!Next]_(T!vars)
  BY <1>3, EstimateRequestIsAQuoteChange DEF T!Next, T!JobRequest
<1>4. ASSUME TimeRequest PROVE T!Next
  BY <1>4 DEF TimeRequest, T!Next, T!JobRequest
<1>5. ASSUME UNCHANGED allVars PROVE UNCHANGED T!vars
  <2>1. Quoting' = Quoting
    BY <1>5 DEF allVars, vars, Quoting, Quote, QuoteOf
  <2>2. QED
    BY <1>5, <2>1 DEF allVars, timeVars, T!vars, Quoting
<1>6. QED
  BY <1>1, <1>2, <1>3, <1>4, <1>5 DEF BillingNext

\* The whole implements TimeTracking, with the quotes computed from the
\* estimates: TimeTracking's free QuoteChanges stands for every request of the
\* estimate workflow, and for nothing more (timeTrackingController.js).
THEOREM BillingImplementsTimeTracking == BillingSpec => TimeTrackingIsKept
<1>1. BillingSpec => T!Init /\ [][BillingNext]_allVars
  BY DEF BillingSpec, BillingInit
<1>2. IInv /\ IInv' /\ Together /\ [BillingNext]_allVars => [T!Next]_(T!vars)
  BY TimeTrackingStep DEF IInv
<1>3. QED
  BY <1>1, <1>2, TogetherHolds, PTL DEF TimeTrackingIsKept, T!Spec

\* OpenJob and RemoveJob ask TimeTracking's step of the quotes too: it is what
\* the estimates' step does anyway, so neither holds the other up
\* (JobRepository.create and the cascade of DELETE /jobs).
THEOREM QuotesFollowTheJobs ==
    /\ IInv /\ CreateJob => Quoting' = T!Put(Quoting, NewJobId, None)
    /\ \A j \in DOMAIN jobs :
          IInv /\ DeleteJob(j) => Quoting' = T!Drop(Quoting, {j})
<1>1. ASSUME IInv, CreateJob, NEW n, n = NewJobId
      PROVE  Quoting' = T!Put(Quoting, n, None)
  <2>1. /\ DOMAIN jobs' = DOMAIN jobs \cup {n}
        /\ \A j \in DOMAIN jobs : j # n => jobs'[j] = jobs[j]
        /\ jobs'[n].currentEstimateId = None
        /\ UNCHANGED estimates
    BY <1>1 DEF CreateJob, Put
  <2>2. None \notin DOMAIN estimates
    BY <1>1, ConstantsAssumption, DrawnFacts DEF IInv, TypeOK, EstimatesOK
  <2>3. Quote(n)' = None
    BY <2>1, <2>2 DEF Quote
  <2>4. \A j \in DOMAIN jobs : j # n => Quote(j)' = Quote(j)
    BY <2>1 DEF Quote, QuoteOf
  <2>5. QED
    BY <2>1, <2>3, <2>4 DEF Quoting, T!Put
<1>2. ASSUME NEW j \in DOMAIN jobs, IInv, DeleteJob(j)
      PROVE  Quoting' = T!Drop(Quoting, {j})
  <2>1. /\ DOMAIN jobs' = DOMAIN jobs \ {j}
        /\ \A k \in DOMAIN jobs \ {j} : jobs'[k] = jobs[k]
        /\ DOMAIN estimates' = DOMAIN estimates \ EstimatesOf(j)
        /\ \A e \in DOMAIN estimates' : estimates'[e] = estimates[e]
    BY <1>2 DEF DeleteJob, Drop, Restrict
  <2>2. ASSUME NEW k \in DOMAIN jobs \ {j} PROVE Quote(k)' = Quote(k)
    <3>1. jobs[k].currentEstimateId \notin EstimatesOf(j)
      BY <1>2, <2>2 DEF IInv, Chains, CurrentIsNotOutdated, EstimatesOf
    <3>2. QED
      BY <2>1, <3>1 DEF Quote, QuoteOf
  <2>3. QED
    BY <2>1, <2>2 DEF Quoting, T!Drop, T!Restrict
<1>3. QED
  BY <1>1, <1>2

-----------------------------------------------------------------------------
(* What is billed                                                            *)

\* A job's final number is written by finalizing that job, and by nothing else.
LEMMA OnlyFinalizing ==
    ASSUME DrawnOK, Together, [BillingNext]_allVars, NEW j \in DOMAIN models,
           Finalizing(j)
    PROVE  UNCHANGED vars /\ snapshots'[j].quoted = Quote(j)
<1>1. ASSUME DOMAIN snapshots' \subseteq DOMAIN snapshots PROVE FALSE
  BY <1>1 DEF Finalizing
<1>2. TimeRequest
  <2>1. ASSUME NEW m, OpenJob(m) PROVE FALSE
    BY <1>1, <2>1, OpenSteps
  <2>2. ASSUME NEW k, RemoveJob(k) PROVE FALSE
    <3>1. DOMAIN snapshots' = DOMAIN snapshots \ {k}
      BY <2>2 DEF RemoveJob, T!DeleteJob, T!Drop, T!Restrict
    <3>2. QED
      BY <1>1, <3>1
  <2>3. ASSUME EstimateRequest PROVE FALSE
    BY <1>1, <2>3, EstimateSteps DEF timeVars
  <2>4. ASSUME UNCHANGED allVars PROVE FALSE
    BY <1>1, <2>4 DEF allVars, timeVars
  <2>5. QED
    BY <2>1, <2>2, <2>3, <2>4 DEF BillingNext
<1>3. PICK k \in DOMAIN models : T!Finalize(k)
  BY <1>1, <1>2, TimeSteps
<1>4. snapshots' = T!Put(snapshots, k,
                         T!Summary(models[k], Quoting[k], T!TimeOf(k)))
  BY <1>3 DEF T!Finalize, Quoting
<1>5. snapshots'[k].quoted = Quoting[k]
  BY <1>4 DEF T!Put, T!Summary
<1>6. k = j
  BY <1>4 DEF T!Put, Finalizing
<1>7. QED
  BY <1>2, <1>5, <1>6, TimeSteps DEF Quoting, Together

\* A job is finalized with the quote of what it points at, and that is its
\* newest.
LEMMA NewestStep ==
    ASSUME IInv, PointedAtLast, Together, [BillingNext]_allVars
    PROVE  NewestBilled
<1> SUFFICES ASSUME NEW j \in DOMAIN models, Finalizing(j),
                    snapshots'[j].quoted # None
             PROVE  \E e \in EstimatesOf(j) :
                       /\ \A f \in EstimatesOf(j) : f <= e
                       /\ snapshots'[j].quoted = QuoteOf(e)
  BY DEF NewestBilled
<1> DEFINE e == jobs[j].currentEstimateId
<1>1. DrawnOK /\ j \in DOMAIN jobs
  BY DEF IInv, TypeOK, Together
<1>2. snapshots'[j].quoted = Quote(j)
  BY <1>1, OnlyFinalizing
<1>3. e \in DOMAIN estimates /\ Quote(j) = QuoteOf(e)
  BY <1>2 DEF Quote
<1>4. e \in EstimatesOf(j)
  BY <1>1, <1>3 DEF IInv, Chains, CurrentIsNotOutdated, EstimatesOf
<1>5. \A f \in EstimatesOf(j) : f <= e
  BY DEF PointedAtLast, EstimatesOf
<1>6. QED
  BY <1>2, <1>3, <1>4, <1>5

\* Finalizing bills the newest of the job's stored estimates: every estimate
\* that is created, in an old chain or a new one, moves the job's pointer to
\* it, so while what the job points at is stored, nothing stored is newer
\* (setCurrentEstimate, buildJobPricingSummary).
THEOREM NewestVersionIsBilled == BillingSpec => NewestIsBilled
<1>1. BillingSpec => [][BillingNext]_allVars
  BY DEF BillingSpec
<1>2. BillingSpec => []PointedAtLast
  BY WorkflowIsKept, JobsPointAtTheirLast, PTL
<1>3. IInv /\ PointedAtLast /\ Together /\ [BillingNext]_allVars
         => [NewestBilled]_allVars
  BY NewestStep
<1>4. QED
  BY <1>1, <1>2, <1>3, TogetherHolds, PTL DEF NewestIsBilled

-----------------------------------------------------------------------------
(* What is quoted                                                            *)

\* What TimeTracking assumes of its constants is so here: rates and bounds by
\* assumption, and every price because the offers it is computed from are
\* numbers (normalizeLineItem lets nothing else through).
THEOREM QuotedPricesAreAmounts == T!TimeConstants
<1>1. ASSUME NEW c \in Contents
      PROVE  Quoted[c].nonLaborPrice \in Int /\ Quoted[c].totalPrice \in Int
  <2>1. c \in Offers
    BY BillingConstants
  <2>2. TotalPrice(c) \in Int /\ NonLaborPrice(c) \in Int
    BY <2>1, TotalType, CategoriesAddUp DEF NonLaborPrice
  <2>3. QED
    BY <2>2 DEF Quoted
<1>2. Prices \subseteq Int
  BY <1>1 DEF Prices
<1>3. QED
  BY <1>2, BillingConstants, ConstantsAssumption DEF T!TimeConstants

\* What may be asked of an estimate is an offer.
LEMMA EveryEditAddsUp == \A c \in Contents : EditsAddUp[c]
<1> SUFFICES ASSUME NEW c \in Contents, NEW offer \in {c} \cup Edits[c]
             PROVE  AddsUp(offer) /\ ProjectsInOrder(offer, Deltas)
  BY DEF EditsAddUp
<1>1. offer \in Offers /\ Deltas \in SUBSET Int
  BY BillingConstants
<1>2. QED
  BY <1>1, OffersAddUp, OffersProjectInOrder

\* A stored estimate adds up to the cent and projects in order, and so would
\* any edit of it: whatever an estimate may say is an offer, and every offer
\* does (calculateEstimateTotals, projectMarkupChange).
THEOREM PricesAlwaysAddUp == BillingSpec => []PricesAddUp
<1>1. TypeOK => PricesAddUp
  BY EveryEditAddsUp DEF TypeOK, EstimatesOK, EstimateRow, PricesAddUp
<1>2. BillingSpec => []IInv
  BY WorkflowIsKept, InvariantHolds, PTL
<1>3. IInv => TypeOK
  BY DEF IInv
<1>4. QED
  BY <1>1, <1>2, <1>3, PTL

-----------------------------------------------------------------------------
(* What is proved of TimeTracking, in the whole                              *)

\* TimeTrackingProofs, of the same instance as T.
TP == INSTANCE TimeTrackingProofs WITH
        jobs <- models,
        quote <- [j \in DOMAIN jobs |-> Quote(j)],
        drawn <- timeDrawn

\* The two instances compute one summary,
LEMMA SameSummary ==
    \A m, q, time : T!Summary(m, q, time) = TP!Summary(m, q, time)
<1>1. \A time : T!Billed(time) = TP!Billed(time)
  BY DEF T!Billed, TP!Billed, T!MapThenSumSet, TP!MapThenSumSet,
         T!MapThenFoldSet, TP!MapThenFoldSet
<1>2. QED
  BY <1>1 DEF T!Summary, TP!Summary

\* and take the same steps.
LEMMA SameSteps == T!Next <=> TP!Next
<1>1. \A m : T!CreateJob(m) <=> TP!CreateJob(m)
  BY DEF T!CreateJob, TP!CreateJob, T!Put, TP!Put, T!JobIds, TP!JobIds
<1>2. \A j, m : T!SetPricingModel(j, m) <=> TP!SetPricingModel(j, m)
  BY DEF T!SetPricingModel, TP!SetPricingModel, T!Finalized, TP!Finalized
<1>3. \A j : T!DeleteJob(j) <=> TP!DeleteJob(j)
  BY DEF T!DeleteJob, TP!DeleteJob, T!Drop, TP!Drop, T!Restrict, TP!Restrict,
      T!EntriesOf, TP!EntriesOf
<1>4. \A j : T!Finalize(j) <=> TP!Finalize(j)
  BY SameSummary
  DEF T!Finalize, TP!Finalize, T!Finalized, TP!Finalized, T!EntriesOf,
      TP!EntriesOf, T!TimeOf, TP!TimeOf, T!Put, TP!Put
<1>5. \A j, q : T!QuoteChanges(j, q) <=> TP!QuoteChanges(j, q)
  BY DEF T!QuoteChanges, TP!QuoteChanges
<1>6. \A u, j : T!ClockIn(u, j) <=> TP!ClockIn(u, j)
  BY DEF T!ClockIn, TP!ClockIn, T!Finalized, TP!Finalized, T!ActiveOf,
      TP!ActiveOf, T!AddEntry, TP!AddEntry, T!RunningEntry, TP!RunningEntry,
      T!EntryIds, TP!EntryIds, T!Put, TP!Put
<1>7. \A u : T!ClockOut(u) <=> TP!ClockOut(u)
  BY DEF T!ClockOut, TP!ClockOut, T!ActiveOf, TP!ActiveOf, T!Complete,
      TP!Complete, T!MinutesBetween, TP!MinutesBetween
<1>8. \A u, j, in, out, r, b : 
         T!CreateManual(u, j, in, out, r, b)
            <=> TP!CreateManual(u, j, in, out, r, b)
  BY DEF T!CreateManual, TP!CreateManual, T!Finalized, TP!Finalized,
      T!AddEntry, TP!AddEntry, T!EntryIds, TP!EntryIds, T!Put, TP!Put,
      T!MinutesBetween, TP!MinutesBetween
<1>9. \A u, r : T!SetDefaultRate(u, r) <=> TP!SetDefaultRate(u, r)
  BY DEF T!SetDefaultRate, TP!SetDefaultRate, T!Put, TP!Put
<1>10. \A u : T!RemoveMember(u) <=> TP!RemoveMember(u)
  BY DEF T!RemoveMember, TP!RemoveMember, T!Drop, TP!Drop, T!Restrict,
      TP!Restrict
<1>11. \A i : T!ForceClockOut(i) <=> TP!ForceClockOut(i)
  BY DEF T!ForceClockOut, TP!ForceClockOut, T!Complete, TP!Complete,
      T!MinutesBetween, TP!MinutesBetween
<1>12. \A i : T!DeleteEntry(i) <=> TP!DeleteEntry(i)
  BY DEF T!DeleteEntry, TP!DeleteEntry, T!MayEdit, TP!MayEdit, T!Drop, TP!Drop,
      T!Restrict, TP!Restrict
<1>13. \A i, r, b : T!UpdateTerms(i, r, b) <=> TP!UpdateTerms(i, r, b)
  BY DEF T!UpdateTerms, TP!UpdateTerms, T!MayEdit, TP!MayEdit
<1>14. \A i, r, b, in, out : 
          T!UpdateTimes(i, r, b, in, out) <=> TP!UpdateTimes(i, r, b, in, out)
  BY DEF T!UpdateTimes, TP!UpdateTimes, T!MayEdit, TP!MayEdit,
      T!MinutesBetween, TP!MinutesBetween
<1>15. \A i, r, b, in, out : 
          T!UpdateTimesRefused(i, r, b, in, out)
             <=> TP!UpdateTimesRefused(i, r, b, in, out)
  BY DEF T!UpdateTimesRefused, TP!UpdateTimesRefused, T!MayEdit, TP!MayEdit
<1>16. T!Tick <=> TP!Tick
  BY DEF T!Tick, TP!Tick
<1>17. QED
  BY <1>1, <1>2, <1>3, <1>4, <1>5, <1>6, <1>7, <1>8, <1>9, <1>10, <1>11,
     <1>12, <1>13, <1>14, <1>15, <1>16
  DEF T!Next, TP!Next, T!JobRequest, TP!JobRequest, T!MemberRequest,
      TP!MemberRequest, T!EntryRequest, TP!EntryRequest, T!PricingModels,
      TP!PricingModels, T!Quotes, TP!Quotes, T!Times, TP!Times

\* Everything that is proved of TimeTracking as an abstraction holds with the
\* estimates as they really move: rows have their shape, nobody is clocked in
\* twice, time stands and falls with its job, and a snapshot with the entries
\* behind it (timeTrackingController.js next to estimateController.js).
THEOREM TimeTrackingHolds ==
    BillingSpec => [](/\ T!TypeOK
                      /\ T!ClockedInOnce
                      /\ T!EntriesFollowTheirJobs
                      /\ T!SnapshotStands)
<1> DEFINE Holds == /\ T!TypeOK
                    /\ T!ClockedInOnce
                    /\ T!EntriesFollowTheirJobs
                    /\ T!SnapshotStands
<1>1. T!Init => TP!IInv
  <2>1. T!Init <=> TP!Init
    BY DEF T!Init, TP!Init
  <2>2. QED
    BY <2>1, TP!InvariantInit, QuotedPricesAreAmounts
<1>2. TP!IInv /\ [T!Next]_(T!vars) => TP!IInv'
  <2>1. [T!Next]_(T!vars) <=> [TP!Next]_(TP!vars)
    BY SameSteps DEF T!vars, TP!vars
  <2>2. QED
    BY <2>1, TP!InvariantStep, QuotedPricesAreAmounts
<1>3. TP!IInv => Holds
  <2>1. TP!IInv => /\ TP!TypeOK /\ TP!ClockedInOnce
                  /\ TP!EntriesFollowTheirJobs /\ TP!SnapshotStands
    BY DEF TP!IInv, TP!Clock, TP!Closed, TP!EntriesFollowTheirJobs
  <2>2. TP!TypeOK => T!TypeOK
    BY DEF T!TypeOK, TP!TypeOK, T!DrawnOK, TP!DrawnOK, T!JobsOK, TP!JobsOK,
           T!EntriesOK, TP!EntriesOK, T!EntryConsistent, TP!EntryConsistent,
           T!EntryRow, TP!EntryRow, T!Times, TP!Times, T!PricingModels,
           TP!PricingModels, T!Quotes, TP!Quotes, T!JobIds, TP!JobIds,
           T!MinutesBetween, TP!MinutesBetween
  <2>3. TP!ClockedInOnce => T!ClockedInOnce
    BY DEF TP!ClockedInOnce, T!ClockedInOnce
  <2>4. TP!EntriesFollowTheirJobs => T!EntriesFollowTheirJobs
    BY DEF T!EntriesFollowTheirJobs, TP!EntriesFollowTheirJobs,
           T!EntriesHaveJobs, TP!EntriesHaveJobs, T!FinalizedIsClosed,
           TP!FinalizedIsClosed, T!Finalized, TP!Finalized
  <2>5. TP!SnapshotStands => T!SnapshotStands
    BY SameSummary
    DEF T!SnapshotStands, TP!SnapshotStands, T!TimeOf, TP!TimeOf, T!EntriesOf,
        TP!EntriesOf
  <2>6. QED
    BY <2>1, <2>2, <2>3, <2>4, <2>5
<1>4. BillingSpec => T!Init /\ [][T!Next]_(T!vars)
  BY BillingImplementsTimeTracking DEF TimeTrackingIsKept, T!Spec
<1>5. QED
  BY <1>1, <1>2, <1>3, <1>4, PTL
===============================================================================

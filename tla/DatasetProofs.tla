---------------------------- MODULE DatasetProofs ----------------------------
(***************************************************************************)
(* Proofs about the recordings of dataset_collection and what their        *)
(* readers make of them, for any gaps between blocks, any latencies, any   *)
(* modulus of the block IDs, any warm-up, any rates of the clocks, any     *)
(* sensor, any filter and any duration of a frame.                         *)
(*                                                                         *)
(* CameraInv is the inductive invariant of a Basler camera.  ClockAnchor   *)
(* keeps no sample once its warm-up is over: the invariant says that its   *)
(* two sums are those over all the rows, so that its rate is the           *)
(* least-squares slope, and that where the rows lie on a line of the true  *)
(* rate its line is that one.  That rests on what sums of sequences are,   *)
(* on the fit of the warm-up being exact for points on a line, and on the  *)
(* rounding of an exact quotient being exact.                              *)
(*                                                                         *)
(* ReadInv is that of an event camera and its readers: the events are in   *)
(* the order of time, what was played is the beginning of what there is to *)
(* play, and the filter remembers the last time of every pixel of it.      *)
(***************************************************************************)
EXTENDS Playback, WellFoundedInduction, FiniteSetTheorems, TLAPS

-----------------------------------------------------------------------------
(***************************************************************************)
(* Sums of sequences of numbers.                                           *)
(***************************************************************************)

\* Induction over an interval, for a set of numbers in the place of a predicate.
LEMMA FromZero ==
  ASSUME NEW n \in Nat, NEW T \in SUBSET (0..n), 0 \in T, \A k \in 0..n - 1 : k \in T => k + 1 \in T
  PROVE  T = 0..n
<1> DEFINE R == {p \in Nat \X Nat : p[1] < p[2]}
           U == (0..n) \ T
<1>1. SUFFICES ASSUME U # {} PROVE FALSE
  OBVIOUS
<1>2. IsWellFoundedOn(R, Nat)
  BY NatLessThanWellFounded DEF OpToRel
<1>3. U \in SUBSET Nat
  OBVIOUS
<1>4. PICK x \in U : \A y \in U : ~ (<<y, x>> \in R)
  <2> HIDE DEF R, U
  <2> QED
    BY <1>1, <1>2, <1>3, WFMin
<1>5. x \in 1..n /\ x - 1 \in 0..n - 1
  OBVIOUS
<1>6. x - 1 \in U
  BY <1>5
<1>7. <<x - 1, x>> \in R
  BY <1>5
<1> QED
  BY <1>4, <1>6, <1>7

\* s are the sums of the beginnings of g.
Sums(g, s) == /\ s \in [0..Len(g) -> Int] /\ s[0] = 0
              /\ \A n \in 1..Len(g) : s[n] = s[n - 1] + g[n]

\* Every sequence of numbers has sums, and Total is the last of them.
LEMMA SumsExist == ASSUME NEW g \in Seq(Int) PROVE \E s : Sums(g, s)
<1> DEFINE N == Len(g)
           Part(k, s) == /\ s \in [0..k -> Int] /\ s[0] = 0
                         /\ \A n \in 1..k : s[n] = s[n - 1] + g[n]
           T == {k \in 0..N : \E s : Part(k, s)}
<1>1. 0 \in T
  <2>1. Part(0, [n \in 0..0 |-> 0])
    OBVIOUS
  <2>2. 0 \in 0..N
    OBVIOUS
  <2> HIDE DEF Part
  <2> QED
    BY <2>1, <2>2
<1>2. ASSUME NEW k \in 0..N - 1, k \in T PROVE k + 1 \in T
  <2>1. PICK s : Part(k, s)
    BY <1>2
  <2> DEFINE t == [n \in 0..k + 1 |-> IF n = k + 1 THEN s[k] + g[k + 1] ELSE s[n]]
  <2>2. g[k + 1] \in Int /\ k + 1 \in 0..N
    OBVIOUS
  <2>3. t \in [0..k + 1 -> Int] /\ t[0] = 0
    BY <2>1, <2>2
  <2>4. \A n \in 1..k + 1 : t[n] = t[n - 1] + g[n]
    BY <2>1
  <2>5. Part(k + 1, t)
    BY <2>3, <2>4
  <2> HIDE DEF Part
  <2> QED
    BY <2>2, <2>5
<1>3. T = 0..N
  <2> HIDE DEF T
  <2>1. N \in Nat
    OBVIOUS
  <2>2. T \in SUBSET (0..N)
    BY DEF T
  <2> QED
    BY <1>1, <1>2, <2>1, <2>2, FromZero
<1>4. PICK s : Part(N, s)
  <2> HIDE DEF Part
  <2>1. N \in T
    <3>1. N \in 0..N
      OBVIOUS
    <3> HIDE DEF T
    <3> QED
      BY <1>3, <3>1
  <2> QED
    BY <2>1
<1>5. Sums(g, s)
  BY <1>4 DEF Sums
<1> QED
  BY <1>5

\* Sequences that agree up to a place have the same sums up to there.
LEMMA SumsUnique ==
  ASSUME NEW g \in Seq(Int), NEW h \in Seq(Int), NEW s, NEW t,
         Sums(g, s), Sums(h, t), Len(g) <= Len(h), \A i \in 1..Len(g) : g[i] = h[i]
  PROVE  s[Len(g)] = t[Len(g)]
<1> DEFINE n == Len(g)
           T == {k \in 0..n : s[k] = t[k]}
<1>1. n \in Nat
  OBVIOUS
<1>2. 0 \in T
  BY DEF Sums
<1>3. ASSUME NEW k \in 0..n - 1, k \in T PROVE k + 1 \in T
  <2>1. k + 1 \in 1..n /\ k + 1 \in 1..Len(g) /\ k + 1 \in 1..Len(h) /\ (k + 1) - 1 = k
    OBVIOUS
  <2>2. s[k + 1] = s[k] + g[k + 1] /\ t[k + 1] = t[k] + h[k + 1]
    BY <2>1 DEF Sums
  <2> QED
    BY <1>3, <2>1, <2>2
<1>4. T = 0..n
  <2> HIDE DEF T
  <2>1. T \in SUBSET (0..n)
    BY DEF T
  <2> QED
    BY <1>1, <1>2, <1>3, <2>1, FromZero
<1>5. n \in T
  <2> HIDE DEF T
  <2> QED
    BY <1>1, <1>4
<1> QED
  BY <1>5

\* Total is the last of the sums.
LEMMA TotalIs == ASSUME NEW g \in Seq(Int), NEW s, Sums(g, s) PROVE Total(g) = s[Len(g)]
<1> DEFINE Rec(u) == u = [n \in 0..Len(g) |-> IF n = 0 THEN 0 ELSE u[n - 1] + g[n]]
           c == CHOOSE u : Rec(u)
<1>1. Rec(s)
  <2>1. \A n \in 0..Len(g) : s[n] = IF n = 0 THEN 0 ELSE s[n - 1] + g[n]
    BY DEF Sums
  <2> QED
    BY <2>1 DEF Sums
<1>2. Rec(c)
  <2> HIDE DEF Rec
  <2> QED
    BY <1>1
<1>3. DOMAIN c = 0..Len(g) /\ c[0] = 0 /\ \A n \in 1..Len(g) : c[n] = c[n - 1] + g[n]
  <2> HIDE DEF c
  <2>1. DOMAIN c = 0..Len(g) /\ Len(g) \in Nat
    BY <1>2
  <2>2. \A n \in 0..Len(g) : c[n] = IF n = 0 THEN 0 ELSE c[n - 1] + g[n]
    BY <1>2
  <2> HIDE DEF Rec
  <2>3. c[0] = 0
    BY <2>1, <2>2
  <2>4. \A n \in 1..Len(g) : n \in 0..Len(g) /\ n # 0
    BY <2>1
  <2> QED
    BY <2>1, <2>2, <2>3, <2>4
<1> DEFINE T == {k \in 0..Len(g) : c[k] = s[k]}
<1>4. Len(g) \in Nat /\ 0 \in T
  BY <1>3 DEF Sums
<1>5. ASSUME NEW k \in 0..Len(g) - 1, k \in T PROVE k + 1 \in T
  <2>1. k + 1 \in 1..Len(g) /\ (k + 1) - 1 = k
    OBVIOUS
  <2>2. s[k + 1] = s[k] + g[k + 1] /\ c[k + 1] = c[k] + g[k + 1]
    <3> HIDE DEF c
    <3> QED
      BY <1>3, <2>1 DEF Sums
  <2> HIDE DEF c
  <2> QED
    BY <1>5, <2>1, <2>2
<1>6. T = 0..Len(g)
  <2> HIDE DEF T
  <2>1. T \in SUBSET (0..Len(g))
    BY DEF T
  <2> QED
    BY <1>4, <1>5, <2>1, FromZero
<1>7. Total(g) = c[Len(g)]
  BY DEF Total
<1> QED
  <2> HIDE DEF c
  <2> QED
    BY <1>4, <1>6, <1>7

LEMMA SumsStep ==
  ASSUME NEW g \in Seq(Int), NEW s, Sums(g, s), NEW k \in 0..Len(g) - 1
  PROVE  /\ k + 1 \in 1..Len(g) /\ k + 1 \in 0..Len(g) /\ s[k] \in Int /\ g[k + 1] \in Int
         /\ s[k + 1] = s[k] + g[k + 1]
<1>1. k + 1 \in 1..Len(g) /\ k + 1 \in 0..Len(g) /\ k \in 0..Len(g) /\ (k + 1) - 1 = k
  OBVIOUS
<1>2. s[k] \in Int
  BY <1>1 DEF Sums
<1>3. g[k + 1] \in Int
  BY <1>1
<1>4. s[k + 1] = s[k] + g[k + 1]
  BY <1>1 DEF Sums
<1> QED
  BY <1>1, <1>2, <1>3, <1>4

LEMMA TotalType == ASSUME NEW g \in Seq(Int) PROVE Total(g) \in Int
<1>1. PICK s : Sums(g, s)
  BY SumsExist
<1>2. s[Len(g)] \in Int
  <2>1. s \in [0..Len(g) -> Int] /\ Len(g) \in 0..Len(g)
    BY <1>1 DEF Sums
  <2> QED
    BY <2>1
<1> QED
  BY <1>1, <1>2, TotalIs

LEMMA TotalEmpty == Total(<< >>) = 0
<1>1. << >> \in Seq(Int) /\ Len(<< >>) = 0
  OBVIOUS
<1>2. PICK s : Sums(<< >>, s)
  BY <1>1, SumsExist
<1>3. s[0] = 0
  BY <1>2 DEF Sums
<1> QED
  BY <1>1, <1>2, <1>3, TotalIs

LEMMA TotalAppend ==
  ASSUME NEW g \in Seq(Int), NEW v \in Int
  PROVE  Append(g, v) \in Seq(Int) /\ Total(Append(g, v)) = Total(g) + v
<1> DEFINE h == Append(g, v)
<1>1. h \in Seq(Int) /\ Len(h) = Len(g) + 1 /\ h[Len(g) + 1] = v /\ Len(g) \in Nat
      /\ \A i \in 1..Len(g) : g[i] = h[i]
  OBVIOUS
<1> HIDE DEF h
<1>2. PICK s : Sums(g, s)
  BY SumsExist
<1>3. PICK t : Sums(h, t)
  BY <1>1, SumsExist
<1>4. s[Len(g)] = t[Len(g)]
  <2>1. Len(g) <= Len(h)
    BY <1>1
  <2> QED
    BY <1>1, <1>2, <1>3, <2>1, SumsUnique
<1>5. t[Len(g) + 1] = t[Len(g)] + v
  BY <1>1, <1>3, SumsStep
<1>6. Total(g) = s[Len(g)] /\ Total(h) = t[Len(g) + 1]
  BY <1>1, <1>2, <1>3, TotalIs
<1> QED
  BY <1>1, <1>4, <1>5, <1>6 DEF h

\* h is a times f plus b times g.
Combines(h, a, f, b, g) ==
  /\ f \in Seq(Int) /\ g \in Seq(Int) /\ h \in Seq(Int) /\ a \in Int /\ b \in Int
  /\ Len(f) = Len(g) /\ Len(h) = Len(g)
  /\ \A i \in 1..Len(g) : h[i] = a * f[i] + b * g[i]

\* The total is linear.
LEMMA TotalLinear ==
  ASSUME NEW f, NEW g, NEW h, NEW a, NEW b, Combines(h, a, f, b, g)
  PROVE  Total(h) = a * Total(f) + b * Total(g)
<1>1. /\ f \in Seq(Int) /\ g \in Seq(Int) /\ h \in Seq(Int) /\ a \in Int /\ b \in Int
      /\ Len(f) = Len(g) /\ Len(h) = Len(g)
      /\ \A i \in 1..Len(g) : h[i] = a * f[i] + b * g[i]
  BY DEF Combines
<1>2. PICK p : Sums(f, p)
  BY <1>1, SumsExist
<1>3. PICK q : Sums(g, q)
  BY <1>1, SumsExist
<1>4. PICK s : Sums(h, s)
  BY <1>1, SumsExist
<1> DEFINE N == Len(g)
           T == {k \in 0..N : s[k] = a * p[k] + b * q[k]}
<1>5. N \in Nat /\ 0 \in T
  BY <1>1, <1>2, <1>3, <1>4 DEF Sums
<1>6. ASSUME NEW k \in 0..N - 1, k \in T PROVE k + 1 \in T
  <2>1. k + 1 \in 1..N /\ (k + 1) - 1 = k /\ k \in 0..N /\ k + 1 \in 0..N
    BY <1>1
  <2>2. /\ p[k + 1] = p[k] + f[k + 1] /\ q[k + 1] = q[k] + g[k + 1] /\ s[k + 1] = s[k] + h[k + 1]
        /\ p[k] \in Int /\ q[k] \in Int /\ f[k + 1] \in Int /\ g[k + 1] \in Int
    <3> HIDE DEF T
    <3>0. k \in 0..Len(f) - 1 /\ k \in 0..Len(g) - 1 /\ k \in 0..Len(h) - 1
      BY <1>1
    <3>1. p[k + 1] = p[k] + f[k + 1] /\ p[k] \in Int /\ f[k + 1] \in Int
      BY <1>1, <1>2, <3>0, SumsStep
    <3>2. q[k + 1] = q[k] + g[k + 1] /\ q[k] \in Int /\ g[k + 1] \in Int
      BY <1>1, <1>3, <3>0, SumsStep
    <3>3. s[k + 1] = s[k] + h[k + 1]
      BY <1>1, <1>4, <3>0, SumsStep
    <3> QED
      BY <3>1, <3>2, <3>3
  <2>3. s[k] = a * p[k] + b * q[k] /\ h[k + 1] = a * f[k + 1] + b * g[k + 1]
    BY <1>1, <1>6, <2>1
  <2>4. s[k + 1] = (a * p[k] + b * q[k]) + (a * f[k + 1] + b * g[k + 1])
    BY <2>2, <2>3
  <2>5. s[k + 1] = a * p[k + 1] + b * q[k + 1]
    <3>1. (a * p[k] + b * q[k]) + (a * f[k + 1] + b * g[k + 1])
            = a * (p[k] + f[k + 1]) + b * (q[k] + g[k + 1])
      <4> DEFINE P == p[k]  Q == q[k]  F == f[k + 1]  G == g[k + 1]
      <4>1. P \in Int /\ Q \in Int /\ F \in Int /\ G \in Int
        BY <2>2
      <4>2. (a * P + b * Q) + (a * F + b * G) = a * (P + F) + b * (Q + G)
        <5> HIDE DEF P, Q, F, G
        <5> QED
          BY <1>1, <4>1
      <4> QED
        BY <4>2
    <3> QED
      BY <2>2, <2>4, <3>1
  <2> QED
    BY <2>1, <2>5
<1>7. T = 0..N
  <2> HIDE DEF T
  <2>1. T \in SUBSET (0..N)
    BY DEF T
  <2> QED
    BY <1>5, <1>6, <2>1, FromZero
<1>8. s[N] = a * p[N] + b * q[N]
  <2>1. N \in T
    <3> HIDE DEF T
    <3> QED
      BY <1>5, <1>7
  <2> QED
    BY <2>1
<1> QED
  BY <1>1, <1>2, <1>3, <1>4, <1>8, TotalIs

\* The total of numbers that are all the same.
LEMMA TotalSame ==
  ASSUME NEW g \in Seq(Int), NEW c \in Int, \A i \in 1..Len(g) : g[i] = c
  PROVE  Total(g) = Len(g) * c
<1>1. PICK s : Sums(g, s)
  BY SumsExist
<1> DEFINE N == Len(g)
           T == {k \in 0..N : s[k] = k * c}
<1>2. N \in Nat /\ 0 \in T
  BY <1>1 DEF Sums
<1>3. ASSUME NEW k \in 0..N - 1, k \in T PROVE k + 1 \in T
  <2>1. k + 1 \in 1..N /\ (k + 1) - 1 = k /\ k + 1 \in 0..N
    OBVIOUS
  <2>2. s[k + 1] = s[k] + c
    BY <1>1, <2>1, SumsStep
  <2>3. (k + 1) * c = k * c + c
    OBVIOUS
  <2> QED
    BY <1>3, <2>1, <2>2, <2>3
<1>4. T = 0..N
  <2> HIDE DEF T
  <2>1. T \in SUBSET (0..N)
    BY DEF T
  <2> QED
    BY <1>2, <1>3, <2>1, FromZero
<1>5. s[N] = N * c
  BY <1>2, <1>4
<1> QED
  BY <1>1, <1>5, TotalIs

\* The total of numbers of which none is negative, and one at j is not zero.
LEMMA TotalPositive ==
  ASSUME NEW g \in Seq(Int), \A i \in 1..Len(g) : g[i] >= 0
  PROVE  Total(g) >= 0 /\ \A j \in 1..Len(g) : g[j] > 0 => Total(g) > 0
<1>1. PICK s : Sums(g, s)
  BY SumsExist
<1>2. SUFFICES ASSUME NEW j \in 1..Len(g) + 1
               PROVE  s[Len(g)] >= 0 /\ (j <= Len(g) /\ g[j] > 0 => s[Len(g)] > 0)
  <2>1. Total(g) = s[Len(g)] /\ Len(g) \in Nat
    BY <1>1, TotalIs
  <2>2. 1 \in 1..Len(g) + 1 /\ \A j \in 1..Len(g) : j \in 1..Len(g) + 1 /\ j <= Len(g)
    BY <2>1
  <2> QED
    BY <1>2, <2>1, <2>2
<1> DEFINE N == Len(g)
           T == {k \in 0..N : s[k] >= 0 /\ (j <= k /\ g[j] > 0 => s[k] > 0)}
<1>3. N \in Nat /\ 0 \in T
  BY <1>1 DEF Sums
<1>4. ASSUME NEW k \in 0..N - 1, k \in T PROVE k + 1 \in T
  <2>1. k + 1 \in 1..N /\ (k + 1) - 1 = k /\ k + 1 \in 0..N
    OBVIOUS
  <2>2. s[k + 1] = s[k] + g[k + 1] /\ s[k] \in Int /\ g[k + 1] \in Int /\ g[k + 1] >= 0
    BY <1>1, <2>1, SumsStep
  <2>3. s[k + 1] >= 0
    BY <1>4, <2>2
  <2>4. ASSUME j <= k + 1, g[j] > 0 PROVE s[k + 1] > 0
    <3>1. CASE j = k + 1
      BY <1>4, <2>2, <2>4, <3>1
    <3>2. CASE j <= k
      BY <1>4, <2>2, <2>4, <3>2
    <3> QED
      BY <2>4, <3>1, <3>2
  <2> QED
    BY <2>1, <2>3, <2>4
<1>5. T = 0..N
  <2> HIDE DEF T
  <2>1. T \in SUBSET (0..N)
    BY DEF T
  <2> QED
    BY <1>3, <1>4, <2>1, FromZero
<1>6. N \in T
  <2> HIDE DEF T
  <2> QED
    BY <1>3, <1>5
<1> QED
  BY <1>6

\* The total of the steps from each element to the next.
LEMMA TotalSteps ==
  ASSUME NEW f \in Seq(Int), NEW g \in Seq(Int), Len(f) = Len(g) + 1,
         \A i \in 1..Len(g) : g[i] = f[i + 1] - f[i]
  PROVE  Total(g) = f[Len(f)] - f[1]
<1>1. PICK s : Sums(g, s)
  BY SumsExist
<1> DEFINE N == Len(g)
           T == {k \in 0..N : s[k] = f[k + 1] - f[1]}
<1>2. N \in Nat /\ 0 \in T
  BY <1>1 DEF Sums
<1>3. ASSUME NEW k \in 0..N - 1, k \in T PROVE k + 1 \in T
  <2>1. /\ k + 1 \in 1..N /\ (k + 1) - 1 = k /\ k + 1 \in 0..N /\ k + 2 \in 1..Len(f)
        /\ 1 \in 1..Len(f)
    OBVIOUS
  <2>2. s[k + 1] = s[k] + g[k + 1] /\ g[k + 1] = f[(k + 1) + 1] - f[k + 1]
    BY <1>1, <2>1, SumsStep
  <2>3. f[k + 1] \in Int /\ f[(k + 1) + 1] \in Int /\ f[1] \in Int
    BY <2>1
  <2>4. s[k + 1] = f[(k + 1) + 1] - f[1]
    BY <1>3, <2>2, <2>3, SMTT(30)
  <2> QED
    BY <2>1, <2>4
<1>4. T = 0..N
  <2> HIDE DEF T
  <2>1. T \in SUBSET (0..N)
    BY DEF T
  <2> QED
    BY <1>2, <1>3, <2>1, FromZero
<1>5. s[N] = f[N + 1] - f[1]
  <2>1. N \in T
    <3> HIDE DEF T
    <3> QED
      BY <1>2, <1>4
  <2> QED
    BY <2>1
<1> QED
  BY <1>1, <1>5, TotalIs

-----------------------------------------------------------------------------
LEMMA DivExact == ASSUME NEW a \in Int, NEW m \in Nat \ {0}
                  PROVE  (a * m) \div m = a /\ (a * m) % m = 0
  BY Z3

\* What is exact stays exact under either rounding.
LEMMA Scaled == ASSUME NEW a \in Int, NEW m \in Nat \ {0} PROVE RoundHalfEven(<<a * m, m>>) = a
BY DivExact DEF RoundHalfEven

LEMMA TruncateExact ==
  ASSUME NEW a \in Int, NEW m \in Nat \ {0} PROVE Truncate(<<a * m, m>>) = a
<1>1. CASE a * m >= 0
  BY <1>1, DivExact DEF Truncate
<1>2. CASE ~(a * m >= 0)
  <2>1. -(a * m) = (-a) * m /\ -a \in Int
    OBVIOUS
  <2>2. Truncate(<<a * m, m>>) = -((-(a * m)) \div m)
    BY <1>2 DEF Truncate
  <2>3. (-(a * m)) \div m = -a
    BY <2>1, DivExact
  <2> QED
    BY <2>2, <2>3
<1> QED
  BY <1>1, <1>2

LEMMA TruncateType ==
  ASSUME NEW a \in Int, NEW m \in Nat \ {0} PROVE Truncate(<<a, m>>) \in Int
BY DEF Truncate

LEMMA RoundType ==
  ASSUME NEW a \in Int, NEW m \in Nat \ {0} PROVE RoundHalfEven(<<a, m>>) \in Int
BY DEF RoundHalfEven

SampleSet == [ticks : Int, host : Int]

\* The coordinates of samples are numbers, one for each sample.
LEMMA FromOrigin ==
  ASSUME NEW b \in Seq(SampleSet), NEW t \in Int, NEW h \in Int
  PROVE  /\ TicksFrom(b, t) \in Seq(Int) /\ Len(TicksFrom(b, t)) = Len(b)
         /\ HostsFrom(b, h) \in Seq(Int) /\ Len(HostsFrom(b, h)) = Len(b)
         /\ \A i \in 1..Len(b) : /\ TicksFrom(b, t)[i] = b[i].ticks - t
                                 /\ HostsFrom(b, h)[i] = b[i].host - h
                                 /\ b[i].ticks \in Int /\ b[i].host \in Int
<1>1. \A i \in 1..Len(b) : b[i].ticks \in Int /\ b[i].host \in Int
  <2>1. \A i \in 1..Len(b) : b[i] \in SampleSet
    OBVIOUS
  <2>2. \A s \in SampleSet : s.ticks \in Int /\ s.host \in Int
    BY DEF SampleSet
  <2> QED
    BY <2>1, <2>2
<1>2. DOMAIN b = 1..Len(b) /\ Len(b) \in Nat
  OBVIOUS
<1> QED
  BY <1>1, <1>2 DEF TicksFrom, HostsFrom

LEMMA ProductsType ==
  ASSUME NEW f \in Seq(Int), NEW g \in Seq(Int), Len(f) = Len(g)
  PROVE  /\ Products(f, g) \in Seq(Int) /\ Len(Products(f, g)) = Len(f)
         /\ \A i \in 1..Len(f) : Products(f, g)[i] = f[i] * g[i]
<1>1. DOMAIN f = 1..Len(f) /\ Len(f) \in Nat
  OBVIOUS
<1>2. \A i \in 1..Len(f) : f[i] \in Int /\ g[i] \in Int
  OBVIOUS
<1> QED
  BY <1>1, <1>2 DEF Products

\* The denominator of the least-squares fit: it is never negative, and positive as
\* soon as one coordinate differs from the first.
LEMMA Spread ==
  ASSUME NEW xs \in Seq(Int), Len(xs) >= 1
  PROVE  LET den == Len(xs) * Total(Products(xs, xs)) - Total(xs) * Total(xs)
         IN /\ den \in Int /\ den >= 0
            /\ (Len(xs) >= 2 /\ xs[1] = 0 /\ \A i \in 2..Len(xs) : xs[i] > 0) => den > 0
<1> DEFINE n == Len(xs)
           sx == Total(xs)
           sxx == Total(Products(xs, xs))
           den == n * sxx - sx * sx
           c == [i \in 1..n |-> sx * sx]
           u == -(2 * n * sx)
           w == [i \in 1..n |-> u * xs[i] + 1 * c[i]]
           h == [i \in 1..n |-> (n * n) * Products(xs, xs)[i] + 1 * w[i]]
<1>1. /\ n \in Nat /\ n >= 1 /\ sx \in Int /\ sxx \in Int /\ u \in Int /\ n * n \in Int
      /\ sx * sx \in Int
      /\ Products(xs, xs) \in Seq(Int) /\ Len(Products(xs, xs)) = n
      /\ \A i \in 1..n : Products(xs, xs)[i] = xs[i] * xs[i] /\ xs[i] \in Int
  <2>1. n \in Nat /\ sx \in Int /\ sxx \in Int
    BY TotalType, ProductsType
  <2> HIDE DEF sx, sxx
  <2> QED
    BY <2>1, ProductsType
<1> HIDE DEF sx, sxx
<1>2. c \in Seq(Int) /\ Len(c) = n /\ Total(c) = n * (sx * sx)
  <2>1. c \in Seq(Int) /\ Len(c) = n /\ \A i \in 1..Len(c) : c[i] = sx * sx
    BY <1>1
  <2> HIDE DEF c
  <2> QED
    BY <1>1, <2>1, TotalSame
<1>3. w \in Seq(Int) /\ Len(w) = n /\ Total(w) = u * sx + 1 * (n * (sx * sx))
  <2>1. \A i \in 1..n : c[i] \in Int
    BY <1>1
  <2> HIDE DEF u, c
  <2>2. w \in Seq(Int) /\ Len(w) = n /\ \A i \in 1..Len(w) : w[i] = u * xs[i] + 1 * c[i]
    BY <1>1, <2>1
  <2> HIDE DEF w
  <2>3. Total(w) = u * Total(xs) + 1 * Total(c)
    <3>1. Combines(w, u, xs, 1, c)
      BY <1>1, <1>2, <2>2 DEF Combines
    <3> QED
      BY <3>1, TotalLinear
  <2> QED
    BY <1>2, <2>2, <2>3 DEF sx
<1>4. h \in Seq(Int) /\ Len(h) = n /\ Total(h) = (n * n) * sxx + 1 * (u * sx + 1 * (n * (sx * sx)))
  <2>1. \A i \in 1..n : w[i] \in Int
    BY <1>3
  <2> HIDE DEF u, w
  <2>2. /\ h \in Seq(Int) /\ Len(h) = n
        /\ \A i \in 1..Len(h) : h[i] = (n * n) * Products(xs, xs)[i] + 1 * w[i]
    BY <1>1, <2>1
  <2> HIDE DEF h
  <2>3. Total(h) = (n * n) * Total(Products(xs, xs)) + 1 * Total(w)
    <3> DEFINE f == Products(xs, xs)
               m == n * n
    <3>1. Combines(h, m, f, 1, w)
      BY <1>1, <1>3, <2>2 DEF Combines
    <3> HIDE DEF f, m
    <3>2. Total(h) = m * Total(f) + 1 * Total(w)
      BY <3>1, TotalLinear
    <3> QED
      BY <3>2 DEF f, m
  <2> QED
    BY <1>3, <2>2, <2>3 DEF sxx
<1>5. Total(h) = n * den
  <2> HIDE DEF n
  <2> QED
    BY <1>1, <1>4
<1>6. \A i \in 1..n : h[i] = (n * xs[i] - sx) * (n * xs[i] - sx)
  <2> TAKE i \in 1..n
  <2> DEFINE x == xs[i]
  <2>1. x \in Int /\ h[i] = (n * n) * (x * x) + 1 * (u * x + 1 * (sx * sx))
    BY <1>1
  <2> HIDE DEF x, n
  <2>2. (n * n) * (x * x) + 1 * (u * x + 1 * (sx * sx)) = (n * x - sx) * (n * x - sx)
    BY <1>1, <2>1
  <2> QED
    BY <2>1, <2>2 DEF x
<1>7. \A i \in 1..n : h[i] >= 0
  <2> TAKE i \in 1..n
  <2> DEFINE d == n * xs[i] - sx
  <2>1. d \in Int /\ h[i] = d * d
    BY <1>1, <1>6, SMTT(30)
  <2> HIDE DEF d, h
  <2> QED
    BY <2>1
<1>8. den \in Int /\ den >= 0
  <2>1. Total(h) >= 0 /\ den \in Int
    <3> HIDE DEF h
    <3> QED
      BY <1>1, <1>4, <1>7, TotalPositive
  <2> HIDE DEF den, n, h
  <2> QED
    BY <1>1, <1>5, <2>1
<1>9. ASSUME n >= 2, xs[1] = 0, \A i \in 2..n : xs[i] > 0 PROVE den > 0
  <2>1. sx > 0
    <3>1. \A i \in 1..n : xs[i] >= 0
      <4> TAKE i \in 1..n
      <4>1. i = 1 \/ i \in 2..n
        BY <1>1
      <4>2. xs[i] \in Int /\ (i \in 2..n => xs[i] > 0) /\ (i = 1 => xs[i] = 0)
        BY <1>1, <1>9
      <4> HIDE DEF n
      <4> QED
        BY <4>1, <4>2
    <3>2. 2 \in 1..n /\ xs[2] > 0
      BY <1>1, <1>9
    <3> QED
      BY <3>1, <3>2, TotalPositive DEF sx
  <2>2. 1 \in 1..n /\ h[1] = (n * xs[1] - sx) * (n * xs[1] - sx)
    BY <1>1, <1>6
  <2>3. h[1] = sx * sx
    <3> HIDE DEF h, n
    <3> QED
      BY <1>1, <1>9, <2>2
  <2>4. h[1] > 0
    <3> HIDE DEF h
    <3> QED
      BY <1>1, <2>1, <2>3
  <2>5. Total(h) > 0
    <3> HIDE DEF h
    <3> QED
      BY <1>4, <1>7, <2>2, <2>4, TotalPositive
  <2> HIDE DEF den, n, h
  <2> QED
    BY <1>1, <1>5, <1>8, <2>5
<1> QED
  BY <1>8, <1>9 DEF sx, sxx

\* The fit through samples of which none lies before the first is a line: its slope
\* is a fraction with a positive denominator, and its intercept can be rounded.
LEMMA FitType ==
  ASSUME NEW b \in Seq(SampleSet), Len(b) >= 1, NEW nominal \in Int
  PROVE  LET line == FittedLine(b, nominal)
         IN /\ \E p \in Int, m \in Nat \ {0} : line.slope = <<p, m>>
            /\ RoundHalfEven(line.intercept) \in Int
<1> DEFINE n == Len(b)
           xs == TicksFrom(b, b[1].ticks)
           ys == HostsFrom(b, 0)
           sx == Total(xs)
           sy == Total(ys)
           den == n * Total(Products(xs, xs)) - sx * sx
           num == n * Total(Products(xs, ys)) - sx * sy
           line == FittedLine(b, nominal)
<1>1. /\ n \in Nat \ {0} /\ xs \in Seq(Int) /\ Len(xs) = n /\ ys \in Seq(Int) /\ Len(ys) = n
      /\ b[1].ticks \in Int /\ b[1].host \in Int
  <2>1. 1 \in 1..Len(b) /\ n \in Nat \ {0} /\ 0 \in Int
    OBVIOUS
  <2>2. b[1].ticks \in Int /\ b[1].host \in Int
    BY <2>1, FromOrigin
  <2> QED
    BY <2>1, <2>2, FromOrigin
<1>2. sx \in Int /\ sy \in Int /\ Total(Products(xs, ys)) \in Int /\ Total(Products(xs, xs)) \in Int
  <2> HIDE DEF xs, ys
  <2> QED
    BY <1>1, TotalType, ProductsType
<1>3. den \in Int /\ den >= 0
  <2>1. Len(xs) >= 1
    BY <1>1
  <2>2. LET d == Len(xs) * Total(Products(xs, xs)) - Total(xs) * Total(xs) IN d \in Int /\ d >= 0
    <3> HIDE DEF xs
    <3> QED
      BY <1>1, <2>1, Spread
  <2> QED
    BY <1>1, <2>2
<1>4. num \in Int /\ sy * den - num * sx \in Int
  <2>1. num \in Int
    <3> HIDE DEF sx, sy, xs, ys
    <3> QED
      BY <1>1, <1>2
  <2> HIDE DEF sx, sy, num, den
  <2> QED
    BY <1>2, <1>3, <2>1
<1>5. line = IF den # 0 THEN [slope |-> <<num, den>>, intercept |-> <<sy * den - num * sx, n * den>>]
                        ELSE [slope |-> <<nominal, 1>>, intercept |-> <<b[1].host, 1>>]
  BY DEF FittedLine
<1> HIDE DEF line, num, den, sx, sy, n, xs, ys
<1>6. CASE den # 0
  <2>1. den \in Nat \ {0} /\ n * den \in Nat \ {0}
    BY <1>1, <1>3, <1>6
  <2>2. line.slope = <<num, den>> /\ line.intercept = <<sy * den - num * sx, n * den>>
    BY <1>5, <1>6
  <2>3. RoundHalfEven(<<sy * den - num * sx, n * den>>) \in Int
    BY <1>4, <2>1, RoundType
  <2> QED
    BY <1>4, <2>1, <2>2, <2>3 DEF line
<1>7. CASE den = 0
  <2>1. line.slope = <<nominal, 1>> /\ line.intercept = <<b[1].host, 1>> /\ 1 \in Nat \ {0}
    BY <1>5, <1>7
  <2>2. RoundHalfEven(<<b[1].host, 1>>) \in Int
    BY <1>1, <2>1, RoundType
  <2> QED
    BY <2>1, <2>2 DEF line
<1> QED
  BY <1>6, <1>7

\* Where the host times lie on a line of slope rate, the fit finds that line.
LEMMA FitSteady ==
  ASSUME NEW b \in Seq(SampleSet), NEW nominal \in Int, NEW rate \in Int, Len(b) >= 2,
         \A i \in 2..Len(b) : b[i].ticks > b[1].ticks,
         \A i \in 1..Len(b) : b[i].host = rate * (b[i].ticks - b[1].ticks) + b[1].host
  PROVE  LET line == FittedLine(b, nominal)
         IN /\ \E m \in Nat \ {0} : line.slope = <<rate * m, m>>
            /\ RoundHalfEven(line.intercept) = b[1].host
<1> DEFINE n == Len(b)
           c == b[1].host
           xs == TicksFrom(b, b[1].ticks)
           ys == HostsFrom(b, 0)
           ones == [i \in 1..n |-> 1]
           xx == Products(xs, xs)
           xy == Products(xs, ys)
           sx == Total(xs)
           sy == Total(ys)
           sxx == Total(xx)
           sxy == Total(xy)
           den == n * sxx - sx * sx
           num == n * sxy - sx * sy
           line == FittedLine(b, nominal)
<1>1. n \in Nat \ {0} /\ n >= 2 /\ 1 \in 1..n /\ b[1].ticks \in Int /\ c \in Int
  <2>1. 1 \in 1..Len(b) /\ n \in Nat \ {0} /\ 0 \in Int /\ n >= 2
    OBVIOUS
  <2>2. b[1].ticks \in Int /\ b[1].host \in Int
    BY <2>1, FromOrigin
  <2> QED
    BY <2>1, <2>2
<1>2. /\ xs \in Seq(Int) /\ Len(xs) = n /\ ys \in Seq(Int) /\ Len(ys) = n
      /\ \A i \in 1..n : /\ xs[i] = b[i].ticks - b[1].ticks /\ ys[i] = b[i].host - 0
                         /\ b[i].ticks \in Int /\ b[i].host \in Int
  <2>1. 0 \in Int /\ b[1].ticks \in Int
    BY <1>1
  <2>2. \A i \in 1..n : xs[i] = b[i].ticks - b[1].ticks /\ ys[i] = b[i].host - 0
    BY DEF TicksFrom, HostsFrom
  <2>3. \A i \in 1..n : b[i].ticks \in Int /\ b[i].host \in Int
    BY <2>1, FromOrigin
  <2>4. xs \in Seq(Int) /\ Len(xs) = n /\ ys \in Seq(Int) /\ Len(ys) = n
    BY <2>1, FromOrigin
  <2> QED
    BY <2>2, <2>3, <2>4
<1>3. \A i \in 1..n : xs[i] \in Int /\ ys[i] = rate * xs[i] + c * 1
  <2> TAKE i \in 1..n
  <2>1. xs[i] \in Int /\ xs[i] = b[i].ticks - b[1].ticks /\ ys[i] = b[i].host /\ b[i].host \in Int
    <3> HIDE DEF xs, ys
    <3> QED
      BY <1>1, <1>2
  <2>2. b[i].host = rate * xs[i] + c
    BY <2>1
  <2> HIDE DEF xs, ys, c
  <2> QED
    BY <1>1, <2>1, <2>2
<1>4. /\ xx \in Seq(Int) /\ Len(xx) = n /\ xy \in Seq(Int) /\ Len(xy) = n
      /\ \A i \in 1..n : xx[i] = xs[i] * xs[i] /\ xy[i] = xs[i] * ys[i]
  <2> HIDE DEF xs, ys
  <2>1. /\ xs \in Seq(Int) /\ ys \in Seq(Int) /\ Len(xs) = Len(ys) /\ Len(xs) = n
    BY <1>2
  <2> HIDE DEF n
  <2>2. /\ xx \in Seq(Int) /\ Len(xx) = Len(xs)
        /\ \A i \in 1..Len(xs) : xx[i] = xs[i] * xs[i]
    BY <2>1, ProductsType
  <2>3. /\ xy \in Seq(Int) /\ Len(xy) = Len(xs)
        /\ \A i \in 1..Len(xs) : xy[i] = xs[i] * ys[i]
    BY <2>1, ProductsType
  <2> HIDE DEF xx, xy
  <2> QED
    BY <2>1, <2>2, <2>3
<1>5. sx \in Int /\ sxx \in Int
  <2> HIDE DEF xs, xx
  <2> QED
    BY <1>2, <1>4, TotalType
<1>6. sy = rate * sx + c * n
  <2>1. ones \in Seq(Int) /\ Len(ones) = n /\ \A i \in 1..Len(ones) : ones[i] = 1
    BY <1>1
  <2> HIDE DEF ones, xs, ys, n, c
  <2>2. Total(ones) = n
    <3>1. Total(ones) = Len(ones) * 1
      BY <2>1, TotalSame
    <3> QED
      BY <1>1, <2>1, <3>1
  <2>3. Combines(ys, rate, xs, c, ones)
    BY <1>1, <1>2, <1>3, <2>1 DEF Combines
  <2> QED
    BY <2>2, <2>3, TotalLinear
<1>7. sxy = rate * sxx + c * sx
  <2>1. \A i \in 1..n : xy[i] = rate * xx[i] + c * xs[i]
    <3> TAKE i \in 1..n
    <3> DEFINE x == xs[i]
    <3>1. x \in Int /\ xy[i] = x * (rate * x + c * 1) /\ xx[i] = x * x
      BY <1>3, <1>4
    <3> HIDE DEF x, xy, xx, c
    <3>2. x * (rate * x + c * 1) = rate * (x * x) + c * x
      BY <1>1, <3>1
    <3> QED
      BY <3>1, <3>2 DEF x
  <2> HIDE DEF xs, ys, n, c, xx, xy
  <2>2. Combines(xy, rate, xx, c, xs)
    BY <1>1, <1>2, <1>4, <2>1 DEF Combines
  <2> QED
    BY <2>2, TotalLinear
<1>8. den \in Int /\ den > 0
  <2>1. Len(xs) >= 2 /\ xs[1] = 0 /\ \A i \in 2..Len(xs) : xs[i] > 0
    <3>1. xs[1] = 0
      <4> HIDE DEF xs, n
      <4> QED
        BY <1>1, <1>2
    <3>2. \A i \in 2..n : i \in 1..n /\ b[i].ticks > b[1].ticks
      BY <1>1
    <3>3. \A i \in 2..n : xs[i] > 0
      <4> TAKE i \in 2..n
      <4>1. i \in 1..n /\ b[i].ticks > b[1].ticks
        BY <3>2
      <4>2. xs[i] = b[i].ticks - b[1].ticks /\ b[i].ticks \in Int
        BY <1>2, <4>1
      <4> HIDE DEF xs
      <4> QED
        BY <1>1, <4>1, <4>2
    <3> HIDE DEF xs, n
    <3> QED
      BY <1>1, <1>2, <3>1, <3>3
  <2>2. LET d == Len(xs) * Total(Products(xs, xs)) - Total(xs) * Total(xs) IN d \in Int /\ d > 0
    <3>1. Len(xs) >= 1
      BY <2>1
    <3> HIDE DEF xs
    <3> QED
      BY <1>2, <2>1, <3>1, Spread
  <2> QED
    BY <1>2, <2>2
<1>9. line = IF den # 0 THEN [slope |-> <<num, den>>, intercept |-> <<sy * den - num * sx, n * den>>]
                        ELSE [slope |-> <<nominal, 1>>, intercept |-> <<b[1].host, 1>>]
  BY DEF FittedLine
<1> HIDE DEF c, n, xs, ys, xx, xy, sx, sy, sxx, sxy, line
<1>10. num = rate * den
  <2>1. n * (rate * sxx + c * sx) - sx * (rate * sx + c * n) = rate * (n * sxx - sx * sx)
    BY <1>1, <1>5
  <2> QED
    BY <1>6, <1>7, <2>1
<1> HIDE DEF num, den
<1>11. sy * den - num * sx = c * (n * den)
  <2>1. (rate * sx + c * n) * den - (rate * den) * sx = c * (n * den)
    BY <1>1, <1>5, <1>8
  <2> QED
    BY <1>6, <1>10, <2>1
<1>12. line.slope = <<rate * den, den>> /\ line.intercept = <<c * (n * den), n * den>>
  BY <1>8, <1>9, <1>10, <1>11
<1>13. den \in Nat \ {0} /\ n * den \in Nat \ {0}
  BY <1>1, <1>8
<1>14. RoundHalfEven(<<c * (n * den), n * den>>) = c
  BY <1>1, <1>13, Scaled
<1> QED
  BY <1>12, <1>13, <1>14 DEF line, c

-----------------------------------------------------------------------------
LEMMA SamplesAppend ==
  ASSUME NEW s \in Seq(SampleSet), NEW e \in SampleSet, NEW t \in Int, NEW h \in Int
  PROVE  LET r == Append(s, e)
         IN /\ r \in Seq(SampleSet) /\ e.ticks \in Int /\ e.host \in Int
            /\ TicksFrom(r, t) = Append(TicksFrom(s, t), e.ticks - t)
            /\ HostsFrom(r, h) = Append(HostsFrom(s, h), e.host - h)
<1> DEFINE r == Append(s, e)
<1>1. /\ r \in Seq(SampleSet) /\ Len(r) = Len(s) + 1 /\ r[Len(s) + 1] = e /\ Len(s) \in Nat
      /\ \A i \in 1..Len(s) : r[i] = s[i]
  OBVIOUS
<1>2. e.ticks \in Int /\ e.host \in Int
  BY DEF SampleSet
<1> HIDE DEF r
<1>3. /\ TicksFrom(r, t) \in Seq(Int) /\ Len(TicksFrom(r, t)) = Len(r)
      /\ HostsFrom(r, h) \in Seq(Int) /\ Len(HostsFrom(r, h)) = Len(r)
      /\ \A i \in 1..Len(r) : /\ TicksFrom(r, t)[i] = r[i].ticks - t
                              /\ HostsFrom(r, h)[i] = r[i].host - h
                              /\ r[i].ticks \in Int /\ r[i].host \in Int
  <2>1. r \in Seq(SampleSet)
    BY <1>1
  <2> QED
    BY <2>1, FromOrigin
<1>4. TicksFrom(r, t) = Append(TicksFrom(s, t), e.ticks - t)
  <2> DEFINE p == TicksFrom(r, t)
             q == Append(TicksFrom(s, t), e.ticks - t)
  <2>1. p \in Seq(Int) /\ Len(p) = Len(s) + 1 /\ \A i \in 1..Len(s) + 1 : p[i] = r[i].ticks - t
    BY <1>1, <1>3
  <2>2. /\ q \in Seq(Int) /\ Len(q) = Len(s) + 1 /\ q[Len(s) + 1] = e.ticks - t
        /\ \A i \in 1..Len(s) : q[i] = s[i].ticks - t
    <3>1. /\ TicksFrom(s, t) \in Seq(Int) /\ Len(TicksFrom(s, t)) = Len(s)
          /\ \A i \in 1..Len(s) : TicksFrom(s, t)[i] = s[i].ticks - t
      BY FromOrigin
    <3> QED
      BY <1>1, <1>2, <3>1
  <2> HIDE DEF p, q
  <2>3. \A i \in 1..Len(s) + 1 : p[i] = q[i]
    <3> TAKE i \in 1..Len(s) + 1
    <3>1. CASE i = Len(s) + 1
      BY <1>1, <2>1, <2>2, <3>1
    <3>2. CASE i \in 1..Len(s)
      BY <1>1, <2>1, <2>2, <3>2
    <3> QED
      BY <1>1, <3>1, <3>2
  <2>4. p = q
    BY <2>1, <2>2, <2>3
  <2> QED
    BY <2>4 DEF p, q
<1>5. HostsFrom(r, h) = Append(HostsFrom(s, h), e.host - h)
  <2> DEFINE p == HostsFrom(r, h)
             q == Append(HostsFrom(s, h), e.host - h)
  <2>1. p \in Seq(Int) /\ Len(p) = Len(s) + 1 /\ \A i \in 1..Len(s) + 1 : p[i] = r[i].host - h
    BY <1>1, <1>3
  <2>2. /\ q \in Seq(Int) /\ Len(q) = Len(s) + 1 /\ q[Len(s) + 1] = e.host - h
        /\ \A i \in 1..Len(s) : q[i] = s[i].host - h
    <3>1. /\ HostsFrom(s, h) \in Seq(Int) /\ Len(HostsFrom(s, h)) = Len(s)
          /\ \A i \in 1..Len(s) : HostsFrom(s, h)[i] = s[i].host - h
      BY FromOrigin
    <3> QED
      BY <1>1, <1>2, <3>1
  <2> HIDE DEF p, q
  <2>3. \A i \in 1..Len(s) + 1 : p[i] = q[i]
    <3> TAKE i \in 1..Len(s) + 1
    <3>1. CASE i = Len(s) + 1
      BY <1>1, <2>1, <2>2, <3>1
    <3>2. CASE i \in 1..Len(s)
      BY <1>1, <2>1, <2>2, <3>2
    <3> QED
      BY <1>1, <3>1, <3>2
  <2>4. p = q
    BY <2>1, <2>2, <2>3
  <2> QED
    BY <2>4 DEF p, q
<1> QED
  BY <1>1, <1>2, <1>4, <1>5 DEF r

LEMMA ProductsAppend ==
  ASSUME NEW f \in Seq(Int), NEW g \in Seq(Int), Len(f) = Len(g), NEW u \in Int, NEW v \in Int
  PROVE  Total(Products(Append(f, u), Append(g, v))) = Total(Products(f, g)) + u * v
<1> DEFINE p == Products(Append(f, u), Append(g, v))
           q == Append(Products(f, g), u * v)
           n == Len(f)
<1>1. /\ Append(f, u) \in Seq(Int) /\ Len(Append(f, u)) = n + 1 /\ n \in Nat
      /\ Append(g, v) \in Seq(Int) /\ Len(Append(g, v)) = n + 1
      /\ \A i \in 1..n : Append(f, u)[i] = f[i] /\ Append(g, v)[i] = g[i]
      /\ Append(f, u)[n + 1] = u /\ Append(g, v)[n + 1] = v /\ u * v \in Int
  OBVIOUS
<1>2. /\ p \in Seq(Int) /\ Len(p) = n + 1
      /\ \A i \in 1..n + 1 : p[i] = Append(f, u)[i] * Append(g, v)[i]
  <2> DEFINE ff == Append(f, u)
             gg == Append(g, v)
  <2> HIDE DEF ff, gg, n
  <2>1. ff \in Seq(Int) /\ gg \in Seq(Int) /\ Len(ff) = Len(gg) /\ Len(ff) = n + 1
    BY <1>1 DEF ff, gg
  <2>2. /\ Products(ff, gg) \in Seq(Int) /\ Len(Products(ff, gg)) = Len(ff)
        /\ \A i \in 1..Len(ff) : Products(ff, gg)[i] = ff[i] * gg[i]
    BY <2>1, ProductsType
  <2>3. /\ Products(ff, gg) \in Seq(Int) /\ Len(Products(ff, gg)) = n + 1
        /\ \A i \in 1..n + 1 : Products(ff, gg)[i] = ff[i] * gg[i]
    BY <2>1, <2>2, Zenon
  <2> QED
    BY <2>3 DEF ff, gg
<1>3. /\ Products(f, g) \in Seq(Int) /\ Len(Products(f, g)) = n
      /\ \A i \in 1..n : Products(f, g)[i] = f[i] * g[i]
  BY ProductsType
<1>4. q \in Seq(Int) /\ Len(q) = n + 1 /\ q[n + 1] = u * v /\ \A i \in 1..n : q[i] = f[i] * g[i]
  BY <1>1, <1>3
<1> HIDE DEF p, q, n
<1>5. \A i \in 1..n + 1 : p[i] = q[i]
  <2> TAKE i \in 1..n + 1
  <2>1. CASE i = n + 1
    <3>1. n + 1 \in 1..n + 1
      BY <1>1
    <3>2. p[n + 1] = Append(f, u)[n + 1] * Append(g, v)[n + 1]
      BY <1>2, <3>1
    <3> QED
      BY <1>1, <1>4, <2>1, <3>2
  <2>2. CASE i \in 1..n
    <3>1. p[i] = Append(f, u)[i] * Append(g, v)[i]
      BY <1>2
    <3> QED
      BY <1>1, <1>4, <2>2, <3>1
  <2> QED
    BY <1>1, <2>1, <2>2
<1>6. p = q
  BY <1>1, <1>2, <1>4, <1>5
<1>7. Total(q) = Total(Products(f, g)) + u * v
  BY <1>1, <1>3, TotalAppend DEF q
<1> QED
  BY <1>6, <1>7 DEF p

\* The sums of a fit with one more sample.
LEMMA FitAppend ==
  ASSUME NEW s \in Seq(SampleSet), NEW e \in SampleSet, NEW t \in Int, NEW h \in Int
  PROVE  LET r == Append(s, e)
             x == e.ticks - t
             y == e.host - h
         IN /\ Total(Products(TicksFrom(r, t), TicksFrom(r, t)))
                 = Total(Products(TicksFrom(s, t), TicksFrom(s, t))) + x * x
            /\ Total(Products(TicksFrom(r, t), HostsFrom(r, h)))
                 = Total(Products(TicksFrom(s, t), HostsFrom(s, h))) + x * y
            /\ Total(Products(TicksFrom(s, t), TicksFrom(s, t))) \in Int
            /\ Total(Products(TicksFrom(s, t), HostsFrom(s, h))) \in Int
<1> DEFINE r == Append(s, e)
           f == TicksFrom(s, t)
           g == HostsFrom(s, h)
           x == e.ticks - t
           y == e.host - h
<1>1. TicksFrom(r, t) = Append(f, x) /\ HostsFrom(r, h) = Append(g, y) /\ x \in Int /\ y \in Int
  <2>1. e.ticks \in Int /\ e.host \in Int
    BY DEF SampleSet
  <2>2. /\ TicksFrom(Append(s, e), t) = Append(TicksFrom(s, t), e.ticks - t)
        /\ HostsFrom(Append(s, e), h) = Append(HostsFrom(s, h), e.host - h)
    <3>1. LET z == Append(s, e)
          IN /\ TicksFrom(z, t) = Append(TicksFrom(s, t), e.ticks - t)
             /\ HostsFrom(z, h) = Append(HostsFrom(s, h), e.host - h)
      <4> HIDE DEF f, g, x, y, r
      <4> QED
        BY SamplesAppend, Zenon
    <3> QED
      BY <3>1
  <2> QED
    BY <2>1, <2>2
<1>2. f \in Seq(Int) /\ g \in Seq(Int) /\ Len(f) = Len(g)
  BY FromOrigin
<1> HIDE DEF f, g, x, y, r
<1>3. /\ Total(Products(Append(f, x), Append(f, x))) = Total(Products(f, f)) + x * x
      /\ Total(Products(Append(f, x), Append(g, y))) = Total(Products(f, g)) + x * y
  BY <1>1, <1>2, ProductsAppend
<1>4. Total(Products(f, f)) \in Int /\ Total(Products(f, g)) \in Int
  BY <1>2, ProductsType, TotalType
<1> QED
  BY <1>1, <1>3, <1>4 DEF f, g, x, y, r

-----------------------------------------------------------------------------
(***************************************************************************)
(* The clock: what one observation makes of it.                            *)
(***************************************************************************)

Anchors == [nominal : Int, warmup : Nat \ {0, 1}, buffer : Seq(SampleSet), anchored : BOOLEAN,
            ticks0 : Int, host0 : Int, rate : Int \X (Nat \ {0}), xx : Int, xy : Int]

LEMMA AnchorFields ==
  ASSUME NEW a \in Anchors
  PROVE  /\ a.nominal \in Int /\ a.warmup \in Nat \ {0, 1} /\ a.buffer \in Seq(SampleSet)
         /\ a.anchored \in BOOLEAN /\ a.ticks0 \in Int /\ a.host0 \in Int
         /\ a.rate \in Int \X (Nat \ {0}) /\ a.xx \in Int /\ a.xy \in Int
BY DEF Anchors

\* While the clock warms up, the sample is kept.
LEMMA ObserveKeeps ==
  ASSUME NEW a \in Anchors, ~a.anchored, NEW ticks \in Int, NEW host \in Int,
         Len(a.buffer) + 1 < a.warmup
  PROVE  LET o == Observe(a, ticks, host)
         IN /\ o \in Anchors /\ o.nominal = a.nominal /\ o.warmup = a.warmup /\ ~o.anchored
            /\ o.buffer = Append(a.buffer, Sample(ticks, host))
            /\ HostNs(a, ticks, host) = host
<1> DEFINE b == [a EXCEPT !.buffer = Append(@, Sample(ticks, host))]
           o == Observe(a, ticks, host)
<1>1. Sample(ticks, host) \in SampleSet
  BY DEF Sample, SampleSet
<1>2. /\ Append(a.buffer, Sample(ticks, host)) \in Seq(SampleSet)
      /\ Len(Append(a.buffer, Sample(ticks, host))) = Len(a.buffer) + 1
  BY <1>1, AnchorFields
<1>3. /\ b \in Anchors /\ b.nominal = a.nominal /\ b.warmup = a.warmup /\ b.anchored = a.anchored
      /\ b.buffer = Append(a.buffer, Sample(ticks, host))
  BY <1>2 DEF Anchors
<1>4. Len(b.buffer) = Len(a.buffer) + 1 /\ Len(a.buffer) \in Nat /\ a.warmup \in Nat
  BY <1>2, <1>3, AnchorFields
<1>5. o = b
  <2>1. ~(Len(b.buffer) >= b.warmup)
    <3> HIDE DEF b
    <3> QED
      BY <1>3, <1>4
  <2> QED
    BY <2>1 DEF Observe
<1>6. HostNs(a, ticks, host) = host
  BY DEF HostNs
<1> HIDE DEF b, o
<1> QED
  BY <1>3, <1>5, <1>6 DEF o

\* The sample that ends the warm-up: everything is computed from those kept.
LEMMA ObserveFinishes ==
  ASSUME NEW a \in Anchors, ~a.anchored, NEW ticks \in Int, NEW host \in Int,
         Len(a.buffer) + 1 >= a.warmup
  PROVE  LET o == Observe(a, ticks, host)
             b == Append(a.buffer, Sample(ticks, host))
             line == FittedLine(b, a.nominal)
             xs == TicksFrom(b, b[1].ticks)
             ys == HostsFrom(b, o.host0)
         IN /\ o \in Anchors /\ o.nominal = a.nominal /\ o.warmup = a.warmup /\ o.anchored
            /\ o.ticks0 = b[1].ticks /\ o.host0 = RoundHalfEven(line.intercept)
            /\ o.rate = line.slope
            /\ o.xx = Total(Products(xs, xs)) /\ o.xy = Total(Products(xs, ys))
            /\ HostNs(a, ticks, host) = host
<1> DEFINE b == Append(a.buffer, Sample(ticks, host))
           c == [a EXCEPT !.buffer = Append(@, Sample(ticks, host))]
           o == Observe(a, ticks, host)
           line == FittedLine(b, a.nominal)
           host0 == RoundHalfEven(line.intercept)
           xs == TicksFrom(b, b[1].ticks)
           ys == HostsFrom(b, host0)
<1>1. Sample(ticks, host) \in SampleSet
  BY DEF Sample, SampleSet
<1>2. b \in Seq(SampleSet) /\ Len(b) = Len(a.buffer) + 1 /\ Len(b) >= 1
  BY <1>1, AnchorFields
<1>3. c \in Anchors /\ c.nominal = a.nominal /\ c.warmup = a.warmup /\ c.buffer = b
  BY <1>2 DEF Anchors
<1>4. o = FinishWarmup(c)
  <2>1. Len(c.buffer) >= c.warmup
    BY <1>2, <1>3
  <2> QED
    BY <2>1 DEF Observe
<1>5. b[1].ticks \in Int
  <2>1. 1 \in 1..Len(b) /\ 0 \in Int
    BY <1>2
  <2> QED
    BY <1>2, <2>1, FromOrigin
<1>6. line.slope \in Int \X (Nat \ {0}) /\ host0 \in Int
  <2>1. a.nominal \in Int
    BY AnchorFields
  <2>2. /\ \E p \in Int, m \in Nat \ {0} : line.slope = <<p, m>>
        /\ RoundHalfEven(line.intercept) \in Int
    <3> HIDE DEF b
    <3> QED
      BY <1>2, <2>1, FitType
  <2> HIDE DEF line
  <2> QED
    BY <2>2
<1>7. Total(Products(xs, xs)) \in Int /\ Total(Products(xs, ys)) \in Int
  <2>1. xs \in Seq(Int) /\ ys \in Seq(Int) /\ Len(xs) = Len(ys)
    <3> HIDE DEF b, host0
    <3> QED
      BY <1>2, <1>5, <1>6, FromOrigin
  <2> HIDE DEF xs, ys
  <2> QED
    BY <2>1, ProductsType, TotalType
<1>8. o = [c EXCEPT !.ticks0 = b[1].ticks, !.host0 = host0, !.rate = line.slope,
                    !.xx = Total(Products(xs, xs)), !.xy = Total(Products(xs, ys)),
                    !.buffer = << >>, !.anchored = TRUE]
  <2> HIDE DEF b, c
  <2> QED
    BY <1>3, <1>4 DEF FinishWarmup
<1>9. << >> \in Seq(SampleSet)
  OBVIOUS
<1>10. HostNs(a, ticks, host) = host
  BY DEF HostNs
<1> DEFINE t == b[1].ticks
           slope == line.slope
           xx == Total(Products(xs, xs))
           xy == Total(Products(xs, ys))
<1>11. o = [c EXCEPT !.ticks0 = t, !.host0 = host0, !.rate = slope, !.xx = xx, !.xy = xy,
                     !.buffer = << >>, !.anchored = TRUE]
  BY <1>8
<1>12. t \in Int /\ host0 \in Int /\ slope \in Int \X (Nat \ {0}) /\ xx \in Int /\ xy \in Int
  BY <1>5, <1>6, <1>7
<1> HIDE DEF c, t, host0, slope, xx, xy, o
<1>13. /\ o \in Anchors /\ o.nominal = a.nominal /\ o.warmup = a.warmup /\ o.anchored
       /\ o.ticks0 = t /\ o.host0 = host0 /\ o.rate = slope /\ o.xx = xx /\ o.xy = xy
  BY <1>3, <1>9, <1>11, <1>12 DEF Anchors
<1> HIDE DEF b
<1> QED
  BY <1>10, <1>13 DEF o, t, host0, slope, xx, xy, b

\* An anchored clock: the sums grow by the sample, the rate is their quotient.
Refines(a, ticks, host, o) ==
  LET x == ticks - a.ticks0
  IN /\ o \in Anchors /\ o.nominal = a.nominal /\ o.warmup = a.warmup /\ o.anchored
     /\ o.ticks0 = a.ticks0 /\ o.host0 = a.host0
     /\ o.xx = a.xx + x * x /\ o.xy = a.xy + x * (host - a.host0)
     /\ o.rate = IF o.xx > 0 THEN <<o.xy, o.xx>> ELSE a.rate
     /\ HostNs(a, ticks, host) = a.host0 + Truncate(<<x * o.rate[1], o.rate[2]>>)

LEMMA ObserveRefines ==
  ASSUME NEW a \in Anchors, a.anchored, NEW ticks \in Int, NEW host \in Int
  PROVE  Refines(a, ticks, host, Observe(a, ticks, host)) /\ HostNs(a, ticks, host) \in Int
<1> DEFINE o == Observe(a, ticks, host)
           x == ticks - a.ticks0
           xx == a.xx + x * x
           xy == a.xy + x * (host - a.host0)
           rate == IF xx > 0 THEN <<xy, xx>> ELSE a.rate
<1>1. /\ a.ticks0 \in Int /\ a.host0 \in Int /\ a.xx \in Int /\ a.xy \in Int
      /\ a.rate \in Int \X (Nat \ {0})
  BY AnchorFields
<1>2. x \in Int /\ xx \in Int /\ xy \in Int
  BY <1>1
<1>3. o = [a EXCEPT !.xx = xx, !.xy = xy, !.rate = IF xx > 0 THEN <<xy, xx>> ELSE @]
  BY DEF Observe
<1> HIDE DEF o, xx, xy
<1>4. rate \in Int \X (Nat \ {0})
  BY <1>1, <1>2
<1>5. o = [a EXCEPT !.xx = xx, !.xy = xy, !.rate = rate]
  BY <1>3
<1> HIDE DEF rate
<1>6. /\ o \in Anchors /\ o.nominal = a.nominal /\ o.warmup = a.warmup /\ o.anchored
      /\ o.ticks0 = a.ticks0 /\ o.host0 = a.host0 /\ o.xx = xx /\ o.xy = xy /\ o.rate = rate
  BY <1>2, <1>4, <1>5 DEF Anchors
<1>7. HostNs(a, ticks, host) = a.host0 + Truncate(<<x * o.rate[1], o.rate[2]>>)
  BY <1>6 DEF HostNs, o
<1>8. HostNs(a, ticks, host) \in Int
  <2> HIDE DEF x
  <2>1. PICK p \in Int, m \in Nat \ {0} : rate = <<p, m>>
    BY <1>4
  <2>2. x * p \in Int /\ o.rate[1] = p /\ o.rate[2] = m
    BY <1>2, <1>6, <2>1
  <2>3. Truncate(<<x * p, m>>) \in Int
    BY <2>1, <2>2, TruncateType
  <2>4. HostNs(a, ticks, host) = a.host0 + Truncate(<<x * p, m>>)
    BY <1>7, <2>2
  <2> QED
    BY <1>1, <2>3, <2>4
<1> QED
  BY <1>6, <1>7, <1>8 DEF o, xx, xy, rate, Refines

\* What an observation makes of a clock, whatever its state.
LEMMA ObserveType ==
  ASSUME NEW a \in Anchors, NEW ticks \in Int, NEW host \in Int
  PROVE  Observe(a, ticks, host) \in Anchors /\ HostNs(a, ticks, host) \in Int
<1>1. CASE a.anchored
  BY <1>1, ObserveRefines DEF Refines
<1>2. CASE ~a.anchored
  <2>1. Len(a.buffer) \in Nat /\ a.warmup \in Nat
    BY AnchorFields
  <2>2. HostNs(a, ticks, host) = host
    BY <1>2 DEF HostNs
  <2>3. CASE Len(a.buffer) + 1 < a.warmup
    BY <1>2, <2>2, <2>3, ObserveKeeps
  <2>4. CASE Len(a.buffer) + 1 >= a.warmup
    <3>1. Observe(a, ticks, host) \in Anchors
      BY <1>2, <2>4, ObserveFinishes
    <3> QED BY <2>2, <3>1
  <2> QED BY <2>1, <2>3, <2>4
<1> QED BY <1>1, <1>2

-----------------------------------------------------------------------------
(***************************************************************************)
(* A Basler camera and its clock.                                          *)
(***************************************************************************)

RowSet == [block : Nat \ {0}, ticks : Int, arrival : Int, latency : Int, exposure : Int]

CameraType == /\ anchor \in Anchors /\ rows \in Seq(RowSet)
              /\ now \in Int /\ sent \in Nat /\ lastId \in Nat /\ dropped \in Nat

\* The samples the clock has seen.
SamplesOf(rs) == [i \in DOMAIN rs |-> Sample(rs[i].ticks, rs[i].arrival)]
Samples == SamplesOf(rows)

\* The rows are of blocks that were sent, in their order.
RowsInOrder ==
  \A i \in 1..Len(rows) :
    /\ rows[i].block <= sent /\ rows[i].ticks = TickOf(rows[i].block)
    /\ rows[i].latency = rows[i].arrival - rows[i].block * NsPerTick
    /\ \A j \in 1..Len(rows) : j < i => rows[j].block < rows[i].block

\* A clock that warms up has every sample; an anchored one has their sums.
ClockSaw ==
  /\ anchor.nominal = Nominal
  /\ ~anchor.anchored => Len(rows) < anchor.warmup /\ anchor.buffer = Samples
  /\ anchor.anchored =>
       LET xs == TicksFrom(Samples, rows[1].ticks)
           ys == HostsFrom(Samples, anchor.host0)
       IN /\ Len(rows) >= anchor.warmup /\ anchor.ticks0 = rows[1].ticks
          /\ anchor.xx = Total(Products(xs, xs)) /\ anchor.xy = Total(Products(xs, ys))
          /\ ~frozen /\ Len(rows) > anchor.warmup => anchor.rate = <<anchor.xy, anchor.xx>>

\* Every latency was the same.
Steady == \A i \in 1..Len(rows) : rows[i].latency = rows[1].latency

\* Then the anchor is the first arrival, and the rate is the true one.
ClockIsTrue ==
  ~frozen /\ Steady =>
    /\ \A i \in 1..Len(rows) : rows[i].exposure = rows[i].arrival
    /\ anchor.anchored => /\ anchor.host0 = rows[1].arrival
                          /\ anchor.rate[1] = NsPerTick * anchor.rate[2]

\* Frames and drops are never more than the blocks, and as many unless the IDs wrapped.
Accounted ==
  /\ rows = << >> => lastId = 0 /\ dropped = 0
  /\ rows # << >> =>
       LET last == rows[Len(rows)].block
           blocks == last - rows[1].block + 1
       IN /\ lastId = BlockId(last) /\ Len(rows) + dropped <= blocks
          /\ last <= BlockModulus => Len(rows) + dropped = blocks

CameraInv ==
  /\ kind \in {"rgb", "event"} /\ frozen \in BOOLEAN
  /\ kind = "event" => rows = << >>
  /\ kind = "rgb" => CameraType /\ RowsInOrder /\ ClockSaw /\ ClockIsTrue /\ Accounted

\* The sum of squares is positive as soon as one sample is not at the origin.
LEMMA SquaresPositive ==
  ASSUME NEW b \in Seq(SampleSet), NEW t \in Int, NEW k \in 1..Len(b), b[k].ticks # t
  PROVE  Total(Products(TicksFrom(b, t), TicksFrom(b, t))) > 0
<1> DEFINE xs == TicksFrom(b, t)
           p == Products(xs, xs)
<1>1. /\ xs \in Seq(Int) /\ Len(xs) = Len(b)
      /\ \A i \in 1..Len(b) : xs[i] = b[i].ticks - t /\ b[i].ticks \in Int
  BY FromOrigin
<1>2. \A i \in 1..Len(b) : xs[i] \in Int
  BY <1>1
<1>3. xs[k] # 0
  BY <1>1
<1> HIDE DEF xs
<1>4. /\ p \in Seq(Int) /\ Len(p) = Len(b) /\ \A i \in 1..Len(b) : p[i] = xs[i] * xs[i]
  BY <1>1, ProductsType
<1> HIDE DEF p
<1>5. \A i \in 1..Len(p) : p[i] >= 0
  BY <1>2, <1>4
<1>6. k \in 1..Len(p) /\ p[k] > 0
  <2> DEFINE x == xs[k]
  <2>1. x \in Int /\ x # 0 /\ p[k] = x * x
    BY <1>2, <1>3, <1>4
  <2> HIDE DEF x
  <2>2. x * x > 0
    BY <2>1
  <2> QED
    BY <1>4, <2>1, <2>2
<1> QED
  BY <1>4, <1>5, <1>6, TotalPositive DEF p, xs

\* Where the samples lie on a line through the origin, so do the sums.
LEMMA SteadySums ==
  ASSUME NEW b \in Seq(SampleSet), NEW t \in Int, NEW h \in Int, NEW rate \in Int,
         \A i \in 1..Len(b) : b[i].host - h = rate * (b[i].ticks - t)
  PROVE  Total(Products(TicksFrom(b, t), HostsFrom(b, h)))
           = rate * Total(Products(TicksFrom(b, t), TicksFrom(b, t)))
<1> DEFINE xs == TicksFrom(b, t)
           ys == HostsFrom(b, h)
           xx == Products(xs, xs)
           xy == Products(xs, ys)
<1>1. /\ xs \in Seq(Int) /\ Len(xs) = Len(b) /\ ys \in Seq(Int) /\ Len(ys) = Len(b)
      /\ \A i \in 1..Len(b) : /\ xs[i] = b[i].ticks - t /\ ys[i] = b[i].host - h
                             /\ b[i].ticks \in Int /\ b[i].host \in Int
  BY FromOrigin
<1>2. \A i \in 1..Len(b) : xs[i] \in Int /\ ys[i] = rate * xs[i]
  <2> TAKE i \in 1..Len(b)
  <2> HIDE DEF xs, ys
  <2>1. xs[i] = b[i].ticks - t /\ ys[i] = b[i].host - h /\ b[i].ticks \in Int
    BY <1>1
  <2> QED
    BY <2>1
<1> HIDE DEF xs, ys
<1>3. /\ xx \in Seq(Int) /\ Len(xx) = Len(b) /\ xy \in Seq(Int) /\ Len(xy) = Len(b)
      /\ \A i \in 1..Len(b) : xx[i] = xs[i] * xs[i] /\ xy[i] = xs[i] * ys[i]
  BY <1>1, ProductsType
<1> HIDE DEF xx, xy
<1>4. \A i \in 1..Len(b) : xy[i] = rate * xx[i] + 0 * xx[i]
  <2> TAKE i \in 1..Len(b)
  <2> DEFINE x == xs[i]
  <2>1. x \in Int /\ xy[i] = x * (rate * x) /\ xx[i] = x * x
    BY <1>2, <1>3
  <2> HIDE DEF x
  <2>2. x * (rate * x) = rate * (x * x) + 0 * (x * x)
    BY <2>1
  <2> QED
    BY <2>1, <2>2
<1>5. Combines(xy, rate, xx, 0, xx)
  BY <1>3, <1>4 DEF Combines
<1>6. Total(xy) = rate * Total(xx) + 0 * Total(xx)
  BY <1>5, TotalLinear
<1>7. Total(xx) \in Int
  BY <1>3, TotalType
<1> QED
  BY <1>6, <1>7 DEF xx, xy, xs, ys

\* The samples in the rows, and in the rows with one more.
LEMMA SamplesType ==
  ASSUME NEW rs \in Seq(RowSet)
  PROVE  /\ SamplesOf(rs) \in Seq(SampleSet) /\ Len(SamplesOf(rs)) = Len(rs)
         /\ \A i \in 1..Len(rs) : /\ SamplesOf(rs)[i].ticks = rs[i].ticks
                                  /\ SamplesOf(rs)[i].host = rs[i].arrival
                                  /\ rs[i].ticks \in Int /\ rs[i].arrival \in Int
                                  /\ rs[i].block \in Nat \ {0}
<1>1. \A r \in RowSet : r.ticks \in Int /\ r.arrival \in Int /\ r.block \in Nat \ {0}
  BY DEF RowSet
<1>2. DOMAIN rs = 1..Len(rs) /\ Len(rs) \in Nat /\ \A i \in 1..Len(rs) : rs[i] \in RowSet
  OBVIOUS
<1>3. \A t \in Int, h \in Int : /\ Sample(t, h) \in SampleSet
                                /\ Sample(t, h).ticks = t /\ Sample(t, h).host = h
  BY DEF Sample, SampleSet
<1>4. \A i \in 1..Len(rs) : rs[i].ticks \in Int /\ rs[i].arrival \in Int /\ rs[i].block \in Nat \ {0}
  BY <1>1, <1>2
<1>5. SamplesOf(rs) = [i \in 1..Len(rs) |-> Sample(rs[i].ticks, rs[i].arrival)]
  BY <1>2 DEF SamplesOf
<1>6. \A i \in 1..Len(rs) : Sample(rs[i].ticks, rs[i].arrival) \in SampleSet
  BY <1>3, <1>4
<1>7. SamplesOf(rs) \in Seq(SampleSet) /\ Len(SamplesOf(rs)) = Len(rs)
  BY <1>2, <1>5, <1>6
<1>8. \A i \in 1..Len(rs) : SamplesOf(rs)[i] = Sample(rs[i].ticks, rs[i].arrival)
  BY <1>5
<1> QED
  BY <1>3, <1>4, <1>7, <1>8

LEMMA SamplesOfAppend ==
  ASSUME NEW rs \in Seq(RowSet), NEW r \in RowSet
  PROVE  /\ Append(rs, r) \in Seq(RowSet) /\ Sample(r.ticks, r.arrival) \in SampleSet
         /\ SamplesOf(Append(rs, r)) = Append(SamplesOf(rs), Sample(r.ticks, r.arrival))
<1> DEFINE s == Append(rs, r)
           e == Sample(r.ticks, r.arrival)
           p == SamplesOf(s)
           q == Append(SamplesOf(rs), e)
           n == Len(rs)
<1>1. /\ s \in Seq(RowSet) /\ Len(s) = n + 1 /\ s[n + 1] = r /\ n \in Nat
      /\ \A i \in 1..n : s[i] = rs[i]
  OBVIOUS
<1>2. e \in SampleSet
  <2>1. r.ticks \in Int /\ r.arrival \in Int
    BY DEF RowSet
  <2> QED
    BY <2>1 DEF Sample, SampleSet
<1>3. DOMAIN s = 1..n + 1 /\ DOMAIN rs = 1..n
  BY <1>1
<1>4. p = [i \in 1..n + 1 |-> Sample(s[i].ticks, s[i].arrival)]
  BY <1>3 DEF SamplesOf
<1>5. SamplesOf(rs) \in Seq(SampleSet) /\ Len(SamplesOf(rs)) = n
  BY SamplesType
<1>6. \A i \in 1..n : SamplesOf(rs)[i] = Sample(rs[i].ticks, rs[i].arrival)
  BY <1>3 DEF SamplesOf
<1>7. q \in Seq(SampleSet) /\ Len(q) = n + 1 /\ q[n + 1] = e
      /\ \A i \in 1..n : q[i] = Sample(rs[i].ticks, rs[i].arrival)
  <2> HIDE DEF e, n
  <2>1. \A i \in 1..n : q[i] = SamplesOf(rs)[i]
    BY <1>1, <1>2, <1>5
  <2> QED
    BY <1>1, <1>2, <1>5, <1>6, <2>1
<1>8. p \in Seq(SampleSet) /\ Len(p) = n + 1
  <2> HIDE DEF s
  <2> QED
    BY <1>1, SamplesType
<1>9. \A i \in 1..n + 1 : p[i] = q[i]
  <2> TAKE i \in 1..n + 1
  <2> HIDE DEF p, q, s, n
  <2>1. CASE i = n + 1
    BY <1>1, <1>4, <1>7, <2>1
  <2>2. CASE i \in 1..n
    BY <1>1, <1>4, <1>7, <2>2
  <2> QED
    BY <1>1, <2>1, <2>2
<1> HIDE DEF p, q, n
<1>10. p = q
  BY <1>1, <1>7, <1>8, <1>9
<1> QED
  BY <1>1, <1>2, <1>10 DEF p, q

-----------------------------------------------------------------------------
LEMMA IdsInOrder ==
  ASSUME NEW l \in Nat \ {0}, NEW b \in Nat \ {0}, l < b
  PROVE  /\ BlockId(b) \in Nat \ {0} /\ BlockId(b) - BlockId(l) <= b - l
         /\ b <= BlockModulus => BlockId(b) = b /\ BlockId(l) = l
<1> DEFINE M == BlockModulus
<1>1. M \in Nat \ {0}
  BY TimelineAssumption
<1> HIDE DEF M
<1> DEFINE r == (b - 1) % M
           s == (l - 1) % M
           q == (b - 1) \div M
           p == (l - 1) \div M
<1>2. /\ r \in 0..M - 1 /\ s \in 0..M - 1 /\ q \in Int /\ p \in Int
      /\ b - 1 = M * q + r /\ l - 1 = M * p + s
  BY <1>1
<1>3. b <= M => r = b - 1 /\ s = l - 1
  BY <1>1, Z3
<1>4. BlockId(b) = r + 1 /\ BlockId(l) = s + 1
  BY DEF BlockId, M
<1> HIDE DEF r, s, q, p
<1>5. r - s <= b - l
  <2>1. CASE q >= p
    <3>1. M * q >= M * p
      BY <1>1, <1>2, <2>1
    <3>2. M * q \in Int /\ M * p \in Int
      BY <1>1, <1>2
    <3> QED
      BY <1>1, <1>2, <3>1, <3>2
  <2>2. CASE q + 1 <= p
    <3>1. M * p >= M * q + M
      BY <1>1, <1>2, <2>2
    <3>2. M * q \in Int /\ M * p \in Int
      BY <1>1, <1>2
    <3> QED
      BY <1>1, <1>2, <3>1, <3>2
  <2> QED
    BY <1>2, <2>1, <2>2
<1> QED
  BY <1>2, <1>3, <1>4, <1>5 DEF M

\* What a grabbed frame adds to the rows and to the clock.
Grabbed(block, ticks, arrival, r) ==
  /\ block \in Nat \ {0} /\ block > sent /\ ticks = TickOf(block) /\ ticks \in Int /\ arrival \in Int
  /\ r = [block |-> block, ticks |-> ticks, arrival |-> arrival,
          latency |-> arrival - block * NsPerTick, exposure |-> HostNs(anchor, ticks, arrival)]
  /\ sent' = block /\ now' = arrival /\ rows' = Append(rows, r)
  /\ anchor' = Observe(anchor, ticks, arrival)
  /\ lastId' = BlockId(block) /\ dropped' = dropped + Drops(BlockId(block))
  /\ frozen' = frozen

LEMMA GrabIs ==
  ASSUME CameraType, frozen \in BOOLEAN, Grab
  PROVE  \E block, ticks, arrival, r : Grabbed(block, ticks, arrival, r)
<1>1. PICK gap \in Gaps, latency \in Latencies :
        LET block == sent + gap
            ticks == TickOf(block)
            arrival == Observed(block * NsPerTick, latency)
        IN /\ sent' = block /\ now' = arrival
           /\ lastId' = BlockId(block) /\ dropped' = dropped + Drops(BlockId(block))
           /\ anchor' = Observe(anchor, ticks, arrival)
           /\ rows' = Append(rows, [block |-> block, ticks |-> ticks, arrival |-> arrival,
                                    latency |-> arrival - block * NsPerTick,
                                    exposure |-> HostNs(anchor, ticks, arrival)])
  BY DEF Grab
<1> DEFINE block == sent + gap
           ticks == TickOf(block)
           arrival == Observed(block * NsPerTick, latency)
           r == [block |-> block, ticks |-> ticks, arrival |-> arrival,
                 latency |-> arrival - block * NsPerTick, exposure |-> HostNs(anchor, ticks, arrival)]
<1>2. gap \in Nat \ {0} /\ latency \in Nat /\ NsPerTick \in Nat /\ sent \in Nat /\ now \in Int
  BY TimelineAssumption DEF CameraType
<1>3. block \in Nat \ {0} /\ block > sent
  BY <1>2
<1>4. ticks \in Int /\ arrival \in Int
  <2> HIDE DEF block
  <2>1. block * NsPerTick + latency \in Int
    BY <1>2, <1>3
  <2> QED
    BY <1>2, <1>3, <2>1 DEF TickOf, Observed, Later
<1>5. frozen' = frozen
  BY DEF Grab
<1> HIDE DEF block, ticks, arrival
<1>6. Grabbed(block, ticks, arrival, r)
  BY <1>1, <1>3, <1>4, <1>5 DEF Grabbed, block, ticks, arrival
<1> QED
  BY <1>6

\* A frame keeps the types.
LEMMA GrabType ==
  ASSUME CameraType, ClockSaw,
         NEW block, NEW ticks, NEW arrival, NEW r, Grabbed(block, ticks, arrival, r)
  PROVE  /\ CameraType' /\ r \in RowSet
         /\ r.block = block /\ r.ticks = ticks /\ r.arrival = arrival
         /\ r.latency = arrival - block * NsPerTick /\ r.exposure = HostNs(anchor, ticks, arrival)
<1>1. /\ block \in Nat \ {0} /\ ticks \in Int /\ arrival \in Int /\ anchor \in Anchors
      /\ anchor' = Observe(anchor, ticks, arrival) /\ rows \in Seq(RowSet)
      /\ anchor.anchored \in BOOLEAN /\ NsPerTick \in Nat
  BY AnchorFields, TimelineAssumption DEF Grabbed, CameraType
<1>2. anchor' \in Anchors /\ HostNs(anchor, ticks, arrival) \in Int
  BY <1>1, ObserveType
<1>3. arrival - block * NsPerTick \in Int
  BY <1>1
<1>4. r \in RowSet /\ r.block = block /\ r.ticks = ticks /\ r.arrival = arrival
      /\ r.latency = arrival - block * NsPerTick /\ r.exposure = HostNs(anchor, ticks, arrival)
  BY <1>1, <1>2, <1>3 DEF Grabbed, RowSet
<1>5. rows' \in Seq(RowSet)
  BY <1>1, <1>4 DEF Grabbed
<1>6. BlockId(block) \in Nat
  BY <1>1, TimelineAssumption DEF BlockId
<1>7. Drops(BlockId(block)) \in Nat
  BY <1>6 DEF Drops, CameraType
<1>8. now' \in Int /\ sent' \in Nat /\ lastId' \in Nat /\ dropped' \in Nat
  BY <1>1, <1>6, <1>7 DEF Grabbed, CameraType
<1> QED
  BY <1>2, <1>1, <1>4, <1>5, <1>8 DEF CameraType

\* The rows with one more.
LEMMA RowsGrow ==
  ASSUME NEW rs \in Seq(RowSet), NEW r \in RowSet
  PROVE  LET s == Append(rs, r)
         IN /\ s \in Seq(RowSet) /\ Len(s) = Len(rs) + 1 /\ s[Len(rs) + 1] = r /\ Len(rs) \in Nat
            /\ \A i \in 1..Len(rs) : s[i] = rs[i]
            /\ \A i \in 1..Len(s) : i \in 1..Len(rs) \/ i = Len(rs) + 1
OBVIOUS

\* A frame is of a later block than those before it.
LEMMA GrabOrder ==
  ASSUME CameraType, RowsInOrder,
         NEW block, NEW ticks, NEW arrival, NEW r \in RowSet, Grabbed(block, ticks, arrival, r),
         r.block = block, r.ticks = ticks, r.latency = arrival - block * NsPerTick, r.arrival = arrival
  PROVE  RowsInOrder'
<1> DEFINE n == Len(rows)
<1>1. /\ rows \in Seq(RowSet) /\ rows' = Append(rows, r) /\ sent \in Nat /\ sent' = block
      /\ block > sent
      /\ block \in Nat /\ frozen' = frozen /\ ticks = TickOf(block)
  BY DEF Grabbed, CameraType
<1>2. /\ Len(rows') = n + 1 /\ rows'[n + 1] = r /\ n \in Nat
      /\ \A i \in 1..n : rows'[i] = rows[i]
      /\ \A i \in 1..Len(rows') : i \in 1..n \/ i = n + 1
  BY <1>1, RowsGrow
<1>3. \A i \in 1..n : rows[i].block \in Nat
  BY <1>1, SamplesType
<1> SUFFICES ASSUME NEW i \in 1..Len(rows')
             PROVE  /\ rows'[i].block <= sent' /\ rows'[i].ticks = TickOf(rows'[i].block)
                    /\ rows'[i].latency = rows'[i].arrival - rows'[i].block * NsPerTick
                    /\ \A j \in 1..Len(rows') : j < i => rows'[j].block < rows'[i].block
  BY <1>1 DEF RowsInOrder, TickOf
<1> HIDE DEF n
<1>4. CASE i \in 1..n
  <2>1. /\ rows[i].block <= sent /\ rows[i].ticks = TickOf(rows[i].block)
        /\ rows[i].latency = rows[i].arrival - rows[i].block * NsPerTick
        /\ \A j \in 1..n : j < i => rows[j].block < rows[i].block
    BY <1>4 DEF RowsInOrder, n
  <2>2. \A j \in 1..Len(rows') : j < i => j \in 1..n
    BY <1>2, <1>4
  <2>3. rows[i].block <= sent'
    BY <1>1, <1>3, <1>4, <2>1
  <2>4. \A j \in 1..Len(rows') : j < i => rows'[j] = rows[j]
    BY <1>2, <2>2
  <2>5. rows'[i] = rows[i]
    BY <1>2, <1>4
  <2>6. \A j \in 1..Len(rows') : j < i => rows'[j].block < rows'[i].block
    BY <2>1, <2>2, <2>4, <2>5
  <2>7. rows'[i].ticks = TickOf(rows'[i].block)
    BY <2>1, <2>5
  <2> QED
    BY <2>1, <2>3, <2>5, <2>6, <2>7
<1>5. CASE i = n + 1
  <2>1. \A j \in 1..n : rows[j].block <= sent
    BY DEF RowsInOrder, n
  <2>2. \A j \in 1..Len(rows') : j < i => j \in 1..n
    BY <1>2, <1>5
  <2>3. \A j \in 1..n : rows[j].block < block
    BY <1>1, <1>3, <2>1
  <2>4. \A j \in 1..Len(rows') : j < i => rows'[j] = rows[j]
    BY <1>2, <2>2
  <2>5. rows'[i] = r
    BY <1>2, <1>5
  <2>6. \A j \in 1..Len(rows') : j < i => rows'[j].block < rows'[i].block
    BY <2>2, <2>3, <2>4, <2>5
  <2>7. rows'[i].ticks = TickOf(rows'[i].block)
    BY <1>1, <2>5
  <2> QED
    BY <1>1, <2>5, <2>6, <2>7
<1> QED
  BY <1>2, <1>4, <1>5

\* The clock is told of exactly what is in the rows.
LEMMA GrabSaw ==
  ASSUME CameraType, RowsInOrder, RowsInOrder', ClockSaw, frozen \in BOOLEAN,
         NEW block, NEW ticks, NEW arrival, NEW r \in RowSet, Grabbed(block, ticks, arrival, r),
         r.ticks = ticks, r.arrival = arrival
  PROVE  ClockSaw'
<1> DEFINE n == Len(rows)
           s == SamplesOf(rows)
           e == Sample(ticks, arrival)
           w == anchor.warmup
           t == rows'[1].ticks
           xs(h) == TicksFrom(SamplesOf(rows'), h)
           ys(h) == HostsFrom(SamplesOf(rows'), h)
<1>1. /\ rows \in Seq(RowSet) /\ rows' = Append(rows, r) /\ anchor \in Anchors /\ frozen' = frozen
      /\ anchor' = Observe(anchor, ticks, arrival) /\ ticks \in Int /\ arrival \in Int
  BY DEF Grabbed, CameraType
<1>2. /\ rows' \in Seq(RowSet) /\ Len(rows') = n + 1 /\ rows'[n + 1] = r /\ n \in Nat
      /\ \A i \in 1..n : rows'[i] = rows[i]
  BY <1>1, RowsGrow
<1>3. /\ s \in Seq(SampleSet) /\ Len(s) = n /\ SamplesOf(rows') = Append(s, e) /\ e \in SampleSet
      /\ e.ticks = ticks /\ e.host = arrival
  <2>1. e.ticks = ticks /\ e.host = arrival
    BY DEF Sample
  <2> QED
    BY <1>1, <2>1, SamplesType, SamplesOfAppend
<1>4. w \in Nat \ {0, 1} /\ anchor.anchored \in BOOLEAN /\ anchor.nominal = Nominal
  BY <1>1, AnchorFields DEF ClockSaw
<1>5. 1 \in 1..n + 1 /\ SamplesOf(rows')[1].ticks = t /\ t \in Int /\ n + 1 >= 1
  BY <1>2, SamplesType
<1>6. SUFFICES
        /\ anchor'.nominal = Nominal
        /\ ~anchor'.anchored => Len(rows') < anchor'.warmup /\ anchor'.buffer = SamplesOf(rows')
        /\ anchor'.anchored =>
             /\ Len(rows') >= anchor'.warmup /\ anchor'.ticks0 = t
             /\ anchor'.xx = Total(Products(xs(t), xs(t)))
             /\ anchor'.xy = Total(Products(xs(t), ys(anchor'.host0)))
             /\ ~frozen /\ Len(rows') > anchor'.warmup => anchor'.rate = <<anchor'.xy, anchor'.xx>>
  BY <1>1 DEF ClockSaw, Samples
<1>7. CASE ~anchor.anchored
  <2>1. n < w /\ anchor.buffer = s
    BY <1>7 DEF ClockSaw, Samples
  <2>2. CASE n + 1 < w
    <3>1. Len(anchor.buffer) + 1 < anchor.warmup
      BY <1>3, <2>1, <2>2
    <3>2. /\ anchor'.nominal = anchor.nominal /\ anchor'.warmup = w /\ ~anchor'.anchored
          /\ anchor'.buffer = Append(anchor.buffer, Sample(ticks, arrival))
      BY <1>1, <1>7, <3>1, ObserveKeeps
    <3> QED
      BY <1>2, <1>3, <1>4, <2>1, <2>2, <3>2
  <2>3. CASE n + 1 >= w
    <3>1. Len(anchor.buffer) + 1 >= anchor.warmup
      BY <1>3, <2>1, <2>3
    <3>2. LET o == Observe(anchor, ticks, arrival)
              b == Append(anchor.buffer, Sample(ticks, arrival))
          IN /\ o.nominal = anchor.nominal /\ o.warmup = w /\ o.anchored
             /\ o.ticks0 = b[1].ticks
             /\ o.xx = Total(Products(TicksFrom(b, b[1].ticks), TicksFrom(b, b[1].ticks)))
             /\ o.xy = Total(Products(TicksFrom(b, b[1].ticks), HostsFrom(b, o.host0)))
      BY <1>1, <1>7, <3>1, ObserveFinishes
    <3>3. Append(anchor.buffer, Sample(ticks, arrival)) = SamplesOf(rows')
      BY <1>3, <2>1
    <3> HIDE DEF s, e, n
    <3>4. /\ anchor'.nominal = anchor.nominal /\ anchor'.warmup = w /\ anchor'.anchored
          /\ anchor'.ticks0 = t
          /\ anchor'.xx = Total(Products(xs(t), xs(t)))
          /\ anchor'.xy = Total(Products(xs(t), ys(anchor'.host0)))
      BY <1>1, <1>5, <3>2, <3>3
    <3>5. Len(rows') >= anchor'.warmup /\ ~(Len(rows') > anchor'.warmup)
      BY <1>2, <1>4, <2>1, <2>3, <3>4
    <3> QED
      BY <1>4, <3>4, <3>5
  <2> QED
    BY <1>2, <1>4, <2>2, <2>3
<1>8. CASE anchor.anchored
  <2> DEFINE h == anchor.host0
             x == ticks - anchor.ticks0
             y == arrival - h
  <2>1. /\ n >= w /\ anchor.ticks0 = rows[1].ticks
        /\ anchor.xx = Total(Products(TicksFrom(s, rows[1].ticks), TicksFrom(s, rows[1].ticks)))
        /\ anchor.xy = Total(Products(TicksFrom(s, rows[1].ticks), HostsFrom(s, h)))
    BY <1>8 DEF ClockSaw, Samples
  <2>2. 1 \in 1..n /\ rows[1].ticks = t /\ h \in Int
    BY <1>1, <1>2, <1>4, <2>1, AnchorFields
  <2>3. /\ anchor'.nominal = anchor.nominal /\ anchor'.warmup = w /\ anchor'.anchored
        /\ anchor'.ticks0 = anchor.ticks0 /\ anchor'.host0 = h
        /\ anchor'.xx = anchor.xx + x * x /\ anchor'.xy = anchor.xy + x * (arrival - h)
        /\ anchor'.rate = IF anchor'.xx > 0 THEN <<anchor'.xy, anchor'.xx>> ELSE anchor.rate
    <3>1. Refines(anchor, ticks, arrival, anchor')
      BY <1>1, <1>8, ObserveRefines
    <3> QED
      BY <3>1 DEF Refines
  <2>4. /\ Total(Products(xs(t), xs(t)))
             = Total(Products(TicksFrom(s, t), TicksFrom(s, t))) + (e.ticks - t) * (e.ticks - t)
        /\ Total(Products(xs(t), ys(h)))
             = Total(Products(TicksFrom(s, t), HostsFrom(s, h))) + (e.ticks - t) * (e.host - h)
    <3> HIDE DEF s, e, t, h
    <3>1. LET z == Append(s, e)
          IN /\ Total(Products(TicksFrom(z, t), TicksFrom(z, t)))
                  = Total(Products(TicksFrom(s, t), TicksFrom(s, t))) + (e.ticks - t) * (e.ticks - t)
             /\ Total(Products(TicksFrom(z, t), HostsFrom(z, h)))
                  = Total(Products(TicksFrom(s, t), HostsFrom(s, h))) + (e.ticks - t) * (e.host - h)
      BY <1>3, <1>5, <2>2, FitAppend
    <3> QED
      BY <1>3, <3>1
  <2>5. /\ anchor'.xx = Total(Products(xs(t), xs(t)))
        /\ anchor'.xy = Total(Products(xs(t), ys(anchor'.host0)))
    <3> HIDE DEF s, e
    <3> QED
      BY <1>3, <2>1, <2>2, <2>3, <2>4
  <2>6. ~frozen => anchor'.xx > 0
    <3> SUFFICES ASSUME ~frozen PROVE anchor'.xx > 0
      OBVIOUS
    <3>1. n + 1 \in 1..Len(rows') /\ 1 \in 1..Len(rows') /\ 1 < n + 1
      BY <1>2, <2>2
    <3>2. rows'[1].block < rows'[n + 1].block
      BY <3>1 DEF RowsInOrder
    <3>3. rows'[1].ticks = rows'[1].block /\ rows'[n + 1].ticks = rows'[n + 1].block
      BY <1>1, <3>1 DEF RowsInOrder, TickOf
    <3>4. rows'[1].block \in Nat /\ rows'[n + 1].block \in Nat
      BY <1>2, <3>1, SamplesType
    <3>5. SamplesOf(rows') \in Seq(SampleSet) /\ n + 1 \in 1..Len(SamplesOf(rows'))
          /\ SamplesOf(rows')[n + 1].ticks = rows'[n + 1].ticks
      BY <1>2, <3>1, SamplesType
    <3>6. SamplesOf(rows')[n + 1].ticks # t
      BY <3>2, <3>3, <3>4, <3>5
    <3>7. Total(Products(xs(t), xs(t))) > 0
      <4> DEFINE z == SamplesOf(rows')
                 k == n + 1
      <4>1. z \in Seq(SampleSet) /\ k \in 1..Len(z) /\ z[k].ticks # t
        BY <3>5, <3>6
      <4> HIDE DEF z, k, t
      <4>2. Total(Products(TicksFrom(z, t), TicksFrom(z, t))) > 0
        BY <1>5, <4>1, SquaresPositive
      <4> QED
        BY <4>2 DEF z
    <3> QED
      BY <2>5, <3>7
  <2> QED
    BY <1>2, <1>4, <2>1, <2>2, <2>3, <2>5, <2>6
<1> QED
  BY <1>4, <1>7, <1>8

\* Rows whose arrivals lie on the line of the true rate through the first of them.
OnTheLine(rs) ==
  \A i \in 1..Len(rs) :
    /\ i >= 2 => rs[i].ticks > rs[1].ticks
    /\ rs[i].arrival - rs[1].arrival = NsPerTick * (rs[i].ticks - rs[1].ticks)

LEMMA SteadyIsALine ==
  ASSUME NEW rs \in Seq(RowSet), Len(rs) >= 1,
         \A i \in 1..Len(rs) :
           /\ rs[i].ticks = rs[i].block
           /\ rs[i].latency = rs[i].arrival - rs[i].block * NsPerTick
           /\ \A j \in 1..Len(rs) : j < i => rs[j].block < rs[i].block
           /\ rs[i].latency = rs[1].latency
  PROVE  OnTheLine(rs)
<1>1. 1 \in 1..Len(rs) /\ NsPerTick \in Nat
  BY TimelineAssumption
<1>2. SUFFICES ASSUME NEW i \in 1..Len(rs)
               PROVE  /\ i >= 2 => rs[i].ticks > rs[1].ticks
                      /\ rs[i].arrival - rs[1].arrival = NsPerTick * (rs[i].ticks - rs[1].ticks)
  BY DEF OnTheLine
<1> DEFINE bi == rs[i].block
           b1 == rs[1].block
           ai == rs[i].arrival
           a1 == rs[1].arrival
<1>3. bi \in Nat /\ b1 \in Nat /\ ai \in Int /\ a1 \in Int
  BY <1>1, SamplesType
<1>4. rs[i].ticks = bi /\ rs[1].ticks = b1 /\ ai - bi * NsPerTick = a1 - b1 * NsPerTick
  BY <1>1
<1>5. i >= 2 => b1 < bi
  BY <1>1
<1> HIDE DEF bi, b1, ai, a1
<1>6. ai - a1 = NsPerTick * (bi - b1)
  BY <1>1, <1>3, <1>4
<1> QED
  BY <1>4, <1>5, <1>6, <1>3 DEF ai, a1

\* On that line the fit of the warm-up finds it.
LEMMA LineIsFound ==
  ASSUME NEW rs \in Seq(RowSet), Len(rs) >= 2, OnTheLine(rs), NEW nominal \in Int
  PROVE  LET line == FittedLine(SamplesOf(rs), nominal)
         IN /\ \E m \in Nat \ {0} : line.slope = <<NsPerTick * m, m>>
            /\ RoundHalfEven(line.intercept) = rs[1].arrival
<1> DEFINE b == SamplesOf(rs)
<1>1. /\ b \in Seq(SampleSet) /\ Len(b) = Len(rs) /\ Len(rs) \in Nat /\ 1 \in 1..Len(rs)
      /\ \A i \in 1..Len(rs) : /\ b[i].ticks = rs[i].ticks /\ b[i].host = rs[i].arrival
                               /\ rs[i].ticks \in Int /\ rs[i].arrival \in Int
  BY SamplesType
<1> HIDE DEF b
<1>2. NsPerTick \in Int
  BY TimelineAssumption
<1>3. \A i \in 2..Len(b) : b[i].ticks > b[1].ticks
  BY <1>1 DEF OnTheLine
<1>4. \A i \in 1..Len(b) : b[i].host = NsPerTick * (b[i].ticks - b[1].ticks) + b[1].host
  <2> TAKE i \in 1..Len(b)
  <2> DEFINE y == rs[i].arrival
             y1 == rs[1].arrival
             d == NsPerTick * (rs[i].ticks - rs[1].ticks)
  <2>1. y - y1 = d /\ y \in Int /\ y1 \in Int /\ b[i].host = y /\ b[1].host = y1
        /\ NsPerTick * (b[i].ticks - b[1].ticks) = d
    BY <1>1 DEF OnTheLine
  <2>2. d \in Int
    <3>1. rs[i].ticks - rs[1].ticks \in Int
      BY <1>1
    <3> QED
      BY <1>2, <3>1
  <2> HIDE DEF y, y1, d
  <2> QED
    BY <2>1, <2>2
<1>5. LET line == FittedLine(b, nominal)
      IN /\ \E m \in Nat \ {0} : line.slope = <<NsPerTick * m, m>>
         /\ RoundHalfEven(line.intercept) = b[1].host
  BY <1>1, <1>2, <1>3, <1>4, FitSteady
<1> QED
  BY <1>1, <1>5 DEF b

\* And so do the sums of the lasting fit.
LEMMA LineSums ==
  ASSUME NEW rs \in Seq(RowSet), OnTheLine(rs), Len(rs) >= 1
  PROVE  LET xs == TicksFrom(SamplesOf(rs), rs[1].ticks)
             ys == HostsFrom(SamplesOf(rs), rs[1].arrival)
         IN Total(Products(xs, ys)) = NsPerTick * Total(Products(xs, xs))
<1> DEFINE b == SamplesOf(rs)
           t == rs[1].ticks
           h == rs[1].arrival
<1>1. /\ b \in Seq(SampleSet) /\ Len(b) = Len(rs) /\ t \in Int /\ h \in Int /\ NsPerTick \in Int
      /\ \A i \in 1..Len(rs) : b[i].ticks = rs[i].ticks /\ b[i].host = rs[i].arrival
  BY SamplesType, TimelineAssumption
<1>2. \A i \in 1..Len(b) : b[i].host - h = NsPerTick * (b[i].ticks - t)
  BY <1>1 DEF OnTheLine
<1> HIDE DEF b, t, h
<1>3. Total(Products(TicksFrom(b, t), HostsFrom(b, h)))
        = NsPerTick * Total(Products(TicksFrom(b, t), TicksFrom(b, t)))
  BY <1>1, <1>2, SteadySums
<1> QED
  BY <1>3 DEF b, t, h

\* A clock that sees a line keeps to it.
LEMMA GrabTrue ==
  ASSUME CameraType, CameraType', RowsInOrder', ClockSaw, ClockSaw', ClockIsTrue, frozen \in BOOLEAN,
         NEW block, NEW ticks, NEW arrival, NEW r \in RowSet, Grabbed(block, ticks, arrival, r),
         r.ticks = ticks, r.arrival = arrival, r.exposure = HostNs(anchor, ticks, arrival)
  PROVE  ClockIsTrue'
<1> DEFINE n == Len(rows)
           m == Len(rows')
           w == anchor.warmup
           a1 == rows'[1].arrival
<1>1. /\ rows \in Seq(RowSet) /\ rows' = Append(rows, r) /\ anchor \in Anchors /\ frozen' = frozen
      /\ anchor' = Observe(anchor, ticks, arrival) /\ ticks \in Int /\ arrival \in Int
      /\ anchor' \in Anchors
  BY DEF Grabbed, CameraType
<1>2. /\ rows' \in Seq(RowSet) /\ m = n + 1 /\ rows'[n + 1] = r /\ n \in Nat
      /\ \A i \in 1..n : rows'[i] = rows[i]
      /\ \A i \in 1..m : i \in 1..n \/ i = n + 1
  BY <1>1, RowsGrow
<1>3. w \in Nat \ {0, 1} /\ anchor.anchored \in BOOLEAN /\ anchor.nominal \in Int
  BY <1>1, AnchorFields
<1> HIDE DEF n, m
<1>4. SUFFICES ASSUME ~frozen, Steady'
               PROVE  /\ \A i \in 1..m : rows'[i].exposure = rows'[i].arrival
                      /\ anchor'.anchored => /\ anchor'.host0 = a1
                                             /\ anchor'.rate[1] = NsPerTick * anchor'.rate[2]
  BY <1>1 DEF ClockIsTrue, m
<1>5. \A i \in 1..m : rows'[i].latency = rows'[1].latency
  BY <1>4 DEF Steady, m
<1>6. OnTheLine(rows')
  <2>1. \A i \in 1..m :
          /\ rows'[i].ticks = rows'[i].block
          /\ rows'[i].latency = rows'[i].arrival - rows'[i].block * NsPerTick
          /\ \A j \in 1..m : j < i => rows'[j].block < rows'[i].block
    BY <1>1, <1>4 DEF RowsInOrder, TickOf, m
  <2>2. m >= 1
    BY <1>2
  <2> QED
    BY <1>2, <1>5, <2>1, <2>2, SteadyIsALine DEF m
<1>7. /\ \A i \in 1..n : rows[i].exposure = rows[i].arrival
      /\ anchor.anchored => anchor.host0 = rows[1].arrival
  <2>1. \A i \in 1..n : i \in 1..m /\ 1 \in 1..n /\ rows'[i] = rows[i] /\ rows'[1] = rows[1]
    BY <1>2
  <2>2. Steady
    BY <1>5, <2>1 DEF Steady, n
  <2> QED
    BY <1>4, <2>2 DEF ClockIsTrue, n
<1>8. anchor'.anchored => anchor'.host0 = a1 /\ anchor'.rate[1] = NsPerTick * anchor'.rate[2]
  <2>1. CASE ~anchor.anchored
    <3>1. n < w /\ anchor.buffer = SamplesOf(rows) /\ Len(anchor.buffer) = n
      BY <1>1, <2>1, SamplesType DEF ClockSaw, Samples, n
    <3>2. CASE n + 1 < w
      BY <1>1, <2>1, <3>1, <3>2, ObserveKeeps
    <3>3. CASE n + 1 >= w
      <4>1. Append(anchor.buffer, Sample(ticks, arrival)) = SamplesOf(rows')
        BY <1>1, <3>1, SamplesOfAppend
      <4>2. LET o == Observe(anchor, ticks, arrival)
                b == Append(anchor.buffer, Sample(ticks, arrival))
                line == FittedLine(b, anchor.nominal)
            IN o.host0 = RoundHalfEven(line.intercept) /\ o.rate = line.slope
        BY <1>1, <2>1, <3>1, <3>3, ObserveFinishes
      <4>3. LET line == FittedLine(SamplesOf(rows'), anchor.nominal)
            IN anchor'.host0 = RoundHalfEven(line.intercept) /\ anchor'.rate = line.slope
        BY <1>1, <4>1, <4>2
      <4>4. m >= 2
        BY <1>2, <1>3, <3>3
      <4>5. LET line == FittedLine(SamplesOf(rows'), anchor.nominal)
            IN /\ \E k \in Nat \ {0} : line.slope = <<NsPerTick * k, k>>
               /\ RoundHalfEven(line.intercept) = rows'[1].arrival
        BY <1>2, <1>3, <1>6, <4>4, LineIsFound DEF m
      <4> QED
        BY <4>3, <4>5
    <3> QED
      BY <1>2, <1>3, <3>2, <3>3
  <2>2. CASE anchor.anchored
    <3>1. n >= w /\ 1 \in 1..n
      <4>1. n >= w
        BY <2>2 DEF ClockSaw, n
      <4> QED
        BY <1>2, <1>3, <4>1
    <3>2. Refines(anchor, ticks, arrival, anchor')
      BY <1>1, <2>2, ObserveRefines
    <3>3. anchor'.anchored /\ anchor'.host0 = anchor.host0 /\ anchor'.warmup = w
      BY <3>2 DEF Refines
    <3>4. anchor'.host0 = a1
      BY <1>2, <1>7, <2>2, <3>1, <3>3
    <3>5. m > anchor'.warmup
      BY <1>2, <1>3, <3>1, <3>3
    <3>6. /\ anchor'.rate = <<anchor'.xy, anchor'.xx>>
          /\ anchor'.xx = Total(Products(TicksFrom(SamplesOf(rows'), rows'[1].ticks),
                                         TicksFrom(SamplesOf(rows'), rows'[1].ticks)))
          /\ anchor'.xy = Total(Products(TicksFrom(SamplesOf(rows'), rows'[1].ticks),
                                         HostsFrom(SamplesOf(rows'), a1)))
      BY <1>1, <1>4, <3>3, <3>4, <3>5 DEF ClockSaw, Samples, m
    <3>7. anchor'.xy = NsPerTick * anchor'.xx
      <4>1. m >= 1
        BY <1>2
      <4>2. LET xs == TicksFrom(SamplesOf(rows'), rows'[1].ticks)
                ys == HostsFrom(SamplesOf(rows'), rows'[1].arrival)
            IN Total(Products(xs, ys)) = NsPerTick * Total(Products(xs, xs))
        BY <1>2, <1>6, <4>1, LineSums DEF m
      <4> QED
        BY <3>6, <4>2
    <3> QED
      BY <3>4, <3>6, <3>7
  <2> QED
    BY <1>3, <2>1, <2>2
<1>9. r.exposure = arrival
  <2>1. CASE ~anchor.anchored
    BY <2>1 DEF HostNs
  <2>2. CASE anchor.anchored
    <3> DEFINE x == ticks - anchor.ticks0
               k == anchor'.rate[2]
               d == NsPerTick * x
    <3>1. Refines(anchor, ticks, arrival, anchor')
      BY <1>1, <2>2, ObserveRefines
    <3>2. anchor'.anchored /\ anchor'.host0 = anchor.host0 /\ anchor.host0 \in Int
          /\ r.exposure = anchor.host0 + Truncate(<<x * anchor'.rate[1], k>>)
      BY <1>1, <3>1, AnchorFields DEF Refines
    <3>3. x \in Int /\ k \in Nat \ {0} /\ NsPerTick \in Int
      BY <1>1, AnchorFields, TimelineAssumption
    <3>4. anchor'.rate[1] = NsPerTick * k /\ a1 = anchor.host0
      BY <1>8, <3>2
    <3>5. arrival - a1 = d
      <4>1. n \in 1..n /\ 1 \in 1..n
        <5>1. n >= w
          BY <2>2 DEF ClockSaw, n
        <5> QED
          BY <1>2, <1>3, <5>1
      <4>2. n + 1 \in 1..Len(rows')
        BY <1>2 DEF m
      <4>3. rows'[n + 1].arrival - rows'[1].arrival
              = NsPerTick * (rows'[n + 1].ticks - rows'[1].ticks)
        BY <1>6, <4>2 DEF OnTheLine
      <4>4. anchor.ticks0 = rows[1].ticks /\ rows[1] = rows'[1]
        BY <1>2, <2>2, <4>1 DEF ClockSaw
      <4> QED
        BY <1>2, <4>3, <4>4
    <3>6. d \in Int /\ arrival = anchor.host0 + d
      <4>1. d \in Int
        BY <3>3
      <4> HIDE DEF d
      <4> QED
        BY <1>1, <3>2, <3>4, <3>5, <4>1
    <3>7. x * anchor'.rate[1] = d * k
      <4> HIDE DEF x, k
      <4>1. x * (NsPerTick * k) = (NsPerTick * x) * k
        BY <3>3
      <4> QED
        BY <3>4, <4>1
    <3> HIDE DEF d, k
    <3>8. Truncate(<<d * k, k>>) = d
      BY <3>3, <3>6, TruncateExact
    <3> QED
      BY <3>2, <3>6, <3>7, <3>8
  <2> QED
    BY <1>3, <2>1, <2>2
<1>10. \A i \in 1..m : rows'[i].exposure = rows'[i].arrival
  <2> TAKE i \in 1..m
  <2>1. CASE i \in 1..n
    BY <1>2, <1>7, <2>1
  <2>2. CASE i = n + 1
    BY <1>2, <1>9, <2>2
  <2> QED
    BY <1>2, <2>1, <2>2
<1> QED
  BY <1>8, <1>10

\* A frame counts the blocks passed over, as far as the IDs tell.
LEMMA GrabAccounted ==
  ASSUME CameraType, RowsInOrder, Accounted,
         NEW block, NEW ticks, NEW arrival, NEW r \in RowSet, Grabbed(block, ticks, arrival, r),
         r.block = block
  PROVE  Accounted'
<1> DEFINE n == Len(rows)
           l == rows[n].block
           f == rows'[1].block
           id == BlockId(block)
<1>1. /\ rows \in Seq(RowSet) /\ rows' = Append(rows, r) /\ sent \in Nat /\ block > sent
      /\ block \in Nat \ {0} /\ lastId' = id /\ dropped' = dropped + Drops(id)
      /\ lastId \in Nat /\ dropped \in Nat
  BY DEF Grabbed, CameraType
<1>2. /\ rows' \in Seq(RowSet) /\ Len(rows') = n + 1 /\ rows'[n + 1] = r /\ n \in Nat
      /\ \A i \in 1..n : rows'[i] = rows[i]
  BY <1>1, RowsGrow
<1>3. rows' # << >>
  BY <1>2
<1> HIDE DEF n
<1>4. SUFFICES /\ n + 1 + dropped' <= block - f + 1
               /\ block <= BlockModulus => n + 1 + dropped' = block - f + 1
  BY <1>1, <1>2, <1>3 DEF Accounted
<1>5. CASE n = 0
  <2>1. rows = << >>
    BY <1>1, <1>5 DEF n
  <2>2. lastId = 0 /\ dropped = 0 /\ Drops(id) = 0
    BY <2>1 DEF Accounted, Drops
  <2>3. f = block
    BY <1>2, <1>5
  <2> QED
    BY <1>1, <1>5, <2>2, <2>3
<1>6. CASE n >= 1
  <2>1. n \in 1..n /\ 1 \in 1..n /\ rows # << >> /\ rows'[1] = rows[1]
    BY <1>2, <1>6 DEF n
  <2>2. l \in Nat \ {0} /\ f \in Nat \ {0} /\ l <= sent
    BY <1>1, <2>1, SamplesType DEF RowsInOrder, n
  <2>3. /\ lastId = BlockId(l) /\ n + dropped <= l - f + 1
        /\ l <= BlockModulus => n + dropped = l - f + 1
    BY <2>1 DEF Accounted, n
  <2> HIDE DEF l, f
  <2>4. l < block
    BY <1>1, <2>2
  <2>5. /\ id \in Nat \ {0} /\ id - BlockId(l) <= block - l
        /\ block <= BlockModulus => id = block /\ BlockId(l) = l
    BY <1>1, <2>2, <2>4, IdsInOrder
  <2> HIDE DEF id
  <2>6. Drops(id) = IF lastId # 0 /\ id > lastId + 1 THEN id - lastId - 1 ELSE 0
    BY DEF Drops
  <2>7. n + 1 + dropped' <= block - f + 1
    <3>1. CASE lastId # 0 /\ id > lastId + 1
      <4>1. Drops(id) = id - lastId - 1
        BY <2>6, <3>1
      <4> QED
        BY <1>1, <1>2, <2>2, <2>3, <2>4, <2>5, <4>1, SMTT(30)
    <3>2. CASE ~(lastId # 0 /\ id > lastId + 1)
      <4>1. Drops(id) = 0
        BY <2>6, <3>2
      <4> QED
        BY <1>1, <1>2, <2>2, <2>3, <2>4, <4>1
    <3> QED
      BY <3>1, <3>2
  <2>8. ASSUME block <= BlockModulus PROVE n + 1 + dropped' = block - f + 1
    <3>1. BlockModulus \in Nat
      BY TimelineAssumption
    <3>2. id = block /\ lastId = l /\ n + dropped = l - f + 1
      BY <1>1, <2>2, <2>3, <2>4, <2>5, <2>8, <3>1
    <3>3. Drops(id) = block - l - 1
      BY <1>1, <2>2, <2>4, <2>6, <3>2
    <3>4. dropped' = dropped + (block - l - 1) /\ dropped \in Nat /\ block \in Nat
      BY <1>1, <3>3
    <3> QED
      BY <1>2, <2>2, <3>2, <3>4
  <2> QED
    BY <2>7, <2>8
<1> QED
  BY <1>2, <1>5, <1>6

\* CameraInv holds at first, and every step of Next keeps it.
LEMMA CameraInit == Init => CameraInv
<1> SUFFICES ASSUME Init PROVE CameraInv
  OBVIOUS
<1>1. /\ kind \in {"rgb", "event"} /\ frozen \in BOOLEAN /\ rows = << >> /\ sent = 0 /\ lastId = 0
      /\ dropped = 0 /\ now = 0 /\ anchor = NewAnchor(IF kind = "rgb" THEN Nominal ELSE NsPerUs, Warmup)
  BY TimelineAssumption DEF Init, TimelineInit
<1>2. SUFFICES ASSUME kind = "rgb"
               PROVE  CameraType /\ RowsInOrder /\ ClockSaw /\ ClockIsTrue /\ Accounted
  BY <1>1 DEF CameraInv
<1>3. Nominal \in Nat \ {0} /\ Warmup \in Nat
  BY TimelineAssumption
<1>4. /\ anchor.nominal = Nominal /\ anchor.buffer = << >> /\ anchor.anchored = FALSE
      /\ anchor.warmup \in Nat \ {0, 1}
  BY <1>1, <1>2, <1>3 DEF NewAnchor
<1>5. anchor \in Anchors
  <2> DEFINE w == IF Warmup > 2 THEN Warmup ELSE 2
  <2>1. w \in Nat \ {0, 1} /\ Nominal \in Int /\ <<Nominal, 1>> \in Int \X (Nat \ {0})
    BY <1>3
  <2>2. anchor = [nominal |-> Nominal, warmup |-> w, buffer |-> << >>, anchored |-> FALSE,
                  ticks0 |-> 0, host0 |-> 0, rate |-> <<Nominal, 1>>, xx |-> 0, xy |-> 0]
    BY <1>1, <1>2 DEF NewAnchor
  <2>3. << >> \in Seq(SampleSet)
    OBVIOUS
  <2> HIDE DEF w
  <2> QED
    BY <2>1, <2>2, <2>3 DEF Anchors
<1>6. << >> \in Seq(RowSet) /\ Len(rows) = 0 /\ 1..0 = {}
  BY <1>1
<1>7. Samples = << >>
  <2>1. Samples \in Seq(SampleSet) /\ Len(Samples) = 0
    BY <1>1, <1>6, SamplesType DEF Samples
  <2> QED
    BY <2>1
<1>8. CameraType
  BY <1>1, <1>5, <1>6 DEF CameraType
<1>9. ClockSaw
  BY <1>4, <1>6, <1>7 DEF ClockSaw
<1>10. RowsInOrder /\ ClockIsTrue /\ Accounted
  BY <1>1, <1>4, <1>6 DEF RowsInOrder, ClockIsTrue, Accounted
<1> QED
  BY <1>8, <1>9, <1>10

LEMMA CameraStep == CameraInv /\ [Next]_vars => CameraInv'
<1> SUFFICES ASSUME CameraInv, [Next]_vars PROVE CameraInv'
  OBVIOUS
<1> USE DEF CameraInv
<1>1. CASE mode = "recording" /\ RecordStep
  <2>1. CASE Grab
    <3>1. kind = "rgb" /\ kind' = kind /\ frozen' = frozen
      BY <2>1 DEF Grab
    <3>2. CameraType /\ RowsInOrder /\ ClockSaw /\ ClockIsTrue /\ Accounted /\ frozen \in BOOLEAN
      BY <3>1
    <3>3. PICK block, ticks, arrival, r : Grabbed(block, ticks, arrival, r)
      BY <2>1, <3>2, GrabIs
    <3>4. /\ CameraType' /\ r \in RowSet
          /\ r.block = block /\ r.ticks = ticks /\ r.arrival = arrival
          /\ r.latency = arrival - block * NsPerTick /\ r.exposure = HostNs(anchor, ticks, arrival)
      BY <3>2, <3>3, GrabType
    <3>5. RowsInOrder'
      BY <3>2, <3>3, <3>4, GrabOrder
    <3>6. ClockSaw'
      BY <3>2, <3>3, <3>4, <3>5, GrabSaw
    <3>7. ClockIsTrue'
      BY <3>2, <3>3, <3>4, <3>5, <3>6, GrabTrue
    <3>8. Accounted'
      BY <3>2, <3>3, <3>4, GrabAccounted
    <3> QED
      BY <3>1, <3>2, <3>4, <3>5, <3>6, <3>7, <3>8
  <2>2. CASE GrabFails
    <3>1. /\ kind = "rgb" /\ sent' = sent + 1
          /\ UNCHANGED <<kind, frozen, anchor, now, lastId, dropped, rows>>
      BY <2>2 DEF GrabFails
    <3>2. CameraType'
      BY <3>1 DEF CameraType
    <3>3. RowsInOrder'
      <4>1. \A i \in 1..Len(rows) : rows[i].block \in Nat
        BY <3>1, SamplesType DEF CameraType
      <4>2. sent \in Nat
        BY <3>1 DEF CameraType
      <4> QED
        BY <3>1, <4>1, <4>2 DEF RowsInOrder, TickOf
    <3>4. ClockSaw' /\ ClockIsTrue' /\ Accounted'
      BY <3>1 DEF ClockSaw, Samples, ClockIsTrue, Steady, Accounted
    <3> QED
      BY <3>1, <3>2, <3>3, <3>4
  <2>3. CASE StreamChunk
    BY <2>3 DEF StreamChunk
  <2> QED
    BY <1>1, <2>1, <2>2, <2>3 DEF RecordStep
<1>2. CASE UNCHANGED recordingVars
  <2>1. UNCHANGED <<kind, frozen, anchor, now, sent, lastId, dropped, rows>>
    BY <1>2 DEF recordingVars
  <2> QED
    BY <2>1 DEF CameraType, RowsInOrder, TickOf, ClockSaw, Samples, ClockIsTrue, Steady, Accounted
<1>3. (mode = "recording" /\ RecordStep) \/ UNCHANGED recordingVars
  BY DEF Next, Record, StartReading, RenderChunk, RenderEnds, Finalize, ReadChunk, ReadEnds, vars
<1> QED
  BY <1>1, <1>2, <1>3

\* Induction: what CameraInv says is so in every state.
LEMMA CameraAlways == Spec => []CameraInv
BY CameraInit, CameraStep, PTL DEF Spec

-----------------------------------------------------------------------------
LEMMA CameraFits == CameraInv => FitsEverySample
<1> SUFFICES ASSUME CameraInv, kind = "rgb", ~frozen, Len(rows) > anchor.warmup
             PROVE  LET xs == TicksFrom(Samples, rows[1].ticks)
                        ys == HostsFrom(Samples, anchor.host0)
                    IN anchor.rate[1] * Total(Products(xs, xs))
                         = anchor.rate[2] * Total(Products(xs, ys))
  BY DEF FitsEverySample, Samples, SamplesOf
<1> DEFINE sxx == Total(Products(TicksFrom(Samples, rows[1].ticks), TicksFrom(Samples, rows[1].ticks)))
           sxy == Total(Products(TicksFrom(Samples, rows[1].ticks), HostsFrom(Samples, anchor.host0)))
<1>1. /\ anchor \in Anchors /\ rows \in Seq(RowSet) /\ ClockSaw
  BY DEF CameraInv, CameraType
<1>2. /\ anchor.warmup \in Nat /\ anchor.xx \in Int /\ anchor.xy \in Int /\ Len(rows) \in Nat
      /\ anchor.anchored \in BOOLEAN
  BY <1>1, AnchorFields
<1>3. anchor.anchored
  BY <1>1, <1>2 DEF ClockSaw
<1>4. sxx = anchor.xx /\ sxy = anchor.xy /\ anchor.rate = <<anchor.xy, anchor.xx>>
  BY <1>1, <1>3 DEF ClockSaw
<1>5. anchor.rate[1] = anchor.xy /\ anchor.rate[2] = anchor.xx
  BY <1>4
<1> DEFINE xx == anchor.xx
           xy == anchor.xy
<1>6. xy * xx = xx * xy
  <2> HIDE DEF xx, xy
  <2>1. xx \in Int /\ xy \in Int
    BY <1>2 DEF xx, xy
  <2> QED
    BY <2>1
<1> HIDE DEF sxx, sxy
<1>7. anchor.rate[1] * sxx = anchor.rate[2] * sxy
  BY <1>4, <1>5, <1>6
<1> QED
  BY <1>7 DEF sxx, sxy

LEMMA CameraExact == CameraInv => ExactWithoutJitter
<1> SUFFICES ASSUME CameraInv, kind = "rgb", ~frozen,
                    \A i \in 1..Len(rows) : rows[i].latency = rows[1].latency
             PROVE  /\ \A i \in 1..Len(rows) : rows[i].exposure = rows[i].arrival
                    /\ anchor.anchored => /\ anchor.rate[1] = NsPerTick * anchor.rate[2]
                                          /\ DriftSign(anchor) > 0 <=> NsPerTick > Nominal
  BY DEF ExactWithoutJitter
<1>1. /\ anchor \in Anchors /\ ClockSaw /\ ClockIsTrue /\ Steady
  BY DEF CameraInv, CameraType, Steady
<1>2. /\ \A i \in 1..Len(rows) : rows[i].exposure = rows[i].arrival
      /\ anchor.anchored => anchor.rate[1] = NsPerTick * anchor.rate[2]
  BY <1>1 DEF ClockIsTrue
<1>3. ASSUME anchor.anchored PROVE DriftSign(anchor) > 0 <=> NsPerTick > Nominal
  <2> DEFINE k == anchor.rate[2]
  <2>1. k \in Nat \ {0} /\ NsPerTick \in Nat /\ Nominal \in Nat
    BY <1>1, AnchorFields, TimelineAssumption
  <2>2. DriftSign(anchor) = NsPerTick * k - Nominal * k
    BY <1>1, <1>2, <1>3 DEF DriftSign, ClockSaw
  <2> HIDE DEF k
  <2>3. NsPerTick * k - Nominal * k = (NsPerTick - Nominal) * k
    BY <2>1
  <2> DEFINE d == NsPerTick - Nominal
  <2>4. d \in Int /\ (d > 0 <=> NsPerTick > Nominal)
    BY <2>1
  <2> HIDE DEF d
  <2>5. d * k > 0 <=> d > 0
    BY <2>1, <2>4, Z3
  <2> QED
    BY <2>2, <2>3, <2>4, <2>5 DEF d
<1> QED
  BY <1>2, <1>3

LEMMA CameraDrops == CameraInv => DropsAreGaps
<1> SUFFICES ASSUME CameraInv, rows # << >>
             PROVE  LET blocks == rows[Len(rows)].block - rows[1].block + 1
                    IN /\ Len(rows) + dropped <= blocks
                       /\ rows[Len(rows)].block <= BlockModulus => Len(rows) + dropped = blocks
  BY DEF DropsAreGaps, Last
<1> QED
  BY DEF CameraInv, Accounted

\* Though ClockAnchor drops the samples of the warm-up and keeps only two sums, its
\* rate is at every moment the least-squares slope through the anchor of all the
\* samples of the recording.
THEOREM FitIsExact == Spec => []FitsEverySample
BY CameraAlways, CameraFits, PTL

\* Where every latency is the same, whatever the nominal rate, the anchor has the
\* true rate from the end of the warm-up on, the drift it reports has the right
\* sign, and no frame's exposure differs from its arrival: nothing jumps.
THEOREM NoJump == Spec => []ExactWithoutJitter
BY CameraAlways, CameraExact, PTL

\* For any modulus of the block IDs, _grab_loop counts no drop that did not happen,
\* and all of them as long as the IDs have not wrapped.
THEOREM DropsAreReal == Spec => []DropsAreGaps
BY CameraAlways, CameraDrops, PTL

-----------------------------------------------------------------------------
(***************************************************************************)
(* Sorting.                                                                *)
(***************************************************************************)

\* The place j comes before i in a stable sort by the keys K.
Precedes(K, j, i) == K[j] < K[i] \/ (K[j] = K[i] /\ j < i)

\* R ranks the places 1 .. n by their keys.
Ranks(K, n, R) ==
  /\ n \in Nat /\ K \in [1..n -> Int]
  /\ R = [i \in 1..n |-> 1 + Cardinality({j \in 1..n : Precedes(K, j, i)})]

\* The ranks are places, and a place has a smaller rank than those it precedes.
LEMMA RankGrows ==
  ASSUME NEW n, NEW K, NEW R, Ranks(K, n, R)
  PROVE  /\ R \in [1..n -> 1..n]
         /\ \A i \in 1..n, j \in 1..n : Precedes(K, i, j) => R[i] < R[j]
<1> DEFINE Set(i) == {j \in 1..n : Precedes(K, j, i)}
<1>1. /\ n \in Nat /\ IsFiniteSet(1..n) /\ Cardinality(1..n) = n
      /\ \A i \in 1..n : K[i] \in Int
  BY FS_Interval DEF Ranks
<1>2. \A i \in 1..n : R[i] = 1 + Cardinality(Set(i))
  BY DEF Ranks
<1>3. \A i \in 1..n : /\ Set(i) \subseteq 1..n /\ i \notin Set(i)
  BY <1>1 DEF Precedes
<1>4. \A i \in 1..n : IsFiniteSet(Set(i)) /\ Cardinality(Set(i)) \in Nat
  <2> TAKE i \in 1..n
  <2> DEFINE S == Set(i)
  <2>1. S \in SUBSET (1..n)
    BY <1>3
  <2> HIDE DEF S
  <2>2. IsFiniteSet(S)
    BY <1>1, <2>1, FS_Subset
  <2> QED
    BY <2>2, FS_CardinalityType DEF S
<1>5. \A i \in 1..n : Cardinality(Set(i)) < n
  <2> TAKE i \in 1..n
  <2> DEFINE S == Set(i)
             I == 1..n
  <2>1. S \in SUBSET I /\ S # I /\ IsFiniteSet(I) /\ Cardinality(I) = n /\ Cardinality(S) \in Nat
    BY <1>1, <1>3, <1>4
  <2> HIDE DEF S, I
  <2>2. Cardinality(S) <= Cardinality(I) /\ (Cardinality(I) = Cardinality(S) => I = S)
    BY <2>1, FS_Subset
  <2>3. Cardinality(S) < n
    BY <1>1, <2>1, <2>2
  <2> QED
    BY <2>3 DEF S
<1>6. \A i \in 1..n : R[i] \in 1..n
  <2> TAKE i \in 1..n
  <2> DEFINE c == Cardinality(Set(i))
  <2>1. c \in Nat /\ c < n /\ R[i] = 1 + c
    BY <1>2, <1>4, <1>5
  <2> HIDE DEF c
  <2> QED
    BY <1>1, <2>1
<1>7. R \in [1..n -> 1..n]
  <2>1. DOMAIN R = 1..n /\ R = [i \in 1..n |-> R[i]]
    BY DEF Ranks
  <2> QED
    BY <1>6, <2>1
<1>8. ASSUME NEW i \in 1..n, NEW j \in 1..n, Precedes(K, i, j) PROVE R[i] < R[j]
  <2> DEFINE S == Set(i)
             T == Set(j)
  <2>1. \A k \in 1..n : Precedes(K, k, i) => Precedes(K, k, j)
    BY <1>1, <1>8 DEF Precedes
  <2>2. S \subseteq T /\ i \in T /\ i \notin S
    BY <1>3, <1>8, <2>1
  <2>3. IsFiniteSet(T) /\ Cardinality(T) \in Nat /\ Cardinality(S) \in Nat
    BY <1>4
  <2>4. R[i] = 1 + Cardinality(S) /\ R[j] = 1 + Cardinality(T)
    BY <1>2
  <2> HIDE DEF S, T
  <2>5. S \in SUBSET T /\ S # T
    BY <2>2
  <2>6. Cardinality(S) <= Cardinality(T) /\ (Cardinality(T) = Cardinality(S) => T = S)
    BY <2>3, <2>5, FS_Subset
  <2> QED
    BY <2>3, <2>4, <2>5, <2>6
<1> QED
  BY <1>7, <1>8

\* Every rank is that of one place, and the keys follow the ranks.
LEMMA RankIsOrder ==
  ASSUME NEW n, NEW K, NEW R, Ranks(K, n, R)
  PROVE  /\ R \in [1..n -> 1..n]
         /\ \A i \in 1..n, j \in 1..n : R[i] = R[j] => i = j
         /\ \A k \in 1..n : \E i \in 1..n : R[i] = k
         /\ \A i \in 1..n, j \in 1..n : R[i] <= R[j] => K[i] <= K[j]
<1>1. /\ n \in Nat /\ IsFiniteSet(1..n) /\ Cardinality(1..n) = n
      /\ \A i \in 1..n : K[i] \in Int
  BY FS_Interval DEF Ranks
<1>2. /\ R \in [1..n -> 1..n] /\ \A i \in 1..n : R[i] \in 1..n
      /\ \A i \in 1..n, j \in 1..n : Precedes(K, i, j) => R[i] < R[j]
  BY RankGrows
<1>3. \A i \in 1..n, j \in 1..n : i = j \/ Precedes(K, i, j) \/ Precedes(K, j, i)
  BY <1>1 DEF Precedes
<1>4. \A i \in 1..n, j \in 1..n : R[i] = R[j] => i = j
  BY <1>1, <1>2, <1>3
<1>5. \A i \in 1..n, j \in 1..n : R[i] <= R[j] => K[i] <= K[j]
  <2> SUFFICES ASSUME NEW i \in 1..n, NEW j \in 1..n, R[i] <= R[j] PROVE K[i] <= K[j]
    OBVIOUS
  <2>1. ~Precedes(K, j, i)
    BY <1>1, <1>2
  <2> QED
    BY <1>1, <2>1 DEF Precedes
<1>6. ASSUME NEW k \in 1..n PROVE \E i \in 1..n : R[i] = k
  <2> SUFFICES ASSUME \A i \in 1..n : R[i] # k PROVE FALSE
    OBVIOUS
  <2> DEFINE I == 1..n
             T == I \ {k}
  <2>1. IsFiniteSet(T) /\ Cardinality(T) < Cardinality(I)
    <3>1. IsFiniteSet(I) /\ k \in I /\ Cardinality(I) \in Nat
      BY <1>1
    <3> HIDE DEF I
    <3>2. IsFiniteSet(T) /\ Cardinality(T) = Cardinality(I) - 1
      BY <3>1, FS_RemoveElement
    <3> QED
      BY <3>1, <3>2
  <2>2. R \in [I -> T]
    BY <1>2
  <2>3. IsFiniteSet(I)
    BY <1>1
  <2> HIDE DEF I, T
  <2>4. \E x, y \in I : x # y /\ R[x] = R[y]
    BY <2>1, <2>2, <2>3, FS_PigeonHole
  <2> QED
    BY <1>4, <2>4 DEF I
<1> QED
  BY <1>2, <1>4, <1>5, <1>6

\* The numbers of a sequence, in order.
LEMMA SortedNumbers ==
  ASSUME NEW seq \in Seq(Int)
  PROVE  LET s == SortedBy(seq, LAMBDA ns : ns)
         IN /\ s \in Seq(Int) /\ Len(s) = Len(seq)
            /\ \A k \in 1..Len(seq), l \in 1..Len(seq) : k <= l => s[k] <= s[l]
            /\ \A i \in 1..Len(seq) : \E k \in 1..Len(seq) : s[k] = seq[i]
<1> DEFINE n == Len(seq)
           R == [i \in 1..n |-> 1 + Cardinality({j \in 1..n : Precedes(seq, j, i)})]
           s == SortedBy(seq, LAMBDA ns : ns)
           place(k) == CHOOSE i \in 1..n : R[i] = k
<1>1. n \in Nat /\ DOMAIN seq = 1..n /\ seq \in [1..n -> Int]
  OBVIOUS
<1>2. Ranks(seq, n, R)
  BY <1>1 DEF Ranks
<1>3. s = [k \in 1..n |-> seq[place(k)]]
  BY <1>1 DEF SortedBy, Precedes
<1> HIDE DEF R, s, n
<1>4. /\ R \in [1..n -> 1..n]
      /\ \A i \in 1..n, j \in 1..n : R[i] = R[j] => i = j
      /\ \A k \in 1..n : \E i \in 1..n : R[i] = k
      /\ \A i \in 1..n, j \in 1..n : R[i] <= R[j] => seq[i] <= seq[j]
  BY <1>2, RankIsOrder
<1>5. \A k \in 1..n : place(k) \in 1..n /\ R[place(k)] = k
  BY <1>4
<1>6. \A i \in 1..n : R[i] \in 1..n /\ place(R[i]) = i
  BY <1>4, <1>5
<1> HIDE DEF place
<1>7. s \in Seq(Int) /\ Len(s) = n /\ \A k \in 1..n : s[k] = seq[place(k)]
  <2>1. \A k \in 1..n : seq[place(k)] \in Int
    BY <1>1, <1>5
  <2> QED
    BY <1>1, <1>3, <2>1
<1>8. ASSUME NEW k \in 1..n, NEW l \in 1..n, k <= l PROVE s[k] <= s[l]
  <2>1. place(k) \in 1..n /\ place(l) \in 1..n /\ R[place(k)] <= R[place(l)]
    BY <1>5, <1>8
  <2>2. seq[place(k)] <= seq[place(l)]
    BY <1>4, <2>1
  <2> QED
    BY <1>7, <2>2
<1>9. ASSUME NEW i \in 1..n PROVE \E k \in 1..n : s[k] = seq[i]
  <2>1. R[i] \in 1..n /\ place(R[i]) = i
    BY <1>6
  <2>2. s[R[i]] = seq[i]
    BY <1>7, <2>1
  <2> QED
    BY <2>1, <2>2
<1> QED
  BY <1>7, <1>8, <1>9 DEF n, s

\* In a sorted sequence, the values below v are its beginning.
LEMMA SearchIs ==
  ASSUME NEW s \in Seq(Int), \A k \in 1..Len(s), l \in 1..Len(s) : k <= l => s[k] <= s[l],
         NEW v \in Int
  PROVE  /\ SearchLeft(s, v) \in 0..Len(s)
         /\ \A i \in 1..Len(s) : i <= SearchLeft(s, v) <=> s[i] < v
<1> DEFINE n == Len(s)
           S == {i \in 1..n : s[i] < v}
           p == Cardinality(S)
<1>1. n \in Nat /\ DOMAIN s = 1..n /\ IsFiniteSet(1..n) /\ Cardinality(1..n) = n
      /\ \A i \in 1..n : s[i] \in Int
  <2>1. n \in Nat /\ DOMAIN s = 1..n /\ \A i \in 1..n : s[i] \in Int
    OBVIOUS
  <2> HIDE DEF n
  <2>2. IsFiniteSet(1..n) /\ Cardinality(1..n) = n
    BY <2>1, FS_Interval
  <2> QED
    BY <2>1, <2>2
<1>2. SearchLeft(s, v) = p
  BY <1>1 DEF SearchLeft
<1>3. IsFiniteSet(S) /\ p \in 0..n
  <2> DEFINE I == 1..n
  <2>1. S \in SUBSET I /\ IsFiniteSet(I)
    BY <1>1
  <2> HIDE DEF S, I, n
  <2>2. IsFiniteSet(S) /\ Cardinality(S) <= Cardinality(I)
    BY <2>1, FS_Subset
  <2>3. Cardinality(S) \in Nat
    BY <2>2, FS_CardinalityType
  <2> QED
    BY <1>1, <2>2, <2>3 DEF I
<1>4. ASSUME NEW i \in 1..n PROVE i <= p <=> i \in S
  <2>1. CASE i \in S
    <3> DEFINE J == 1..i
    <3>1. J \in SUBSET S
      <4> SUFFICES ASSUME NEW j \in 1..i PROVE j \in S
        OBVIOUS
      <4>1. j \in 1..n /\ s[j] <= s[i] /\ s[i] < v /\ s[j] \in Int /\ s[i] \in Int
        BY <1>1, <2>1
      <4> QED
        BY <4>1
    <3>2. Cardinality(J) = i
      BY <1>1, FS_Interval
    <3> HIDE DEF J, S
    <3>3. Cardinality(J) <= Cardinality(S)
      BY <1>3, <3>1, FS_Subset
    <3> QED
      BY <2>1, <3>2, <3>3
  <2>2. CASE i \notin S
    <3> DEFINE J == 1..i - 1
    <3>1. S \in SUBSET J
      <4> SUFFICES ASSUME NEW j \in S PROVE j \in 1..i - 1
        OBVIOUS
      <4>1. j \in 1..n /\ s[j] < v /\ ~(s[i] < v) /\ s[j] \in Int /\ s[i] \in Int
        BY <1>1, <2>2
      <4>2. ~(i <= j)
        BY <4>1
      <4> QED
        BY <1>1, <4>1, <4>2
    <3>2. IsFiniteSet(J) /\ Cardinality(J) = i - 1
      <4>1. i - 1 \in Int /\ 1 \in Int /\ i \in 1..n
        BY <1>1
      <4>2. IsFiniteSet(1..i - 1) /\ Cardinality(1..i - 1) = IF 1 > i - 1 THEN 0 ELSE (i - 1) - 1 + 1
        BY <4>1, FS_Interval
      <4> QED
        BY <1>1, <4>2
    <3> HIDE DEF J, S
    <3>3. Cardinality(S) <= Cardinality(J)
      BY <3>1, <3>2, FS_Subset
    <3> QED
      BY <1>1, <1>3, <2>2, <3>2, <3>3
  <2> QED
    BY <2>1, <2>2
<1> HIDE DEF p
<1> QED
  BY <1>2, <1>3, <1>4

\* The nearest of all is one of the two neighbours of the place of v.
LEMMA NearestIs ==
  ASSUME NEW reference \in Seq(Int), NEW v \in Int, NEW j \in 1..Len(reference)
  PROVE  Distance(NearestOf(reference, v), v) <= Distance(reference[j], v)
<1> DEFINE s == SortedBy(reference, LAMBDA ns : ns)
           n == Len(reference)
           pos == SearchLeft(s, v)
           candidates == {s[i] : i \in {pos, pos + 1} \cap DOMAIN s}
           best == NearestOf(reference, v)
<1>1. /\ s \in Seq(Int) /\ Len(s) = n
      /\ \A k \in 1..n, l \in 1..n : k <= l => s[k] <= s[l]
      /\ \A i \in 1..n : \E k \in 1..n : s[k] = reference[i]
  BY SortedNumbers
<1>2. best = CHOOSE c \in candidates : \A d \in candidates : Distance(c, v) <= Distance(d, v)
  BY DEF NearestOf
<1> HIDE DEF s, n, best
<1>3. n \in Nat /\ DOMAIN s = 1..n /\ n >= 1 /\ \A i \in 1..n : s[i] \in Int
  <2>1. n \in Nat /\ n >= 1
    BY DEF n
  <2>2. DOMAIN s = 1..Len(s) /\ \A i \in 1..Len(s) : s[i] \in Int
    BY <1>1
  <2> QED
    BY <1>1, <2>1, <2>2
<1>4. pos \in 0..n /\ \A i \in 1..n : i <= pos <=> s[i] < v
  BY <1>1, SearchIs
<1> HIDE DEF pos
<1>5. /\ \A c \in candidates : c \in Int /\ Distance(c, v) \in Int
      /\ pos \in 1..n => s[pos] \in candidates
      /\ pos + 1 \in 1..n => s[pos + 1] \in candidates
      /\ \A c \in candidates : \/ pos \in 1..n /\ c = s[pos]
                               \/ pos + 1 \in 1..n /\ c = s[pos + 1]
  <2>1. candidates = {s[i] : i \in {pos, pos + 1} \cap 1..n}
    BY <1>3
  <2>2. \A c \in candidates :
          \/ pos \in 1..n /\ c = s[pos]
          \/ pos + 1 \in 1..n /\ c = s[pos + 1]
    BY <2>1
  <2>3. \A c \in candidates : c \in Int
    BY <1>3, <2>2
  <2>4. \A c \in Int : Distance(c, v) \in Int
    BY DEF Distance
  <2>5. /\ pos \in 1..n => s[pos] \in candidates
        /\ pos + 1 \in 1..n => s[pos + 1] \in candidates
    BY <2>1
  <2> HIDE DEF candidates
  <2> QED
    BY <2>2, <2>3, <2>4, <2>5
<1> HIDE DEF candidates
<1>6. \E c \in candidates : \A d \in candidates : Distance(c, v) <= Distance(d, v)
  <2>1. CASE pos = 0
    BY <1>3, <1>4, <1>5, <2>1
  <2>2. CASE pos = n
    BY <1>3, <1>4, <1>5, <2>2
  <2>3. CASE pos \in 1..n /\ pos + 1 \in 1..n
    <3> DEFINE x == s[pos]
               y == s[pos + 1]
    <3>1. /\ x \in candidates /\ y \in candidates /\ Distance(x, v) \in Int
          /\ Distance(y, v) \in Int
          /\ \A d \in candidates : d = x \/ d = y
      BY <1>5, <2>3
    <3> HIDE DEF x, y
    <3>2. CASE Distance(x, v) <= Distance(y, v)
      BY <3>1, <3>2
    <3>3. CASE Distance(y, v) <= Distance(x, v)
      BY <3>1, <3>3
    <3> QED
      BY <3>1, <3>2, <3>3
  <2> QED
    BY <1>3, <1>4, <2>1, <2>2, <2>3
<1>7. best \in candidates /\ \A d \in candidates : Distance(best, v) <= Distance(d, v)
  BY <1>2, <1>6
<1>8. PICK k \in 1..n : s[k] = reference[j]
  BY <1>1 DEF n
<1>9. SUFFICES Distance(best, v) <= Distance(s[k], v)
  BY <1>8 DEF best
<1>10. CASE k <= pos
  <2>1. pos \in 1..n /\ s[k] <= s[pos] /\ s[pos] < v /\ s[k] \in Int /\ s[pos] \in Int
    <3>1. pos \in 1..n
      BY <1>3, <1>4, <1>10
    <3>2. s[k] <= s[pos] /\ s[pos] < v
      BY <1>1, <1>4, <1>10, <3>1
    <3> QED
      BY <1>3, <3>1, <3>2
  <2>2. Distance(s[pos], v) <= Distance(s[k], v) /\ Distance(s[k], v) \in Int
    BY <2>1 DEF Distance
  <2>3. /\ Distance(best, v) <= Distance(s[pos], v) /\ Distance(best, v) \in Int
        /\ Distance(s[pos], v) \in Int
    BY <1>5, <1>7, <2>1
  <2> QED
    BY <2>2, <2>3
<1>11. CASE k > pos
  <2>1. /\ pos + 1 \in 1..n /\ s[pos + 1] <= s[k] /\ ~(s[pos + 1] < v) /\ s[k] \in Int
        /\ s[pos + 1] \in Int
    <3>1. pos + 1 \in 1..n /\ pos + 1 <= k /\ ~(pos + 1 <= pos)
      BY <1>3, <1>4, <1>11
    <3>2. s[pos + 1] <= s[k] /\ ~(s[pos + 1] < v)
      BY <1>1, <1>4, <3>1
    <3> QED
      BY <1>3, <3>1, <3>2
  <2>2. Distance(s[pos + 1], v) <= Distance(s[k], v) /\ Distance(s[k], v) \in Int
    <3> DEFINE near == s[pos + 1]
               far == s[k]
    <3>1. near <= far /\ ~(near < v) /\ near \in Int /\ far \in Int
      BY <2>1
    <3> HIDE DEF near, far
    <3>2. Distance(near, v) <= Distance(far, v) /\ Distance(far, v) \in Int
      BY <3>1 DEF Distance
    <3> QED
      BY <3>2 DEF near, far
  <2>3. /\ Distance(best, v) <= Distance(s[pos + 1], v)
        /\ Distance(best, v) \in Int /\ Distance(s[pos + 1], v) \in Int
    BY <1>5, <1>7, <2>1
  <2> QED
    BY <2>2, <2>3
<1> QED
  BY <1>3, <1>4, <1>10, <1>11

-----------------------------------------------------------------------------
(***************************************************************************)
(* What analyze_latency.py makes of the rows.                              *)
(***************************************************************************)

LEMMA SeriesType ==
  ASSUME rows \in Seq(RowSet)
  PROVE  /\ Exposures \in Seq(Int) /\ Len(Exposures) = Len(rows)
         /\ Arrivals \in Seq(Int) /\ Len(Arrivals) = Len(rows) /\ Len(rows) \in Nat
         /\ \A i \in 1..Len(rows) : /\ Exposures[i] = rows[i].exposure /\ Arrivals[i] = rows[i].arrival
                                    /\ rows[i].exposure \in Int /\ rows[i].arrival \in Int
<1>1. \A r \in RowSet : r.exposure \in Int /\ r.arrival \in Int
  BY DEF RowSet
<1>2. DOMAIN rows = 1..Len(rows) /\ Len(rows) \in Nat /\ \A i \in 1..Len(rows) : rows[i] \in RowSet
  OBVIOUS
<1>3. \A i \in 1..Len(rows) : rows[i].exposure \in Int /\ rows[i].arrival \in Int
  BY <1>1, <1>2
<1>4. /\ Exposures = [i \in 1..Len(rows) |-> rows[i].exposure]
      /\ Arrivals = [i \in 1..Len(rows) |-> rows[i].arrival]
  BY <1>2 DEF Exposures, Arrivals
<1> QED
  BY <1>2, <1>3, <1>4

LEMMA OffsetsAreNearest ==
  ASSUME rows \in Seq(RowSet), NEW i \in DOMAIN rows, NEW j \in DOMAIN rows
  PROVE  Distance(NearestOf(Exposures, Arrivals[i]), Arrivals[i])
           <= Distance(Exposures[j], Arrivals[i])
<1> DEFINE reference == Exposures
           v == Arrivals[i]
<1>1. reference \in Seq(Int) /\ v \in Int /\ j \in 1..Len(reference)
  BY SeriesType
<1> HIDE DEF reference, v
<1> QED
  BY <1>1, NearestIs DEF reference, v

\* The two rates are of the same frames and the same time.
LEMMA RatesAgree ==
  ASSUME rows \in Seq(RowSet), AchievedFps # FallbackFps
  PROVE  AchievedFps = ImpliedFps
<1> DEFINE n == Len(rows)
           intervals == [i \in 1..n - 1 |-> rows[i + 1].exposure - rows[i].exposure]
<1>1. /\ n \in Nat /\ Exposures \in Seq(Int) /\ Len(Exposures) = n
      /\ \A i \in 1..n : Exposures[i] = rows[i].exposure /\ rows[i].exposure \in Int
  BY SeriesType
<1>2. n >= 2 /\ AchievedFps = <<Later(n - 1, 1), rows[n].exposure - rows[1].exposure>>
  <2>1. ~(n < 2)
    BY DEF AchievedFps
  <2> QED
    BY <1>1, <2>1 DEF AchievedFps, Last
<1>3. Later(n - 1, 1) = n - 1
  BY <1>1, <1>2 DEF Later
<1>4. ImpliedFps = <<n - 1, Total(intervals)>>
  BY DEF ImpliedFps
<1> HIDE DEF n
<1>5. \A i \in 1..n - 1 : i \in 1..n /\ i + 1 \in 1..n
  BY <1>1
<1>6. \A i \in 1..n - 1 : rows[i + 1].exposure - rows[i].exposure \in Int
  BY <1>1, <1>5
<1>7. /\ intervals \in Seq(Int) /\ Len(intervals) = n - 1
      /\ \A i \in 1..n - 1 : intervals[i] = Exposures[i + 1] - Exposures[i]
  <2>1. n - 1 \in Nat
    BY <1>1, <1>2
  <2> QED
    BY <1>1, <1>5, <1>6, <2>1, SMTT(30)
<1> HIDE DEF intervals
<1>8. Total(intervals) = Exposures[Len(Exposures)] - Exposures[1]
  <2>1. Len(Exposures) = Len(intervals) + 1
    BY <1>1, <1>7
  <2>2. \A i \in 1..Len(intervals) : intervals[i] = Exposures[i + 1] - Exposures[i]
    BY <1>7
  <2> QED
    BY <1>1, <1>7, <2>1, <2>2, TotalSteps
<1>9. Total(intervals) = rows[n].exposure - rows[1].exposure
  <2>1. n \in 1..n /\ 1 \in 1..n
    BY <1>1, <1>2
  <2> QED
    BY <1>1, <1>8, <2>1
<1> QED
  BY <1>2, <1>3, <1>4, <1>9

\* Without a difference between exposure and arrival there is no trend.
LEMMA NoTrend ==
  ASSUME rows \in Seq(RowSet), \A i \in 1..Len(rows) : rows[i].exposure = rows[i].arrival
  PROVE  DriftTrend = 0
<1> DEFINE n == Len(rows)
           xs == [i \in 1..n |-> rows[i].exposure - rows[1].exposure]
           ys == [i \in 1..n |-> rows[i].arrival - rows[i].exposure]
<1>1. /\ n \in Nat /\ DOMAIN rows = 1..n
      /\ \A i \in 1..n : rows[i].exposure \in Int /\ rows[i].arrival \in Int
  BY SeriesType
<1>2. DriftTrend = IF n < 2 \/ xs[n] <= 0 THEN 0
                   ELSE n * Total(Products(xs, ys)) - Total(xs) * Total(ys)
  BY <1>1 DEF DriftTrend
<1>3. \A i \in 1..n : /\ 1 \in 1..n /\ rows[i].exposure - rows[1].exposure \in Int
                      /\ rows[i].arrival - rows[i].exposure = 0
  <2> TAKE i \in 1..n
  <2>1. 1 \in 1..n
    BY <1>1
  <2> QED
    BY <1>1, <2>1
<1>4. xs \in Seq(Int) /\ Len(xs) = n /\ \A i \in 1..n : xs[i] \in Int
  BY <1>1, <1>3
<1>5. ys \in Seq(Int) /\ Len(ys) = n /\ \A i \in 1..n : ys[i] = 0
  BY <1>1, <1>3
<1> HIDE DEF xs, ys, n
<1>6. /\ Products(xs, ys) \in Seq(Int) /\ Len(Products(xs, ys)) = n
      /\ \A i \in 1..n : Products(xs, ys)[i] = xs[i] * ys[i]
  BY <1>4, <1>5, ProductsType
<1>7. \A i \in 1..n : Products(xs, ys)[i] = 0
  BY <1>4, <1>5, <1>6
<1>8. Total(ys) = n * 0 /\ Total(Products(xs, ys)) = n * 0
  BY <1>5, <1>6, <1>7, TotalSame
<1>9. Total(xs) \in Int
  BY <1>4, TotalType
<1> QED
  BY <1>1, <1>2, <1>8, <1>9

\* Without jitter and without a drop, the rate is the true one.
LEMMA RateIsTrue ==
  ASSUME CameraInv, kind = "rgb", ~frozen, Steady, Len(rows) > 1, dropped = 0,
         rows[Len(rows)].block <= BlockModulus
  PROVE  AchievedFps[2] = NsPerTick * AchievedFps[1]
<1> DEFINE n == Len(rows)
           a == rows[1].exposure
           z == rows[n].exposure
           f == rows[1].block
           l == rows[n].block
<1>1. /\ rows \in Seq(RowSet) /\ RowsInOrder /\ ClockIsTrue /\ Accounted
      /\ NsPerTick \in Nat \ {0} /\ n \in Nat /\ n >= 2
  BY TimelineAssumption DEF CameraInv, CameraType
<1>2. 1 \in 1..n /\ n \in 1..n
  BY <1>1
<1>3. /\ rows # << >> /\ f \in Nat /\ l \in Nat /\ rows[1].arrival \in Int
      /\ rows[n].arrival \in Int
  BY <1>1, <1>2, SamplesType
<1>4. a = rows[1].arrival /\ z = rows[n].arrival
  BY <1>1, <1>2 DEF ClockIsTrue
<1>5. n = l - f + 1
  <2>1. n + dropped = l - f + 1
    BY <1>1, <1>3 DEF Accounted
  <2> QED
    BY <1>1, <2>1
<1>6. OnTheLine(rows)
  <2>1. \A i \in 1..n :
          /\ rows[i].ticks = rows[i].block
          /\ rows[i].latency = rows[i].arrival - rows[i].block * NsPerTick
          /\ \A j \in 1..n : j < i => rows[j].block < rows[i].block
          /\ rows[i].latency = rows[1].latency
    BY <1>1 DEF RowsInOrder, TickOf, Steady
  <2> QED
    BY <1>1, <2>1, SteadyIsALine
<1>7. z - a = NsPerTick * (l - f)
  <2>1. rows[1].ticks = f /\ rows[n].ticks = l
    BY <1>1, <1>2 DEF RowsInOrder, TickOf
  <2> QED
    BY <1>2, <1>4, <1>6, <2>1 DEF OnTheLine
<1>8. AchievedFps = IF n < 2 \/ z <= a THEN FallbackFps ELSE <<Later(n - 1, 1), z - a>>
  BY DEF AchievedFps, Last
<1> HIDE DEF n, a, z, f, l
<1>9. l - f = n - 1 /\ n - 1 > 0
  BY <1>1, <1>3, <1>5
<1>10. NsPerTick * (l - f) > 0
  BY <1>1, <1>9
<1>11. z > a /\ z - a = NsPerTick * (n - 1)
  <2>1. a \in Int /\ z \in Int
    BY <1>3, <1>4
  <2> QED
    BY <1>7, <1>9, <1>10, <2>1
<1>12. AchievedFps = <<n - 1, z - a>>
  <2>1. Later(n - 1, 1) = n - 1
    BY <1>1 DEF Later
  <2>2. ~(n < 2) /\ ~(z <= a)
    BY <1>1, <1>3, <1>4, <1>11
  <2> QED
    BY <1>8, <2>1, <2>2
<1> QED
  BY <1>11, <1>12

LEMMA CameraAgrees == CameraInv => AnalysisAgrees
<1> SUFFICES ASSUME CameraInv, rows # << >>
             PROVE  /\ \A i \in DOMAIN rows : \A j \in DOMAIN rows :
                         Distance(NearestOf(Exposures, Arrivals[i]), Arrivals[i])
                           <= Distance(Exposures[j], Arrivals[i])
                    /\ AchievedFps # FallbackFps => AchievedFps = ImpliedFps
                    /\ (~frozen /\ \A i \in DOMAIN rows : rows[i].latency = rows[1].latency) =>
                         /\ DriftTrend = 0
                         /\ Len(rows) > 1 /\ dropped = 0 /\ rows[Len(rows)].block <= BlockModulus =>
                              AchievedFps[2] = NsPerTick * AchievedFps[1]
  BY DEF AnalysisAgrees, Last
<1>1. kind = "rgb" /\ rows \in Seq(RowSet) /\ ClockIsTrue
  BY DEF CameraInv, CameraType
<1>2. ASSUME ~frozen, \A i \in DOMAIN rows : rows[i].latency = rows[1].latency
      PROVE  /\ DriftTrend = 0
             /\ Len(rows) > 1 /\ dropped = 0 /\ rows[Len(rows)].block <= BlockModulus =>
                  AchievedFps[2] = NsPerTick * AchievedFps[1]
  <2>1. Steady
    BY <1>1, <1>2 DEF Steady
  <2>2. \A i \in 1..Len(rows) : rows[i].exposure = rows[i].arrival
    BY <1>1, <1>2, <2>1 DEF ClockIsTrue
  <2>3. DriftTrend = 0
    BY <1>1, <2>2, NoTrend
  <2> QED
    BY <1>1, <1>2, <2>1, <2>3, RateIsTrue
<1> QED
  BY <1>1, <1>2, OffsetsAreNearest, RatesAgree

\* analyze_latency.py reports the offset to the nearest reference of all, agrees with
\* visualize_dataset.py on the frame rate, and finds no trend and the true rate in a
\* recording without jitter and drops.
THEOREM AnalysisIsRight == Spec => []AnalysisAgrees
BY CameraAlways, CameraAgrees, PTL

-----------------------------------------------------------------------------
(***************************************************************************)
(* Functions defined by recursion on numbers, and what they make of        *)
(* sequences of events.                                                    *)
(***************************************************************************)

\* f takes the step F from each number to the next.
Chain(n, S, base, F, f) == /\ f \in [0..n -> S] /\ f[0] = base
                           /\ \A k \in 1..n : f[k] = F[<<k, f[k - 1]>>]

\* Whatever the step, there is such a function.
LEMMA ChainExists ==
  ASSUME NEW n \in Nat, NEW S, NEW base \in S, NEW F \in [(1..n) \X S -> S]
  PROVE  \E f : Chain(n, S, base, F, f)
<1> DEFINE Part(m, f) == /\ f \in [0..m -> S] /\ f[0] = base
                         /\ \A k \in 1..m : f[k] = F[<<k, f[k - 1]>>]
           T == {m \in 0..n : \E f : Part(m, f)}
<1>1. 0 \in T
  <2>1. Part(0, [m \in 0..0 |-> base])
    OBVIOUS
  <2>2. 0 \in 0..n
    OBVIOUS
  <2> HIDE DEF Part
  <2> QED BY <2>1, <2>2
<1>2. ASSUME NEW m \in 0..n - 1, m \in T PROVE m + 1 \in T
  <2>1. PICK f : Part(m, f)
    BY <1>2
  <2> DEFINE g == [k \in 0..m + 1 |-> IF k = m + 1 THEN F[<<m + 1, f[m]>>] ELSE f[k]]
  <2>2. m + 1 \in 1..n /\ m + 1 \in 0..n /\ f[m] \in S
    BY <2>1
  <2>3. F[<<m + 1, f[m]>>] \in S
    BY <2>2
  <2>4. g \in [0..m + 1 -> S] /\ g[0] = base
    BY <2>1, <2>3
  <2>5. \A k \in 1..m + 1 : g[k] = F[<<k, g[k - 1]>>]
    <3> TAKE k \in 1..m + 1
    <3>1. CASE k = m + 1
      <4>1. m \in 0..m + 1 /\ m + 1 \in 0..m + 1 /\ m # m + 1 /\ (m + 1) - 1 = m
        OBVIOUS
      <4>2. g[m + 1] = F[<<m + 1, f[m]>>] /\ g[m] = f[m]
        BY <4>1
      <4> HIDE DEF g
      <4> QED BY <3>1, <4>1, <4>2
    <3>2. CASE k # m + 1
      <4>1. k \in 1..m /\ k - 1 \in 0..m /\ k \in 0..m + 1 /\ k - 1 \in 0..m + 1 /\ k - 1 # m + 1
        BY <3>2
      <4>2. g[k] = f[k] /\ g[k - 1] = f[k - 1]
        BY <3>2, <4>1
      <4> HIDE DEF g
      <4> QED BY <2>1, <4>1, <4>2
    <3> QED BY <3>1, <3>2
  <2>6. Part(m + 1, g)
    <3> HIDE DEF g
    <3> QED BY <2>4, <2>5
  <2> HIDE DEF Part
  <2> QED BY <2>2, <2>6
<1>3. T = 0..n
  <2> HIDE DEF T
  <2>1. T \in SUBSET (0..n)
    BY DEF T
  <2> QED BY <1>1, <1>2, <2>1, FromZero
<1>4. n \in T
  <2>1. n \in 0..n
    OBVIOUS
  <2> HIDE DEF T
  <2> QED BY <1>3, <2>1
<1>5. PICK f : Part(n, f)
  <2> HIDE DEF Part
  <2> QED BY <1>4
<1> QED BY <1>5 DEF Chain

\* An event as it is decoded, on the sensor or beside it, and one on it.
Decoded == [x : 0..Width, t : Nat]
Inside  == [x : 0..Width - 1, t : Nat]

LEMMA WidthIsPositive == /\ Width \in Nat \ {0} /\ 0..Width - 1 \subseteq 0..Width
                         /\ Inside \subseteq Decoded
<1>1. Width \in Nat \ {0}
  BY TimelineAssumption
<1> QED BY <1>1 DEF Inside, Decoded

\* v are the valid events of the beginnings of s.
ValidParts(s, v) ==
  /\ v \in [0..Len(s) -> Seq(Inside)] /\ v[0] = << >>
  /\ \A n \in 1..Len(s) :
       v[n] = IF s[n].x \in 0..Width - 1 THEN Append(v[n - 1], s[n]) ELSE v[n - 1]

LEMMA ValidIs ==
  ASSUME NEW s \in Seq(Decoded)
  PROVE  \E v : ValidParts(s, v) /\ Valid(s) = v[Len(s)]
<1> DEFINE N == Len(s)
           F == [p \in (1..N) \X Seq(Inside) |->
                   IF s[p[1]].x \in 0..Width - 1 THEN Append(p[2], s[p[1]]) ELSE p[2]]
           Rec(u) == u = [n \in 0..N |-> IF n = 0 THEN << >>
                                         ELSE IF s[n].x \in 0..Width - 1 THEN Append(u[n - 1], s[n])
                                         ELSE u[n - 1]]
           c == CHOOSE u : Rec(u)
<1>1. N \in Nat /\ \A n \in 1..N : s[n] \in Decoded
  OBVIOUS
<1>2. \A n \in 1..N : s[n].x \in 0..Width - 1 => s[n] \in Inside
  BY <1>1 DEF Decoded, Inside
<1>3. F \in [(1..N) \X Seq(Inside) -> Seq(Inside)]
  <2>1. \A p \in (1..N) \X Seq(Inside) :
          (IF s[p[1]].x \in 0..Width - 1 THEN Append(p[2], s[p[1]]) ELSE p[2]) \in Seq(Inside)
    BY <1>2
  <2> QED BY <2>1
<1>4. PICK v \in [0..N -> Seq(Inside)] : v[0] = << >> /\ \A k \in 1..N : v[k] = F[<<k, v[k - 1]>>]
  <2> DEFINE S == Seq(Inside)
             base == << >>
  <2>1. base \in S /\ F \in [(1..N) \X S -> S] /\ N \in Nat
    BY <1>1, <1>3
  <2> HIDE DEF F, N, S, base
  <2>2. \E v : Chain(N, S, base, F, v)
    BY <2>1, ChainExists
  <2> QED BY <2>2 DEF S, base, Chain
<1>5. \A n \in 1..N : v[n] = IF s[n].x \in 0..Width - 1 THEN Append(v[n - 1], s[n]) ELSE v[n - 1]
  <2> TAKE n \in 1..N
  <2>1. v[n - 1] \in Seq(Inside) /\ <<n, v[n - 1]>> \in (1..N) \X Seq(Inside)
    <3>1. n - 1 \in 0..N
      BY <1>1
    <3> HIDE DEF N, F
    <3> QED BY <1>4, <3>1
  <2> QED BY <1>4, <2>1
<1>6. ValidParts(s, v)
  BY <1>4, <1>5 DEF ValidParts
<1>7. Rec(v)
  <2>1. v = [n \in 0..N |-> v[n]]
    OBVIOUS
  <2>2. \A n \in 0..N : n = 0 \/ n \in 1..N
    BY <1>1
  <2>3. \A n \in 0..N : v[n] = IF n = 0 THEN << >>
                               ELSE IF s[n].x \in 0..Width - 1 THEN Append(v[n - 1], s[n])
                               ELSE v[n - 1]
    <3>1. v[0] = << >>
      BY <1>4
    <3> HIDE DEF N, F
    <3> QED BY <1>5, <2>2, <3>1
  <2> QED BY <2>1, <2>3
<1>8. Rec(c)
  <2> HIDE DEF Rec
  <2> QED BY <1>7
<1>9. /\ c[0] = << >>
      /\ \A n \in 1..N : c[n] = IF s[n].x \in 0..Width - 1 THEN Append(c[n - 1], s[n]) ELSE c[n - 1]
  <2> HIDE DEF c
  <2>1. \A n \in 0..N : c[n] = IF n = 0 THEN << >>
                               ELSE IF s[n].x \in 0..Width - 1 THEN Append(c[n - 1], s[n])
                               ELSE c[n - 1]
    BY <1>8
  <2>2. 0 \in 0..N /\ \A n \in 1..N : n \in 0..N /\ n # 0
    BY <1>1
  <2> HIDE DEF Rec, N
  <2> QED BY <2>1, <2>2
<1>10. c[N] = v[N]
  <2> DEFINE T == {k \in 0..N : c[k] = v[k]}
  <2> HIDE DEF c
  <2>1. 0 \in T
    BY <1>1, <1>4, <1>9
  <2>2. ASSUME NEW k \in 0..N - 1, k \in T PROVE k + 1 \in T
    <3>1. k + 1 \in 1..N /\ k + 1 \in 0..N /\ (k + 1) - 1 = k /\ c[k] = v[k]
      BY <1>1, <2>2
    <3> HIDE DEF N, F
    <3> QED BY <1>5, <1>9, <3>1
  <2>3. T = 0..N
    <3> HIDE DEF T, N
    <3>1. T \in SUBSET (0..N)
      BY DEF T
    <3> QED BY <1>1, <2>1, <2>2, <3>1, FromZero
  <2>4. N \in 0..N
    BY <1>1
  <2> HIDE DEF N
  <2> QED BY <2>3, <2>4
<1>11. Valid(s) = c[N]
  BY DEF Valid
<1> HIDE DEF c
<1> QED BY <1>6, <1>10, <1>11

\* The valid events are events of the sequence, on the sensor and in its order.
LEMMA ValidKeeps ==
  ASSUME NEW s \in Seq(Decoded)
  PROVE  /\ Valid(s) \in Seq(Inside) /\ Len(Valid(s)) <= Len(s)
         /\ \A i \in 1..Len(Valid(s)) : \E j \in 1..Len(s) : Valid(s)[i] = s[j]
         /\ (\A j, k \in 1..Len(s) : j <= k => s[j].t <= s[k].t) =>
              \A i, k \in 1..Len(Valid(s)) : i <= k => Valid(s)[i].t <= Valid(s)[k].t
<1>1. PICK v : ValidParts(s, v) /\ Valid(s) = v[Len(s)]
  BY ValidIs
<1> DEFINE N == Len(s)
           Sorted == \A j, k \in 1..N : j <= k => s[j].t <= s[k].t
           Keeps(n) == /\ Len(v[n]) <= n
                       /\ \A i \in 1..Len(v[n]) : \E j \in 1..n : v[n][i] = s[j]
                       /\ Sorted => \A i, k \in 1..Len(v[n]) : i <= k => v[n][i].t <= v[n][k].t
           T == {n \in 0..N : Keeps(n)}
<1>2. N \in Nat /\ \A n \in 0..N : v[n] \in Seq(Inside)
  BY <1>1 DEF ValidParts
<1>3. 0 \in T
  BY <1>1, <1>2 DEF ValidParts
<1>4. ASSUME NEW n \in 0..N - 1, n \in T PROVE n + 1 \in T
  <2>1. n + 1 \in 1..N /\ n + 1 \in 0..N /\ (n + 1) - 1 = n /\ Keeps(n) /\ n \in Nat
    BY <1>2, <1>4
  <2>2. v[n + 1] = IF s[n + 1].x \in 0..Width - 1 THEN Append(v[n], s[n + 1]) ELSE v[n]
    BY <1>1, <2>1 DEF ValidParts
  <2>3. v[n] \in Seq(Inside) /\ v[n + 1] \in Seq(Inside)
    BY <1>2, <2>1
  <2> DEFINE a == v[n]
             b == v[n + 1]
             e == s[n + 1]
  <2>4. \A j \in 1..n : j \in 1..n + 1 /\ j \in 1..N /\ j <= n + 1
    BY <2>1, <1>2
  <2>5. CASE b = a
    <3>1. \A i \in 1..Len(b) : \E j \in 1..n + 1 : b[i] = s[j]
      BY <2>1, <2>4, <2>5
    <3>2. Len(b) <= n + 1
      <4>1. Len(b) = Len(a) /\ Len(a) \in Nat /\ Len(a) <= n
        BY <2>1, <2>3, <2>5
      <4> HIDE DEF a, b
      <4> QED BY <2>1, <4>1
    <3> QED BY <2>1, <2>5, <3>1, <3>2
  <2>6. CASE b = Append(a, e)
    <3> HIDE DEF a, b, e
    <3>1. /\ Len(a) \in Nat /\ Len(b) = Len(a) + 1 /\ b[Len(a) + 1] = e
          /\ \A i \in 1..Len(a) : b[i] = a[i]
      BY <2>3, <2>6 DEF a, b
    <3>2. \A i \in 1..Len(b) : i \in 1..Len(a) \/ i = Len(a) + 1
      BY <3>1
    <3>3. \A i \in 1..Len(a) : \E j \in 1..n : a[i] = s[j]
      BY <2>1 DEF a
    <3>4. \A i \in 1..Len(b) : \E j \in 1..n + 1 : b[i] = s[j]
      <4>1. n + 1 \in 1..n + 1 /\ e = s[n + 1]
        BY <2>1 DEF e
      <4> QED BY <2>4, <3>1, <3>2, <3>3, <4>1
    <3>5. ASSUME Sorted PROVE \A i, k \in 1..Len(b) : i <= k => b[i].t <= b[k].t
      <4> SUFFICES ASSUME NEW i \in 1..Len(b), NEW k \in 1..Len(b), i <= k PROVE b[i].t <= b[k].t
        OBVIOUS
      <4>0. b[i].t \in Nat
        <5>1. b[i] \in Inside
          BY <2>3 DEF b
        <5> QED BY <5>1 DEF Inside
      <4>1. CASE k \in 1..Len(a)
        <5>1. i \in 1..Len(a)
          BY <3>1, <4>1
        <5>2. a[i].t <= a[k].t
          BY <2>1, <3>5, <4>1, <5>1 DEF a
        <5> QED BY <3>1, <4>1, <5>1, <5>2
      <4>2. CASE k = Len(a) + 1 /\ i = k
        BY <4>0, <4>2
      <4>3. CASE k = Len(a) + 1 /\ i \in 1..Len(a)
        <5>1. PICK j \in 1..n : a[i] = s[j]
          BY <3>3, <4>3
        <5>2. s[j].t <= s[n + 1].t
          BY <2>1, <2>4, <3>5
        <5> QED BY <3>1, <4>3, <5>1, <5>2 DEF e
      <4> QED BY <3>1, <3>2, <4>1, <4>2, <4>3
    <3>6. Len(b) <= n + 1
      <4>1. Len(a) <= n
        BY <2>1 DEF a
      <4> QED BY <2>1, <3>1, <4>1
    <3> QED BY <2>1, <3>4, <3>5, <3>6 DEF b
  <2> QED BY <2>2, <2>5, <2>6
<1>5. T = 0..N
  <2> HIDE DEF T, N
  <2>1. T \in SUBSET (0..N)
    BY DEF T
  <2> QED BY <1>2, <1>3, <1>4, <2>1, FromZero
<1>6. N \in T
  <2>1. N \in 0..N
    BY <1>2
  <2> HIDE DEF T, N
  <2> QED BY <1>5, <2>1
<1>7. Keeps(N) /\ v[N] \in Seq(Inside)
  BY <1>2, <1>6
<1> QED BY <1>1, <1>7

\* Sequences that agree up to a place have the same valid events up to there.
LEMMA ValidAgrees ==
  ASSUME NEW s \in Seq(Decoded), NEW r \in Seq(Decoded), NEW v, NEW w, ValidParts(s, v), ValidParts(r, w),
         Len(s) <= Len(r), \A i \in 1..Len(s) : s[i] = r[i]
  PROVE  v[Len(s)] = w[Len(s)]
<1> DEFINE N == Len(s)
           T == {k \in 0..N : v[k] = w[k]}
<1>1. N \in Nat /\ Len(r) \in Nat
  OBVIOUS
<1>2. 0 \in T
  BY <1>1 DEF ValidParts
<1>3. ASSUME NEW k \in 0..N - 1, k \in T PROVE k + 1 \in T
  <2>1. k + 1 \in 1..N /\ k + 1 \in 1..Len(r) /\ k + 1 \in 0..N /\ (k + 1) - 1 = k /\ v[k] = w[k]
    BY <1>1, <1>3
  <2>2. v[k + 1] = IF s[k + 1].x \in 0..Width - 1 THEN Append(v[k], s[k + 1]) ELSE v[k]
    BY <2>1 DEF ValidParts
  <2>3. w[k + 1] = IF r[k + 1].x \in 0..Width - 1 THEN Append(w[k], r[k + 1]) ELSE w[k]
    BY <2>1 DEF ValidParts
  <2>4. v[k + 1] = w[k + 1]
    BY <2>1, <2>2, <2>3
  <2> QED BY <2>1, <2>4
<1>4. T = 0..N
  <2> HIDE DEF T, N
  <2>1. T \in SUBSET (0..N)
    BY DEF T
  <2> QED BY <1>1, <1>2, <1>3, <2>1, FromZero
<1>5. N \in T
  <2>1. N \in 0..N
    BY <1>1
  <2> HIDE DEF T, N
  <2> QED BY <1>4, <2>1
<1> QED BY <1>5

LEMMA AppendToConcat ==
  ASSUME NEW a \in Seq(Inside), NEW b \in Seq(Inside), NEW e \in Inside
  PROVE  Append(a \o b, e) = a \o Append(b, e)
<1> DEFINE l == Append(a \o b, e)
           r == a \o Append(b, e)
           n == Len(a) + Len(b) + 1
<1>1. Len(a) \in Nat /\ Len(b) \in Nat /\ a \o b \in Seq(Inside) /\ Len(a \o b) = Len(a) + Len(b)
  OBVIOUS
<1>2. l \in Seq(Inside) /\ Len(l) = n
  BY <1>1
<1>3. Append(b, e) \in Seq(Inside) /\ Len(Append(b, e)) = Len(b) + 1
  OBVIOUS
<1>4. r \in Seq(Inside) /\ Len(r) = n
  BY <1>1, <1>3
<1>5. ASSUME NEW i \in 1..n PROVE l[i] = r[i]
  <2>1. CASE i = n
    BY <1>1, <1>3, <2>1
  <2>2. CASE i # n
    <3>1. i \in 1..Len(a) + Len(b)
      BY <1>1, <2>2
    <3>2. l[i] = (a \o b)[i]
      BY <1>1, <3>1
    <3>3. r[i] = IF i <= Len(a) THEN a[i] ELSE Append(b, e)[i - Len(a)]
      BY <1>1, <1>3, <3>1
    <3>4. (a \o b)[i] = IF i <= Len(a) THEN a[i] ELSE b[i - Len(a)]
      BY <1>1, <3>1
    <3>5. i > Len(a) => i - Len(a) \in 1..Len(b)
      BY <1>1, <3>1
    <3>6. i > Len(a) => Append(b, e)[i - Len(a)] = b[i - Len(a)]
      BY <3>5
    <3> HIDE DEF l, r
    <3> QED BY <1>1, <3>1, <3>2, <3>3, <3>4, <3>6
  <2> QED BY <2>1, <2>2
<1> HIDE DEF l, r, n
<1>6. l = r
  BY <1>2, <1>4, <1>5
<1> QED BY <1>6 DEF l, r

\* The valid events of two sequences are those of the first and then those of the second.
LEMMA ValidConcat ==
  ASSUME NEW s \in Seq(Decoded), NEW r \in Seq(Decoded)
  PROVE  Valid(s \o r) = Valid(s) \o Valid(r)
<1> DEFINE N == Len(s)
           M == Len(r)
           sr == s \o r
<1>1. /\ N \in Nat /\ M \in Nat /\ sr \in Seq(Decoded) /\ Len(sr) = N + M
      /\ \A i \in 1..N : sr[i] = s[i]
      /\ \A i \in 1..M : sr[N + i] = r[i]
  OBVIOUS
<1>2. PICK v : ValidParts(s, v) /\ Valid(s) = v[N]
  BY ValidIs
<1>3. PICK w : ValidParts(r, w) /\ Valid(r) = w[M]
  BY ValidIs
<1>4. PICK u : ValidParts(sr, u) /\ Valid(sr) = u[N + M]
  <2> HIDE DEF sr
  <2> QED BY <1>1, ValidIs
<1>5. v[N] = u[N]
  <2>1. N <= N + M
    BY <1>1
  <2> HIDE DEF sr
  <2> QED BY <1>1, <1>2, <1>4, <2>1, ValidAgrees
<1> HIDE DEF sr
<1>6. v[N] \in Seq(Inside) /\ \A k \in 0..M : w[k] \in Seq(Inside)
  <2>1. N \in 0..N
    BY <1>1
  <2>2. v \in [0..N -> Seq(Inside)] /\ w \in [0..M -> Seq(Inside)]
    BY <1>2, <1>3 DEF ValidParts
  <2> HIDE DEF N, M
  <2> QED BY <2>1, <2>2
<1> DEFINE T == {k \in 0..M : u[N + k] = v[N] \o w[k]}
<1>7. 0 \in T
  <2>1. w[0] = << >> /\ N + 0 = N
    BY <1>1, <1>3 DEF ValidParts
  <2>2. v[N] \o << >> = v[N]
    BY <1>6
  <2>3. 0 \in 0..M /\ u[N + 0] = v[N] \o w[0]
    BY <1>1, <1>5, <2>1, <2>2
  <2> HIDE DEF N, M
  <2> QED BY <2>3
<1>8. ASSUME NEW k \in 0..M - 1, k \in T PROVE k + 1 \in T
  <2>1. /\ k + 1 \in 1..M /\ k + 1 \in 0..M /\ k \in 0..M /\ (k + 1) - 1 = k
        /\ N + (k + 1) \in 1..N + M /\ (N + (k + 1)) - 1 = N + k
        /\ u[N + k] = v[N] \o w[k]
    <3>1. u[N + k] = v[N] \o w[k]
      BY <1>8
    <3> HIDE DEF T
    <3>2. N \in Nat /\ M \in Nat /\ k \in 0..M - 1
      BY <1>1
    <3> HIDE DEF N, M
    <3> QED BY <3>1, <3>2
  <2>2. w[k + 1] = IF r[k + 1].x \in 0..Width - 1 THEN Append(w[k], r[k + 1]) ELSE w[k]
    BY <1>3, <2>1 DEF ValidParts
  <2>3. u[N + (k + 1)] = IF r[k + 1].x \in 0..Width - 1 THEN Append(u[N + k], r[k + 1]) ELSE u[N + k]
    BY <1>1, <1>4, <2>1 DEF ValidParts
  <2>4. CASE r[k + 1].x \in 0..Width - 1
    <3>1. r[k + 1] \in Inside
      <4>1. r[k + 1] \in Decoded
        BY <1>1, <2>1
      <4> QED BY <2>4, <4>1 DEF Decoded, Inside
    <3> DEFINE a == v[N]
               b == w[k]
               e == r[k + 1]
    <3>2. a \in Seq(Inside) /\ b \in Seq(Inside) /\ e \in Inside
      BY <1>6, <2>1, <3>1
    <3> HIDE DEF a, b, e
    <3>3. Append(a \o b, e) = a \o Append(b, e)
      BY <3>2, AppendToConcat
    <3> QED BY <2>1, <2>2, <2>3, <2>4, <3>3 DEF a, b, e
  <2>5. CASE ~(r[k + 1].x \in 0..Width - 1)
    BY <2>1, <2>2, <2>3, <2>5
  <2> QED BY <2>4, <2>5
<1>9. T = 0..M
  <2> HIDE DEF T, M
  <2>1. T \in SUBSET (0..M)
    BY DEF T
  <2> QED BY <1>1, <1>7, <1>8, <2>1, FromZero
<1>10. M \in T
  <2>1. M \in 0..M
    BY <1>1
  <2> HIDE DEF T, M
  <2> QED BY <1>9, <2>1
<1> QED BY <1>2, <1>3, <1>4, <1>10 DEF sr

\* f are the concatenations of the beginnings of s.
FlatParts(s, f) ==
  /\ f \in [0..Len(s) -> Seq(Decoded)] /\ f[0] = << >>
  /\ \A n \in 1..Len(s) : f[n] = f[n - 1] \o s[n]

LEMMA FlattenIs ==
  ASSUME NEW s \in Seq(Seq(Decoded))
  PROVE  \E f : FlatParts(s, f) /\ FlattenSeq(s) = f[Len(s)]
<1> DEFINE N == Len(s)
           F == [p \in (1..N) \X Seq(Decoded) |-> p[2] \o s[p[1]]]
           Rec(u) == u = [i \in 1..N |-> IF i = 1 THEN s[i] ELSE u[i - 1] \o s[i]]
           c == CHOOSE u : Rec(u)
<1>1. N \in Nat /\ \A n \in 1..N : s[n] \in Seq(Decoded)
  OBVIOUS
<1>2. F \in [(1..N) \X Seq(Decoded) -> Seq(Decoded)]
  <2>1. \A p \in (1..N) \X Seq(Decoded) : p[2] \o s[p[1]] \in Seq(Decoded)
    BY <1>1
  <2> QED BY <2>1
<1>3. PICK f : /\ f \in [0..N -> Seq(Decoded)] /\ f[0] = << >>
               /\ \A k \in 1..N : f[k] = F[<<k, f[k - 1]>>]
  <2> DEFINE S == Seq(Decoded)
             base == << >>
  <2>1. base \in S /\ F \in [(1..N) \X S -> S] /\ N \in Nat
    BY <1>1, <1>2
  <2> HIDE DEF F, N, S, base
  <2>2. \E f : Chain(N, S, base, F, f)
    BY <2>1, ChainExists
  <2> QED BY <2>2 DEF S, base, Chain
<1>4. \A n \in 1..N : f[n] = f[n - 1] \o s[n]
  <2> TAKE n \in 1..N
  <2>1. f[n - 1] \in Seq(Decoded) /\ <<n, f[n - 1]>> \in (1..N) \X Seq(Decoded)
    <3>1. n - 1 \in 0..N
      BY <1>1
    <3> HIDE DEF N, F
    <3> QED BY <1>3, <3>1
  <2> QED BY <1>3, <2>1
<1>5. FlatParts(s, f)
  BY <1>3, <1>4 DEF FlatParts
<1>6. CASE N = 0
  BY <1>3, <1>5, <1>6 DEF FlattenSeq
<1>7. CASE N # 0
  <2> DEFINE g == [i \in 1..N |-> f[i]]
  <2>1. 1 \in 1..N /\ \A i \in 1..N : i = 1 \/ i - 1 \in 1..N
    BY <1>1, <1>7
  <2>2. Rec(g)
    <3>1. f[1] = s[1]
      <4>1. f[1] = << >> \o s[1]
        <5>1. f[1] = f[1 - 1] \o s[1]
          <6> HIDE DEF N, F
          <6> QED BY <1>4, <2>1
        <5>2. 1 - 1 = 0 /\ f[0] = << >>
          BY <1>3
        <5> HIDE DEF N, F
        <5> QED BY <5>1, <5>2
      <4> QED BY <1>1, <2>1, <4>1
    <3>2. \A i \in 1..N : g[i] = IF i = 1 THEN s[i] ELSE g[i - 1] \o s[i]
      <4> HIDE DEF N, F
      <4> QED BY <1>4, <2>1, <3>1
    <3> HIDE DEF N, F
    <3> QED BY <3>2
  <2>3. Rec(c)
    <3> HIDE DEF Rec, g
    <3> QED BY <2>2
  <2>4. c[1] = s[1] /\ \A i \in 2..N : c[i] = c[i - 1] \o s[i]
    <3> HIDE DEF c
    <3>1. \A i \in 1..N : c[i] = IF i = 1 THEN s[i] ELSE c[i - 1] \o s[i]
      BY <2>3
    <3>2. \A i \in 2..N : i \in 1..N /\ i # 1
      BY <1>1
    <3> HIDE DEF Rec, N
    <3> QED BY <2>1, <3>1, <3>2
  <2> HIDE DEF c
  <2> DEFINE T == {k \in 0..N : k = 0 \/ c[k] = f[k]}
  <2>5. 0 \in T
    BY <1>1
  <2>6. ASSUME NEW k \in 0..N - 1, k \in T PROVE k + 1 \in T
    <3>1. k + 1 \in 1..N /\ k + 1 \in 0..N /\ (k + 1) - 1 = k /\ (k = 0 \/ c[k] = f[k])
      BY <1>1, <2>6
    <3>2. f[k + 1] = f[k] \o s[k + 1]
      <4> HIDE DEF N, F
      <4> QED BY <1>4, <3>1
    <3>3. CASE k = 0
      <4>1. f[1] = s[1]
        <5>1. f[1] = << >> \o s[1]
          <6>1. 0 + 1 = 1
            OBVIOUS
          <6> HIDE DEF N, F
          <6> QED BY <1>3, <3>2, <3>3, <6>1
        <5> QED BY <1>1, <2>1, <5>1
      <4> QED BY <2>4, <3>1, <3>3, <4>1
    <3>4. CASE k # 0
      <4>1. k + 1 \in 2..N
        BY <1>1, <2>6, <3>4
      <4>2. c[k + 1] = c[k] \o s[k + 1]
        <5> HIDE DEF N
        <5> QED BY <2>4, <3>1, <4>1
      <4> QED BY <3>1, <3>2, <3>4, <4>2
    <3> QED BY <3>3, <3>4
  <2>7. T = 0..N
    <3> HIDE DEF T, N
    <3>1. T \in SUBSET (0..N)
      BY DEF T
    <3> QED BY <1>1, <2>5, <2>6, <3>1, FromZero
  <2>8. c[N] = f[N]
    <3>1. N \in 0..N
      BY <1>1
    <3>2. N \in T
      <4> HIDE DEF T, N
      <4> QED BY <2>7, <3>1
    <3> QED BY <1>7, <3>2
  <2>9. FlattenSeq(s) = c[N]
    BY <1>7 DEF FlattenSeq, c
  <2> QED BY <1>5, <2>8, <2>9
<1> QED BY <1>6, <1>7

\* A chunk more.
LEMMA FlattenAppend ==
  ASSUME NEW s \in Seq(Seq(Decoded)), NEW e \in Seq(Decoded)
  PROVE  /\ FlattenSeq(s) \in Seq(Decoded)
         /\ FlattenSeq(Append(s, e)) = FlattenSeq(s) \o e
<1> DEFINE N == Len(s)
           r == Append(s, e)
<1>1. /\ N \in Nat /\ r \in Seq(Seq(Decoded)) /\ Len(r) = N + 1 /\ r[N + 1] = e
      /\ \A i \in 1..N : r[i] = s[i]
  OBVIOUS
<1>2. PICK f : FlatParts(s, f) /\ FlattenSeq(s) = f[N]
  BY FlattenIs
<1>3. PICK g : FlatParts(r, g) /\ FlattenSeq(r) = g[N + 1]
  <2> HIDE DEF r
  <2> QED BY <1>1, FlattenIs
<1> HIDE DEF r
<1> DEFINE T == {k \in 0..N : f[k] = g[k]}
<1>4. 0 \in T
  BY <1>1, <1>2, <1>3 DEF FlatParts
<1>5. ASSUME NEW k \in 0..N - 1, k \in T PROVE k + 1 \in T
  <2>1. k + 1 \in 1..N /\ k + 1 \in 1..N + 1 /\ k + 1 \in 0..N /\ (k + 1) - 1 = k /\ f[k] = g[k]
    BY <1>1, <1>5
  <2>2. f[k + 1] = f[k] \o s[k + 1]
    BY <1>2, <2>1 DEF FlatParts
  <2>3. g[k + 1] = g[k] \o r[k + 1] /\ r[k + 1] = s[k + 1]
    <3>1. k + 1 \in 1..Len(r)
      BY <1>1, <2>1
    <3>2. g[k + 1] = g[(k + 1) - 1] \o r[k + 1]
      BY <1>3, <3>1 DEF FlatParts
    <3> HIDE DEF N
    <3> QED BY <1>1, <2>1, <3>2
  <2> HIDE DEF N
  <2> QED BY <2>1, <2>2, <2>3
<1>6. T = 0..N
  <2> HIDE DEF T, N
  <2>1. T \in SUBSET (0..N)
    BY DEF T
  <2> QED BY <1>1, <1>4, <1>5, <2>1, FromZero
<1>7. f[N] = g[N] /\ f[N] \in Seq(Decoded)
  <2>1. N \in 0..N
    BY <1>1
  <2>2. N \in T
    <3> HIDE DEF T, N
    <3> QED BY <1>6, <2>1
  <2> QED BY <1>2, <2>1, <2>2 DEF FlatParts
<1>8. g[N + 1] = g[N] \o e
  <2>1. N + 1 \in 1..N + 1 /\ (N + 1) - 1 = N
    BY <1>1
  <2> QED BY <1>1, <1>3, <2>1 DEF FlatParts
<1> QED BY <1>2, <1>3, <1>7, <1>8 DEF r

LEMMA FlattenEmpty == FlattenSeq(<< >>) = << >> /\ Valid(<< >>) = << >>
<1>1. << >> \in Seq(Decoded) /\ Len(<< >>) = 0
  OBVIOUS
<1>2. PICK v : ValidParts(<< >>, v) /\ Valid(<< >>) = v[Len(<< >>)]
  BY <1>1, ValidIs
<1>3. Valid(<< >>) = << >>
  BY <1>1, <1>2 DEF ValidParts
<1> QED BY <1>1, <1>3 DEF FlattenSeq

-----------------------------------------------------------------------------
(***************************************************************************)
(* The filter.                                                             *)
(***************************************************************************)

Pixels  == 0..Width - 1
Shots   == [x : Pixels, time : Int]
Results == [x : Pixels, time : Int, keep : BOOLEAN]
Filters == [active : [Pixels -> Int], out : Seq(Results)]

\* What becomes of an event, given when each pixel last fired.
Judged(active, e) == [x |-> e.x, time |-> e.time, keep |-> IsActive(active, e.x, e.time - DenoiseUs)]

LEMMA DenoiseEventType ==
  ASSUME NEW f \in Filters, NEW e \in Shots
  PROVE  /\ DenoiseEvent(f, e) \in Filters /\ Judged(f.active, e) \in Results
         /\ DenoiseEvent(f, e).active = [f.active EXCEPT ![e.x] = e.time]
         /\ DenoiseEvent(f, e).out = Append(f.out, Judged(f.active, e))
<1>1. e.x \in Pixels /\ e.time \in Int /\ f.active \in [Pixels -> Int] /\ f.out \in Seq(Results)
  BY DEF Shots, Filters
<1>2. IsActive(f.active, e.x, e.time - DenoiseUs) \in BOOLEAN
  BY DEF IsActive
<1>3. Judged(f.active, e) \in Results
  BY <1>1, <1>2 DEF Judged, Results
<1>4. DenoiseEvent(f, e) = [active |-> [f.active EXCEPT ![e.x] = e.time],
                            out |-> Append(f.out, Judged(f.active, e))]
  BY DEF DenoiseEvent, Judged
<1>5. [f.active EXCEPT ![e.x] = e.time] \in [Pixels -> Int] /\ Append(f.out, Judged(f.active, e)) \in Seq(Results)
  BY <1>1, <1>3
<1> QED BY <1>3, <1>4, <1>5 DEF Filters

\* d are the states of the filter as it goes through ev.
DenoiseParts(ev, active, d) ==
  /\ d \in [0..Len(ev) -> Filters] /\ d[0] = [active |-> active, out |-> << >>]
  /\ \A n \in 1..Len(ev) : d[n] = DenoiseEvent(d[n - 1], ev[n])

LEMMA DenoiseIs ==
  ASSUME NEW ev \in Seq(Shots), NEW active \in [Pixels -> Int]
  PROVE  \E d : DenoiseParts(ev, active, d) /\ Denoise(ev, active) = d[Len(ev)]
<1> DEFINE N == Len(ev)
           first == [active |-> active, out |-> << >>]
           F == [p \in (1..N) \X Filters |-> DenoiseEvent(p[2], ev[p[1]])]
           Rec(u) == u = [n \in 0..N |-> IF n = 0 THEN first ELSE DenoiseEvent(u[n - 1], ev[n])]
           c == CHOOSE u : Rec(u)
<1>1. N \in Nat /\ (\A n \in 1..N : ev[n] \in Shots) /\ first \in Filters
  BY DEF Filters
<1>2. F \in [(1..N) \X Filters -> Filters]
  <2>1. \A p \in (1..N) \X Filters : DenoiseEvent(p[2], ev[p[1]]) \in Filters
    BY <1>1, DenoiseEventType
  <2> QED BY <2>1
<1>3. PICK d : Chain(N, Filters, first, F, d)
  <2> HIDE DEF F, N, first
  <2> QED BY <1>1, <1>2, ChainExists
<1>4. d \in [0..N -> Filters] /\ d[0] = first /\ \A n \in 1..N : d[n] = F[<<n, d[n - 1]>>]
  <2> HIDE DEF F, N, first
  <2> QED BY <1>3 DEF Chain
<1>5. \A n \in 1..N : d[n] = DenoiseEvent(d[n - 1], ev[n])
  <2> TAKE n \in 1..N
  <2>1. <<n, d[n - 1]>> \in (1..N) \X Filters
    <3>1. n - 1 \in 0..N
      BY <1>1
    <3> HIDE DEF N, F
    <3> QED BY <1>4, <3>1
  <2>2. d[n] = F[<<n, d[n - 1]>>]
    <3> HIDE DEF F
    <3> QED BY <1>4
  <2> QED BY <2>1, <2>2
<1>6. DenoiseParts(ev, active, d)
  <2> HIDE DEF F
  <2> QED BY <1>4, <1>5 DEF DenoiseParts
<1> HIDE DEF F
<1>7. Rec(d)
  <2>1. \A n \in 0..N : n = 0 \/ n \in 1..N
    BY <1>1
  <2>2. \A n \in 0..N : d[n] = IF n = 0 THEN first ELSE DenoiseEvent(d[n - 1], ev[n])
    <3> HIDE DEF N, first
    <3> QED BY <1>4, <1>5, <2>1
  <2>3. d = [n \in 0..N |-> d[n]]
    BY <1>4
  <2> HIDE DEF N, first
  <2> QED BY <2>2, <2>3
<1>8. Rec(c)
  <2> HIDE DEF Rec
  <2> QED BY <1>7
<1>9. c[0] = first /\ \A n \in 1..N : c[n] = DenoiseEvent(c[n - 1], ev[n])
  <2> HIDE DEF c
  <2>1. \A n \in 0..N : c[n] = IF n = 0 THEN first ELSE DenoiseEvent(c[n - 1], ev[n])
    BY <1>8
  <2>2. 0 \in 0..N /\ \A n \in 1..N : n \in 0..N /\ n # 0
    BY <1>1
  <2> HIDE DEF Rec, N, first
  <2> QED BY <2>1, <2>2
<1> HIDE DEF c, first
<1> DEFINE T == {k \in 0..N : c[k] = d[k]}
<1>10. 0 \in T
  BY <1>1, <1>4, <1>9
<1>11. ASSUME NEW k \in 0..N - 1, k \in T PROVE k + 1 \in T
  <2>1. k + 1 \in 1..N /\ k + 1 \in 0..N /\ (k + 1) - 1 = k /\ c[k] = d[k]
    BY <1>1, <1>11
  <2>2. d[k + 1] = DenoiseEvent(d[k], ev[k + 1]) /\ c[k + 1] = DenoiseEvent(c[k], ev[k + 1])
    <3> HIDE DEF N
    <3> QED BY <1>5, <1>9, <2>1
  <2> QED BY <2>1, <2>2
<1>12. T = 0..N
  <2> HIDE DEF T, N
  <2>1. T \in SUBSET (0..N)
    BY DEF T
  <2> QED BY <1>1, <1>10, <1>11, <2>1, FromZero
<1>13. c[N] = d[N]
  <2>1. N \in 0..N
    BY <1>1
  <2>2. N \in T
    <3> HIDE DEF T, N
    <3> QED BY <1>12, <2>1
  <2> QED BY <2>2
<1>14. Denoise(ev, active) = c[N]
  BY DEF Denoise, c, first
<1> QED BY <1>6, <1>13, <1>14

\* Whatever it keeps, the filter goes through every event.
LEMMA DenoiseShows ==
  ASSUME NEW ev \in Seq(Shots), NEW active \in [Pixels -> Int]
  PROVE  LET r == Denoise(ev, active)
         IN /\ r.active \in [Pixels -> Int] /\ r.out \in Seq(Results) /\ Len(r.out) = Len(ev)
            /\ \A i \in 1..Len(ev) : r.out[i].x = ev[i].x /\ r.out[i].time = ev[i].time
<1>1. PICK d : DenoiseParts(ev, active, d) /\ Denoise(ev, active) = d[Len(ev)]
  BY DenoiseIs
<1> DEFINE N == Len(ev)
           Shown(n) == /\ Len(d[n].out) = n
                       /\ \A i \in 1..n : d[n].out[i].x = ev[i].x /\ d[n].out[i].time = ev[i].time
           T == {n \in 0..N : Shown(n)}
<1>2. N \in Nat /\ (\A n \in 1..N : ev[n] \in Shots) /\ \A n \in 0..N : d[n] \in Filters
  <2>1. d \in [0..N -> Filters]
    BY <1>1 DEF DenoiseParts
  <2>2. N \in Nat /\ \A n \in 1..N : ev[n] \in Shots
    OBVIOUS
  <2> HIDE DEF N
  <2> QED BY <2>1, <2>2
<1>3. 0 \in T
  <2>1. d[0].out = << >>
    BY <1>1 DEF DenoiseParts
  <2> QED BY <1>2, <2>1
<1>4. ASSUME NEW n \in 0..N - 1, n \in T PROVE n + 1 \in T
  <2>1. n \in Nat /\ n \in 0..N /\ n + 1 \in 1..N /\ n + 1 \in 0..N /\ (n + 1) - 1 = n /\ Shown(n)
    BY <1>2, <1>4
  <2>2. d[n + 1] = DenoiseEvent(d[n], ev[n + 1])
    BY <1>1, <2>1 DEF DenoiseParts
  <2>3. d[n] \in Filters /\ ev[n + 1] \in Shots
    BY <1>2, <2>1
  <2> DEFINE o == d[n].out
             r == Judged(d[n].active, ev[n + 1])
  <2>4. d[n + 1].out = Append(o, r) /\ r \in Results
    <3> DEFINE a == d[n]
               e == ev[n + 1]
    <3>1. a \in Filters /\ e \in Shots /\ d[n + 1] = DenoiseEvent(a, e)
      BY <2>2, <2>3
    <3> HIDE DEF a, e
    <3>2. DenoiseEvent(a, e).out = Append(a.out, Judged(a.active, e)) /\ Judged(a.active, e) \in Results
      BY <3>1, DenoiseEventType
    <3> QED BY <3>1, <3>2 DEF a, e
  <2>5. o \in Seq(Results)
    BY <2>3 DEF Filters
  <2>6. r.x = ev[n + 1].x /\ r.time = ev[n + 1].time
    BY DEF Judged
  <2>7. Len(o) = n /\ \A i \in 1..n : o[i].x = ev[i].x /\ o[i].time = ev[i].time
    BY <2>1
  <2> HIDE DEF o, r
  <2> DEFINE p == Append(o, r)
  <2>8. /\ Len(p) = n + 1 /\ p[n + 1] = r
        /\ \A i \in 1..n : p[i] = o[i]
    BY <2>4, <2>5, <2>7
  <2> HIDE DEF p
  <2>9. \A i \in 1..n + 1 : p[i].x = ev[i].x /\ p[i].time = ev[i].time
    <3>1. \A i \in 1..n + 1 : i \in 1..n \/ i = n + 1
      BY <2>1
    <3> QED BY <2>6, <2>7, <2>8, <3>1
  <2>10. d[n + 1].out = p
    BY <2>4 DEF p
  <2> QED BY <2>1, <2>8, <2>9, <2>10
<1>5. T = 0..N
  <2> HIDE DEF T, N
  <2>1. T \in SUBSET (0..N)
    BY DEF T
  <2> QED BY <1>2, <1>3, <1>4, <2>1, FromZero
<1>6. Shown(N) /\ d[N] \in Filters
  <2>1. N \in 0..N
    BY <1>2
  <2>2. N \in T
    <3> HIDE DEF T, N
    <3> QED BY <1>5, <2>1
  <2> QED BY <1>2, <2>1, <2>2
<1> QED BY <1>1, <1>6 DEF Filters

\* active has the last time of every pixel among the events p, unless it has none.
Remembers(p, active) ==
  \A x \in Pixels :
    /\ \A i \in 1..Len(p) : p[i].x = x => p[i].time <= active[x]
    /\ active[x] = Never \/ \E i \in 1..Len(p) : p[i].x = x /\ p[i].time = active[x]

\* The pixels around event i that fired within the time of the filter before it.
Support(p, i) ==
  {p[j].x : j \in {j \in 1..i - 1 : p[i].time - p[j].time <= DenoiseUs}} \cap Near(p[i].x)

Supported(p) == \A i \in 1..Len(p) : p[i].keep <=> Cardinality(Support(p, i)) >= MinNeighbors

\* One event more.
LEMMA JudgedRight ==
  ASSUME NEW p \in Seq(Results), NEW active \in [Pixels -> Int], NEW e \in Shots,
         Remembers(p, active), Supported(p),
         \A i \in 1..Len(p) : p[i].time <= e.time,
         Never < e.time - DenoiseUs
  PROVE  /\ Remembers(Append(p, Judged(active, e)), [active EXCEPT ![e.x] = e.time])
         /\ Supported(Append(p, Judged(active, e)))
<1> DEFINE r == Judged(active, e)
           q == Append(p, r)
           n == Len(p)
           new == [active EXCEPT ![e.x] = e.time]
<1>1. /\ e.x \in Pixels /\ e.time \in Int /\ n \in Nat /\ DenoiseUs \in Int /\ Never \in Int
      /\ \A i \in 1..n : p[i] \in Results
      /\ \A x \in Pixels : active[x] \in Int
  BY PlaybackAssumption DEF Shots, Never
<1>2. \A i \in 1..n : p[i].x \in Pixels /\ p[i].time \in Int
  BY <1>1 DEF Results
<1>3. /\ Len(q) = n + 1 /\ q[n + 1] = r
      /\ \A i \in 1..n : q[i] = p[i]
  BY <1>1
<1>4. r.x = e.x /\ r.time = e.time /\ r.keep = IsActive(active, e.x, e.time - DenoiseUs)
  BY DEF Judged
<1>5. \A i \in 1..n + 1 : i \in 1..n \/ i = n + 1
  BY <1>1
<1>6. /\ new[e.x] = e.time
      /\ \A x \in Pixels : x # e.x => new[x] = active[x]
  BY <1>1
<1>7. n + 1 \in 1..n + 1 /\ \A i \in 1..n : i \in 1..n + 1
  BY <1>1
<1> HIDE DEF r, q, new, n
<1>8. Remembers(q, new)
  <2> SUFFICES ASSUME NEW x \in Pixels
               PROVE  /\ \A i \in 1..n + 1 : q[i].x = x => q[i].time <= new[x]
                      /\ new[x] = Never \/ \E i \in 1..n + 1 : q[i].x = x /\ q[i].time = new[x]
    BY <1>3 DEF Remembers
  <2>1. CASE x = e.x
    <3>1. \A i \in 1..n + 1 : q[i].time <= e.time
      BY <1>1, <1>3, <1>4, <1>5 DEF n
    <3>2. q[n + 1].x = x /\ q[n + 1].time = new[x]
      BY <1>3, <1>4, <1>6, <2>1
    <3> QED BY <1>6, <1>7, <2>1, <3>1, <3>2
  <2>2. CASE x # e.x
    <3>1. \A i \in 1..n : p[i].x = x => p[i].time <= active[x]
      BY DEF Remembers, n
    <3>2. active[x] = Never \/ \E i \in 1..n : p[i].x = x /\ p[i].time = active[x]
      BY DEF Remembers, n
    <3>3. new[x] = active[x] /\ q[n + 1].x # x
      BY <1>3, <1>4, <1>6, <2>2
    <3>4. \A i \in 1..n + 1 : q[i].x = x => q[i].time <= new[x]
      BY <1>3, <1>5, <3>1, <3>3
    <3>5. new[x] = Never \/ \E i \in 1..n + 1 : q[i].x = x /\ q[i].time = new[x]
      BY <1>3, <1>7, <3>2, <3>3
    <3> QED BY <3>4, <3>5
  <2> QED BY <2>1, <2>2
<1>9. Supported(q)
  <2> SUFFICES ASSUME NEW i \in 1..n + 1
               PROVE  q[i].keep <=> Cardinality(Support(q, i)) >= MinNeighbors
    BY <1>3 DEF Supported
  <2>1. \A j \in 1..i - 1 : j \in 1..n /\ q[j] = p[j]
    BY <1>1, <1>3
  <2>2. CASE i \in 1..n
    <3>1. q[i] = p[i]
      BY <1>3, <2>2
    <3>2. Support(q, i) = Support(p, i)
      BY <2>1, <3>1 DEF Support
    <3>3. p[i].keep <=> Cardinality(Support(p, i)) >= MinNeighbors
      BY <2>2 DEF Supported, n
    <3> QED BY <3>1, <3>2, <3>3
  <2>3. CASE i = n + 1
    <3> DEFINE since == e.time - DenoiseUs
               A == {y \in Near(e.x) : active[y] >= since}
               B == {p[j].x : j \in {j \in 1..n : e.time - p[j].time <= DenoiseUs}} \cap Near(e.x)
    <3>1. Support(q, i) = B
      <4>1. i - 1 = n /\ q[i].time = e.time /\ q[i].x = e.x
        BY <1>1, <1>3, <1>4, <2>3
      <4> QED BY <2>1, <4>1 DEF Support
    <3>2. \A y \in Near(e.x) : y \in Pixels
      BY DEF Near, Pixels
    <3>3. ASSUME NEW y \in Near(e.x), active[y] >= since PROVE y \in B
      <4>1. y \in Pixels /\ active[y] \in Int /\ active[y] # Never
        BY <1>1, <3>2, <3>3
      <4>2. PICK j \in 1..n : p[j].x = y /\ p[j].time = active[y]
        BY <4>1 DEF Remembers, n
      <4>3. e.time - p[j].time <= DenoiseUs
        BY <1>1, <3>3, <4>1, <4>2
      <4> QED BY <4>2, <4>3
    <3>4. ASSUME NEW y \in B PROVE y \in Near(e.x) /\ active[y] >= since
      <4>1. PICK j \in 1..n : e.time - p[j].time <= DenoiseUs /\ p[j].x = y /\ y \in Near(e.x)
        OBVIOUS
      <4>2. y \in Pixels /\ active[y] \in Int /\ p[j].time \in Int
        BY <1>1, <1>2, <3>2, <4>1
      <4>3. p[j].time <= active[y]
        BY <4>1, <4>2 DEF Remembers, n
      <4> QED BY <1>1, <4>1, <4>2, <4>3
    <3>5. A = B
      <4> HIDE DEF B
      <4>1. \A y \in A : y \in B
        BY <3>3
      <4>2. \A y \in B : y \in A
        BY <3>4
      <4> QED BY <4>1, <4>2
    <3>6. q[i].keep = (Cardinality(A) >= MinNeighbors)
      BY <1>3, <1>4, <2>3 DEF IsActive
    <3> HIDE DEF A, B
    <3> QED BY <3>1, <3>5, <3>6
  <2> QED BY <1>5, <2>2, <2>3
<1> QED BY <1>8, <1>9 DEF q, r, new

LEMMA ResultsConcat ==
  ASSUME NEW p \in Seq(Results), NEW o \in Seq(Results)
  PROVE  /\ p \o o \in Seq(Results) /\ Len(p \o o) = Len(p) + Len(o)
         /\ \A i \in 1..Len(p) : (p \o o)[i] = p[i]
         /\ \A i \in 1..Len(o) : (p \o o)[Len(p) + i] = o[i]
OBVIOUS

\* A chunk more, in the order of time and after what came before.
LEMMA DenoiseSupports ==
  ASSUME NEW p \in Seq(Results), NEW active \in [Pixels -> Int], NEW ev \in Seq(Shots),
         Remembers(p, active), Supported(p),
         \A i \in 1..Len(p), j \in 1..Len(ev) : p[i].time <= ev[j].time,
         \A i \in 1..Len(ev), j \in 1..Len(ev) : i <= j => ev[i].time <= ev[j].time,
         \A j \in 1..Len(ev) : Never < ev[j].time - DenoiseUs
  PROVE  LET r == Denoise(ev, active)
         IN Remembers(p \o r.out, r.active) /\ Supported(p \o r.out)
<1>1. PICK d : DenoiseParts(ev, active, d) /\ Denoise(ev, active) = d[Len(ev)]
  BY DenoiseIs
<1> DEFINE N == Len(ev)
           P == Len(p)
           Good(n) == /\ Remembers(p \o d[n].out, d[n].active) /\ Supported(p \o d[n].out)
                      /\ Len(d[n].out) = n
                      /\ \A i \in 1..n : d[n].out[i].time = ev[i].time
           T == {n \in 0..N : Good(n)}
<1>2. /\ N \in Nat /\ P \in Nat /\ (\A n \in 1..N : ev[n] \in Shots)
      /\ \A n \in 0..N : d[n] \in Filters
  <2>1. N \in Nat /\ P \in Nat /\ \A n \in 1..N : ev[n] \in Shots
    OBVIOUS
  <2>2. d \in [0..N -> Filters]
    BY <1>1 DEF DenoiseParts
  <2> HIDE DEF N, P
  <2> QED BY <2>1, <2>2
<1>3. 0 \in T
  <2>1. d[0].out = << >> /\ d[0].active = active
    BY <1>1 DEF DenoiseParts
  <2>2. p \o << >> = p
    OBVIOUS
  <2>3. Good(0)
    BY <2>1, <2>2
  <2> HIDE DEF Good
  <2> QED BY <1>2, <2>3
<1>4. ASSUME NEW n \in 0..N - 1, n \in T PROVE n + 1 \in T
  <2>1. n \in Nat /\ n \in 0..N /\ n + 1 \in 1..N /\ n + 1 \in 0..N /\ (n + 1) - 1 = n
    BY <1>2
  <2>2. Good(n)
    <3> HIDE DEF Good
    <3> QED BY <1>4
  <2>3. d[n + 1] = DenoiseEvent(d[n], ev[n + 1])
    BY <1>1, <2>1 DEF DenoiseParts
  <2> DEFINE o == d[n].out
             e == ev[n + 1]
             a == d[n].active
             r == Judged(a, e)
             b == [a EXCEPT ![e.x] = e.time]
             s == p \o o
  <2>4. d[n] \in Filters /\ e \in Shots
    BY <1>2, <2>1
  <2>5. d[n + 1].out = Append(o, r) /\ d[n + 1].active = b /\ r \in Results
    <3> DEFINE f == d[n]
    <3>1. f \in Filters /\ d[n + 1] = DenoiseEvent(f, e)
      BY <2>3, <2>4
    <3> HIDE DEF f, e
    <3>2. /\ DenoiseEvent(f, e).active = [f.active EXCEPT ![e.x] = e.time]
          /\ DenoiseEvent(f, e).out = Append(f.out, Judged(f.active, e))
          /\ Judged(f.active, e) \in Results
      BY <2>4, <3>1, DenoiseEventType
    <3> QED BY <3>1, <3>2 DEF f
  <2>6. o \in Seq(Results) /\ a \in [Pixels -> Int]
    BY <2>4 DEF Filters
  <2>7. r.time = e.time /\ e.time \in Int
    BY <2>4 DEF Judged, Shots
  <2>8. /\ Remembers(s, a) /\ Supported(s) /\ Len(o) = n
        /\ \A i \in 1..n : o[i].time = ev[i].time
    BY <2>2
  <2>9. s \in Seq(Results) /\ Len(s) = P + n
    <3>1. o \in Seq(Results) /\ Len(o) = n
      BY <2>6, <2>8
    <3> HIDE DEF o
    <3> QED BY <3>1, ResultsConcat
  <2>10. \A i \in 1..P + n : s[i].time <= e.time
    <3> TAKE i \in 1..P + n
    <3>1. CASE i <= P
      <4>1. i \in 1..P /\ s[i] = p[i]
        BY <1>2, <2>6, <2>8, <3>1
      <4> HIDE DEF s
      <4> QED BY <2>1, <4>1
    <3>2. CASE i > P
      <4>1. i - P \in 1..n /\ i - P \in 1..N /\ i - P <= n + 1
        BY <1>2, <2>1, <3>2
      <4>2. s[i] = o[i - P]
        BY <1>2, <2>6, <2>8, <3>2, <4>1
      <4> HIDE DEF s, o
      <4>3. s[i].time = ev[i - P].time
        BY <2>8, <4>1, <4>2
      <4>4. ev[i - P].time <= ev[n + 1].time
        BY <2>1, <4>1
      <4> QED BY <4>3, <4>4
    <3>3. P \in Nat /\ i \in Int
      BY <1>2
    <3> HIDE DEF s, P
    <3> QED BY <3>1, <3>2, <3>3
  <2>11. Never < e.time - DenoiseUs
    BY <2>1
  <2> DEFINE t == Append(s, r)
  <2>12. Remembers(t, b) /\ Supported(t)
    <3> HIDE DEF s, e, a
    <3> QED BY <2>4, <2>6, <2>8, <2>9, <2>10, <2>11, JudgedRight
  <2>13. p \o Append(o, r) = t
    <3> HIDE DEF o, r
    <3> QED BY <2>5, <2>6
  <2> HIDE DEF t, b, s, r, a, e
  <2> DEFINE u == Append(o, r)
  <2>14. Len(u) = n + 1 /\ \A i \in 1..n + 1 : u[i].time = ev[i].time
    <3> HIDE DEF o
    <3>1. /\ Len(u) = n + 1 /\ u[n + 1] = r
          /\ \A i \in 1..n : u[i] = o[i]
      BY <2>1, <2>5, <2>6, <2>8
    <3> HIDE DEF u
    <3>2. \A i \in 1..n + 1 : i \in 1..n \/ i = n + 1
      BY <2>1
    <3> QED BY <2>7, <2>8, <3>1, <3>2 DEF e
  <2>15. d[n + 1].out = u
    BY <2>5
  <2>16. p \o u = t
    BY <2>13
  <2> HIDE DEF u, o
  <2>17. Good(n + 1)
    BY <2>5, <2>12, <2>14, <2>15, <2>16
  <2> HIDE DEF Good
  <2> QED BY <2>1, <2>17
<1>5. T = 0..N
  <2> HIDE DEF T, N
  <2>1. T \in SUBSET (0..N)
    BY DEF T
  <2> QED BY <1>2, <1>3, <1>4, <2>1, FromZero
<1>6. Good(N)
  <2>1. N \in 0..N
    BY <1>2
  <2>2. N \in T
    <3> HIDE DEF T, N
    <3> QED BY <1>5, <2>1
  <2> HIDE DEF Good
  <2> QED BY <2>2
<1> QED BY <1>1, <1>6

-----------------------------------------------------------------------------
(***************************************************************************)
(* The frames of the video.                                                *)
(***************************************************************************)

Records == [x : Pixels, ns : Int, tick : Nat]

InTime(r) == \A k \in 1..Len(r), l \in 1..Len(r) : k <= l => r[k].ns <= r[l].ns

\* The records of a file, in the order of their times.
LEMMA ChronologicalIs ==
  ASSUME NEW f \in Seq(Records)
  PROVE  LET r == Chronological(f)
         IN /\ r \in Seq(Records) /\ Len(r) = Len(f) /\ InTime(r)
            /\ \A k \in 1..Len(r) : \E i \in 1..Len(f) : r[k] = f[i]
<1> DEFINE n == Len(f)
           K == [i \in 1..n |-> f[i].ns]
           R == [i \in 1..n |-> 1 + Cardinality({j \in 1..n : f[j].ns < f[i].ns
                                                               \/ (f[j].ns = f[i].ns /\ j < i)})]
           r == Chronological(f)
           place(k) == CHOOSE i \in 1..n : R[i] = k
<1>1. n \in Nat /\ DOMAIN f = 1..n /\ \A i \in 1..n : f[i] \in Records
  OBVIOUS
<1>2. Ranks(K, n, R)
  <2>1. \A i \in 1..n : f[i].ns \in Int
    BY <1>1 DEF Records
  <2>2. K \in [1..n -> Int]
    BY <2>1
  <2>3. \A i \in 1..n : {j \in 1..n : f[j].ns < f[i].ns \/ (f[j].ns = f[i].ns /\ j < i)}
                          = {j \in 1..n : Precedes(K, j, i)}
    BY DEF Precedes
  <2> HIDE DEF K
  <2>4. R = [i \in 1..n |-> 1 + Cardinality({j \in 1..n : Precedes(K, j, i)})]
    BY <2>3
  <2> HIDE DEF R
  <2> QED BY <1>1, <2>2, <2>4 DEF Ranks
<1>3. r = [k \in 1..n |-> f[place(k)]]
  BY <1>1 DEF Chronological, SortedBy
<1> HIDE DEF R, r
<1>4. /\ R \in [1..n -> 1..n]
      /\ \A k \in 1..n : \E i \in 1..n : R[i] = k
      /\ \A i \in 1..n, j \in 1..n : R[i] <= R[j] => K[i] <= K[j]
  <2> HIDE DEF K, n
  <2> QED BY <1>2, RankIsOrder
<1>5. \A k \in 1..n : place(k) \in 1..n /\ R[place(k)] = k
  BY <1>4
<1> HIDE DEF place, n
<1>6. r \in Seq(Records) /\ Len(r) = n /\ \A k \in 1..n : r[k] = f[place(k)]
  <2>1. \A k \in 1..n : f[place(k)] \in Records
    BY <1>1, <1>5
  <2> QED BY <1>1, <1>3, <2>1
<1>7. InTime(r)
  <2> SUFFICES ASSUME NEW k \in 1..n, NEW l \in 1..n, k <= l PROVE r[k].ns <= r[l].ns
    BY <1>6 DEF InTime
  <2>1. place(k) \in 1..n /\ place(l) \in 1..n /\ R[place(k)] <= R[place(l)]
    BY <1>5
  <2>2. K[place(k)] <= K[place(l)]
    BY <1>4, <2>1
  <2> QED BY <1>6, <2>1, <2>2
<1>8. \A k \in 1..Len(r) : \E i \in 1..n : r[k] = f[i]
  BY <1>5, <1>6
<1> QED BY <1>6, <1>7, <1>8 DEF n, r

\* How many records come before frame k.
Before(r, k) == SearchLeft([i \in DOMAIN r |-> r[i].ns], r[1].ns + k * DeltaT)

LEMMA LastFrame ==
  ASSUME NEW a \in Int, NEW d \in Nat \ {0}, NEW k \in Int, k >= a \div d + 1
  PROVE  a < k * d
<1> DEFINE q == a \div d
<1>1. q \in Int /\ a < (q + 1) * d
  OBVIOUS
<1> HIDE DEF q
<1>2. k >= q + 1
  BY DEF q
<1>3. (k - (q + 1)) * d >= 0
  <2>1. k - (q + 1) \in Nat
    BY <1>1, <1>2
  <2> QED BY <2>1
<1>4. k * d = (k - (q + 1)) * d + (q + 1) * d
  BY <1>1
<1> QED BY <1>1, <1>3, <1>4

\* The frames follow each other without a gap, from the first record to the last.
LEMMA FramesTile ==
  ASSUME NEW r \in Seq(Records), Len(r) > 0, InTime(r), NEW k \in Nat
  PROVE  /\ Before(r, 0) = 0 /\ Before(r, k) \in 0..Len(r) /\ Before(r, k + 1) \in 0..Len(r)
         /\ Before(r, k) <= Before(r, k + 1)
         /\ VideoChunk(r, k) = SubSeq(r, Before(r, k) + 1, Before(r, k + 1))
         /\ VideoChunks(r) \in Nat \ {0}
         /\ k >= VideoChunks(r) => Before(r, k) = Len(r)
<1> DEFINE n == Len(r)
           ts == [i \in DOMAIN r |-> r[i].ns]
           V(m) == r[1].ns + m * DeltaT
<1>1. n \in Nat \ {0} /\ DOMAIN r = 1..n /\ 1 \in 1..n /\ n \in 1..n /\ DeltaT \in Nat \ {0}
  BY PlaybackAssumption
<1>2. \A i \in 1..n : r[i].ns \in Int
  <2>1. \A i \in 1..n : r[i] \in Records
    BY <1>1
  <2> QED BY <2>1 DEF Records
<1>3. /\ ts \in Seq(Int) /\ Len(ts) = n /\ (\A i \in 1..n : ts[i] = r[i].ns)
      /\ \A i \in 1..n, j \in 1..n : i <= j => ts[i] <= ts[j]
  <2>1. ts \in Seq(Int) /\ Len(ts) = n /\ \A i \in 1..n : ts[i] = r[i].ns
    BY <1>1, <1>2
  <2> HIDE DEF ts
  <2> QED BY <2>1 DEF InTime
<1>4. \A m \in Nat : Before(r, m) = SearchLeft(ts, V(m)) /\ V(m) \in Int
  <2> TAKE m \in Nat
  <2>1. m * DeltaT \in Int
    BY <1>1
  <2>2. Before(r, m) = SearchLeft(ts, V(m))
    BY DEF Before
  <2> QED BY <1>1, <1>2, <2>1, <2>2
<1> HIDE DEF ts
<1>5. \A m \in Nat : /\ Before(r, m) \in 0..n
                     /\ \A i \in 1..n : i <= Before(r, m) <=> r[i].ns < V(m)
  <2> TAKE m \in Nat
  <2> DEFINE v == V(m)
  <2>1. v \in Int /\ Before(r, m) = SearchLeft(ts, v)
    BY <1>4
  <2> HIDE DEF v, n
  <2>2. /\ SearchLeft(ts, v) \in 0..Len(ts)
        /\ \A i \in 1..Len(ts) : i <= SearchLeft(ts, v) <=> ts[i] < v
    BY <1>3, <2>1, SearchIs
  <2> QED BY <1>3, <2>1, <2>2 DEF v
<1>6. Before(r, 0) = 0
  <2>1. V(0) = r[1].ns /\ 0 \in Nat
    BY <1>1, <1>2
  <2>2. ~(1 <= Before(r, 0))
    <3>1. 1 <= Before(r, 0) <=> r[1].ns < V(0)
      <4> HIDE DEF V, n
      <4> QED BY <1>1, <1>5, <2>1
    <3>2. r[1].ns \in Int
      BY <1>1, <1>2
    <3> HIDE DEF V
    <3> QED BY <2>1, <3>1, <3>2
  <2>3. Before(r, 0) \in 0..n
    BY <1>5, <2>1
  <2> QED BY <1>1, <2>2, <2>3
<1>7. V(k) <= V(k + 1)
  <2>1. (k + 1) * DeltaT = k * DeltaT + DeltaT /\ k * DeltaT \in Int
    BY <1>1
  <2> HIDE DEF n
  <2> QED BY <1>1, <1>2, <2>1
<1>8. Before(r, k) <= Before(r, k + 1)
  <2> DEFINE b == Before(r, k)
             c == Before(r, k + 1)
  <2>1. /\ b \in 0..n /\ \A i \in 1..n : i <= b <=> r[i].ns < V(k)
        /\ c \in 0..n /\ \A i \in 1..n : i <= c <=> r[i].ns < V(k + 1)
    <3>1. k + 1 \in Nat
      OBVIOUS
    <3> HIDE DEF n, V
    <3> QED BY <1>5, <3>1
  <2>2. V(k) \in Int /\ V(k + 1) \in Int
    <3>1. k + 1 \in Nat
      OBVIOUS
    <3> HIDE DEF n, V
    <3> QED BY <1>4, <3>1
  <2> SUFFICES b <= c
    OBVIOUS
  <2> HIDE DEF b, c
  <2>3. CASE b = 0
    BY <1>1, <2>1, <2>3
  <2>4. CASE b # 0
    <3>1. b \in 1..n /\ b <= b
      BY <1>1, <2>1, <2>4
    <3>2. r[b].ns < V(k) /\ r[b].ns \in Int
      <4> HIDE DEF n, V
      <4> QED BY <1>2, <2>1, <3>1
    <3>3. r[b].ns < V(k + 1)
      <4> HIDE DEF V
      <4> QED BY <1>7, <2>2, <3>2
    <3> HIDE DEF V, n
    <3> QED BY <2>1, <3>1, <3>3
  <2> QED BY <2>3, <2>4
<1>9. VideoChunk(r, k) = SubSeq(r, Before(r, k) + 1, Before(r, k + 1))
  <2>1. ts[1] = r[1].ns
    BY <1>1, <1>3
  <2> QED BY <2>1 DEF VideoChunk, Before, ts
<1>10. r[n].ns - r[1].ns \in Nat
  <2>1. r[1].ns <= r[n].ns /\ r[1].ns \in Int /\ r[n].ns \in Int
    BY <1>1, <1>2 DEF InTime
  <2> QED BY <2>1
<1>11. /\ VideoChunks(r) \in Nat \ {0}
       /\ VideoChunks(r) >= (r[n].ns - r[1].ns) \div DeltaT + 1
  <2> DEFINE a == r[n].ns - r[1].ns
  <2>1. a \div DeltaT \in Nat
    <3> HIDE DEF a
    <3> QED BY <1>1, <1>10 DEF a
  <2>2. VideoChunks(r) = IF a \div DeltaT + 1 > 1 THEN a \div DeltaT + 1 ELSE 1
    BY DEF VideoChunks, Later, Last
  <2> HIDE DEF a
  <2> QED BY <2>1, <2>2 DEF a
<1>12. ASSUME k >= VideoChunks(r) PROVE Before(r, k) = n
  <2>1. k >= (r[n].ns - r[1].ns) \div DeltaT + 1
    <3> DEFINE q == (r[n].ns - r[1].ns) \div DeltaT + 1
    <3>1. q \in Int /\ VideoChunks(r) >= q /\ VideoChunks(r) \in Int
      BY <1>1, <1>10, <1>11
    <3> HIDE DEF q
    <3>2. k >= q
      BY <1>12, <3>1
    <3> QED BY <3>2 DEF q
  <2>2. r[n].ns - r[1].ns < k * DeltaT
    <3> DEFINE a == r[n].ns - r[1].ns
    <3>1. a \in Int /\ k \in Int
      BY <1>10
    <3> HIDE DEF a
    <3>2. k >= a \div DeltaT + 1
      BY <2>1 DEF a
    <3>3. a < k * DeltaT
      BY <1>1, <3>1, <3>2, LastFrame
    <3> QED BY <3>3 DEF a
  <2>3. r[n].ns < V(k)
    <3>1. k * DeltaT \in Int /\ r[n].ns \in Int /\ r[1].ns \in Int
      BY <1>1, <1>2
    <3> QED BY <2>2, <3>1
  <2>4. n <= Before(r, k) /\ Before(r, k) \in 0..n
    <3> HIDE DEF V
    <3> QED BY <1>1, <1>5, <2>3
  <2> QED BY <1>1, <2>4
<1> QED BY <1>5, <1>6, <1>8, <1>9, <1>11, <1>12

-----------------------------------------------------------------------------
(***************************************************************************)
(* The recording of an event camera.                                       *)
(***************************************************************************)

\* No event is before one of a chunk before, or before one ahead of it in its own.
ChunksInTime(cs) ==
  \A i \in 1..Len(cs), j \in 1..Len(cs) :
    \A k \in 1..Len(cs[i]), l \in 1..Len(cs[j]) :
      (i < j \/ (i = j /\ k <= l)) => cs[i][k].t <= cs[j][l].t

EventInv ==
  /\ chunks \in Seq(Seq(Decoded)) /\ file \in Seq(Records) /\ ChunksInTime(chunks)
  /\ kind # "event" => chunks = << >> /\ file = << >>
  /\ kind = "event" => anchor \in Anchors /\ now \in Int

\* A set of places has a last one.
LEMMA HighestIs ==
  ASSUME NEW n \in Nat, NEW S \in SUBSET (1..n), S # {}
  PROVE  Max(S) \in S /\ \A i \in S : i <= Max(S)
<1> DEFINE Has(m) == (\E i \in S : i <= m) =>
                       \E h \in S : h <= m /\ \A i \in S : i <= m => i <= h
           T == {m \in 0..n : Has(m)}
<1>1. \A i \in S : i \in 1..n /\ i \in Int
  OBVIOUS
<1>2. 0 \in T
  <2>1. \A i \in S : ~(i <= 0)
    BY <1>1
  <2> QED BY <2>1
<1>3. ASSUME NEW m \in 0..n - 1, m \in T PROVE m + 1 \in T
  <2>1. m \in Int /\ m + 1 \in 0..n /\ Has(m)
    BY <1>3
  <2>2. \A i \in S : i <= m + 1 <=> (i <= m \/ i = m + 1)
    BY <1>1, <2>1
  <2>3. CASE m + 1 \in S
    <3>1. \A i \in S : i <= m + 1 => i <= m + 1
      OBVIOUS
    <3>2. Has(m + 1)
      BY <2>1, <2>3, <3>1
    <3> QED BY <2>1, <3>2
  <2>4. CASE m + 1 \notin S
    <3>1. \A i \in S : i <= m + 1 <=> i <= m
      BY <2>2, <2>4
    <3>2. Has(m + 1)
      BY <2>1, <3>1
    <3> QED BY <2>1, <3>2
  <2> QED BY <2>3, <2>4
<1>4. T = 0..n
  <2> HIDE DEF T
  <2>1. T \in SUBSET (0..n)
    BY DEF T
  <2> QED BY <1>2, <1>3, <2>1, FromZero
<1>5. Has(n)
  <2>1. n \in 0..n
    OBVIOUS
  <2>2. n \in T
    <3> HIDE DEF T
    <3> QED BY <1>4, <2>1
  <2> QED BY <2>2
<1>6. \A i \in S : i <= n
  BY <1>1
<1>7. PICK h \in S : \A i \in S : i <= h
  <2>1. \E i \in S : i <= n
    BY <1>6
  <2> QED BY <1>5, <1>6, <2>1
<1>8. \E x \in S : \A y \in S : x >= y
  BY <1>1, <1>7
<1>9. Max(S) \in S /\ \A y \in S : Max(S) >= y
  BY <1>8 DEF Max
<1> QED BY <1>1, <1>9

\* LastTick is the time of the last event, and none is after it.
LEMMA LastTickIs ==
  ASSUME chunks \in Seq(Seq(Decoded)), ChunksInTime(chunks)
  PROVE  /\ LastTick \in Nat
         /\ \A i \in 1..Len(chunks) : \A k \in 1..Len(chunks[i]) : chunks[i][k].t <= LastTick
<1> DEFINE n == Len(chunks)
           h == Max(Filled)
           m == Len(chunks[h])
<1>1. n \in Nat /\ Filled \in SUBSET (1..n) /\ \A i \in 1..n : chunks[i] \in Seq(Decoded)
  BY DEF Filled
<1>2. CASE Filled = {}
  <2>1. \A i \in 1..n : Len(chunks[i]) = 0
    BY <1>2 DEF Filled
  <2>2. LastTick = 0
    BY <1>2 DEF LastTick
  <2> QED BY <2>1, <2>2
<1>3. CASE Filled # {}
  <2>1. h \in Filled /\ \A i \in Filled : i <= h
    <3> HIDE DEF n
    <3> QED BY <1>1, <1>3, HighestIs
  <2> HIDE DEF h
  <2>2. h \in 1..n /\ chunks[h] \in Seq(Decoded) /\ chunks[h] # << >>
    BY <1>1, <2>1 DEF Filled
  <2>3. m \in 1..m /\ chunks[h][m] \in Decoded /\ m \in Nat
    BY <2>2
  <2>4. LastTick = chunks[h][m].t
    BY <1>3 DEF LastTick, Last, h
  <2>5. ASSUME NEW i \in 1..n, NEW k \in 1..Len(chunks[i]) PROVE chunks[i][k].t <= LastTick
    <3>1. chunks[i] \in Seq(Decoded) /\ chunks[i] # << >> /\ Len(chunks[i]) \in Nat /\ k <= Len(chunks[i])
      BY <1>1, <2>5
    <3>2. i \in Filled
      BY <3>1 DEF Filled
    <3>3. i <= h /\ i \in Int /\ h \in Int
      BY <1>1, <2>1, <2>2, <3>2
    <3>4. i < h \/ (i = h /\ k <= m)
      BY <3>1, <3>3
    <3> HIDE DEF n, m
    <3>5. chunks[i][k].t <= chunks[h][m].t
      BY <2>2, <2>3, <3>4 DEF ChunksInTime, n, m
    <3> QED BY <2>4, <3>5
  <2> QED BY <2>3, <2>4, <2>5 DEF Decoded
<1> QED BY <1>2, <1>3

\* A chunk as the camera can deliver one.
LEMMA ChunkIs ==
  ASSUME LastTick \in Nat, NEW c \in Chunks, InOrder(c)
  PROVE  /\ c \in Seq(Decoded)
         /\ \A k \in 1..Len(c) : LastTick <= c[k].t
         /\ \A k \in 1..Len(c), l \in 1..Len(c) : k <= l => c[k].t <= c[l].t
<1>1. MaxTick \in Nat /\ \A x \in 0..Width, t \in LastTick..MaxTick :
        Event(x, t) \in Decoded /\ LastTick <= Event(x, t).t
  BY TimelineAssumption DEF Event, Decoded
<1>2. CASE c = << >>
  BY <1>2
<1>3. CASE \E x \in 0..Width, t \in LastTick..MaxTick : c = <<Event(x, t)>>
  <2>1. PICK x \in 0..Width, t \in LastTick..MaxTick : c = <<Event(x, t)>>
    BY <1>3
  <2> DEFINE e == Event(x, t)
  <2>2. e \in Decoded /\ LastTick <= e.t /\ c = <<e>>
    BY <1>1, <2>1
  <2> HIDE DEF e
  <2>3. e.t \in Nat
    BY <2>2 DEF Decoded
  <2> QED BY <2>2, <2>3
<1>4. CASE \E x \in 0..Width, y \in 0..Width, t \in LastTick..MaxTick, u \in LastTick..MaxTick :
             c = <<Event(x, t), Event(y, u)>>
  <2>1. PICK x \in 0..Width, y \in 0..Width, t \in LastTick..MaxTick, u \in LastTick..MaxTick :
          c = <<Event(x, t), Event(y, u)>>
    BY <1>4
  <2> DEFINE e == Event(x, t)
             f == Event(y, u)
  <2>2. e \in Decoded /\ LastTick <= e.t /\ f \in Decoded /\ LastTick <= f.t /\ c = <<e, f>>
    BY <1>1, <2>1
  <2> HIDE DEF e, f
  <2>3. e.t \in Nat /\ f.t \in Nat
    BY <2>2 DEF Decoded
  <2>4. c \in Seq(Decoded) /\ Len(c) = 2 /\ c[1] = e /\ c[2] = f
    BY <2>2
  <2>5. 1 \in 1..Len(c) - 1 /\ 1 + 1 = 2
    BY <2>4
  <2>6. e.t <= f.t
    BY <2>4, <2>5 DEF InOrder
  <2>7. \A k \in 1..Len(c) : k = 1 \/ k = 2
    BY <2>4
  <2> QED BY <2>2, <2>3, <2>4, <2>6, <2>7
<1> QED BY <1>2, <1>3, <1>4 DEF Chunks

LEMMA ChunkAppended ==
  ASSUME chunks \in Seq(Seq(Decoded)), ChunksInTime(chunks), NEW c \in Chunks, InOrder(c)
  PROVE  Append(chunks, c) \in Seq(Seq(Decoded)) /\ ChunksInTime(Append(chunks, c))
<1> DEFINE n == Len(chunks)
           r == Append(chunks, c)
<1>1. /\ LastTick \in Nat
      /\ \A i \in 1..n : \A k \in 1..Len(chunks[i]) : chunks[i][k].t <= LastTick
  BY LastTickIs
<1>2. /\ c \in Seq(Decoded)
      /\ \A k \in 1..Len(c) : LastTick <= c[k].t
      /\ \A k \in 1..Len(c), l \in 1..Len(c) : k <= l => c[k].t <= c[l].t
  BY <1>1, ChunkIs
<1>3. /\ n \in Nat /\ r \in Seq(Seq(Decoded)) /\ Len(r) = n + 1 /\ r[n + 1] = c
      /\ \A i \in 1..n : r[i] = chunks[i] /\ chunks[i] \in Seq(Decoded)
  BY <1>2
<1> HIDE DEF r, n
<1>4. ChunksInTime(r)
  <2> SUFFICES ASSUME NEW i \in 1..n + 1, NEW j \in 1..n + 1, NEW k \in 1..Len(r[i]), NEW l \in 1..Len(r[j]),
                      i < j \/ (i = j /\ k <= l)
               PROVE  r[i][k].t <= r[j][l].t
    BY <1>3 DEF ChunksInTime
  <2>1. (i \in 1..n \/ i = n + 1) /\ (j \in 1..n \/ j = n + 1)
    BY <1>3
  <2>2. CASE i \in 1..n /\ j \in 1..n
    BY <1>3, <2>2 DEF ChunksInTime, n
  <2>3. CASE i \in 1..n /\ j = n + 1
    <3>1. chunks[i][k].t <= LastTick /\ LastTick <= c[l].t /\ r[i][k] = chunks[i][k] /\ r[j][l] = c[l]
      BY <1>1, <1>2, <1>3, <2>3
    <3>2. chunks[i][k] \in Decoded /\ c[l] \in Decoded
      BY <1>2, <1>3, <2>3
    <3>3. chunks[i][k].t \in Nat /\ c[l].t \in Nat
      BY <3>2 DEF Decoded
    <3> DEFINE a == chunks[i][k].t
               e == c[l].t
    <3>4. a <= LastTick /\ LastTick <= e /\ a \in Nat /\ e \in Nat /\ LastTick \in Nat
      BY <1>1, <3>1, <3>3
    <3>5. r[i][k].t = a /\ r[j][l].t = e
      BY <3>1
    <3> HIDE DEF a, e
    <3> QED BY <3>4, <3>5
  <2>4. CASE i = n + 1
    <3>1. j = n + 1 /\ k <= l
      BY <1>3, <2>4
    <3> QED BY <1>2, <1>3, <2>4, <3>1
  <2> QED BY <2>1, <2>2, <2>3, <2>4
<1> QED BY <1>3, <1>4 DEF r

LEMMA RecordsConcat ==
  ASSUME NEW p \in Seq(Records), NEW o \in Seq(Records)
  PROVE  p \o o \in Seq(Records)
OBVIOUS

LEMMA StreamKeeps == EventInv /\ StreamChunk => EventInv'
<1> SUFFICES ASSUME EventInv, StreamChunk PROVE EventInv'
  OBVIOUS
<1>1. PICK chunk \in Chunks, latency \in Latencies :
        /\ InOrder(chunk) /\ chunks' = Append(chunks, chunk)
        /\ LET valid == Valid(chunk)
               reference == Last(valid).t
               observed == Observed(reference * NsPerTick, latency)
               after == Observe(anchor, reference, observed)
               host == HostNs(anchor, reference, observed)
               HostTime(e) == host + ((e.t - reference) * after.rate[1]) \div after.rate[2]
           IN IF valid = << >>
                THEN UNCHANGED <<anchor, now, file>>
                ELSE /\ anchor' = after /\ now' = observed
                     /\ file' = file \o [i \in 1..Len(valid) |->
                                           [x |-> valid[i].x, ns |-> HostTime(valid[i]),
                                            tick |-> valid[i].t]]
  BY DEF StreamChunk
<1>2. kind = "event" /\ kind' = kind
  BY DEF StreamChunk
<1>3. chunks' \in Seq(Seq(Decoded)) /\ ChunksInTime(chunks')
  BY <1>1, ChunkAppended DEF EventInv
<1> DEFINE valid == Valid(chunk)
           reference == Last(valid).t
           observed == Observed(reference * NsPerTick, latency)
           after == Observe(anchor, reference, observed)
           host == HostNs(anchor, reference, observed)
           ns(i) == host + ((valid[i].t - reference) * after.rate[1]) \div after.rate[2]
           more == [i \in 1..Len(valid) |-> [x |-> valid[i].x, ns |-> ns(i), tick |-> valid[i].t]]
<1>4. valid \in Seq(Inside)
  <2>1. chunk \in Seq(Decoded)
    BY <1>1, LastTickIs, ChunkIs DEF EventInv
  <2> QED BY <2>1, ValidKeeps
<1> HIDE DEF valid
<1>5. CASE valid = << >>
  <2>1. anchor' = anchor /\ now' = now /\ file' = file
    BY <1>1, <1>5 DEF valid
  <2> QED BY <1>2, <1>3, <2>1 DEF EventInv
<1>6. CASE valid # << >>
  <2>1. Len(valid) \in Nat /\ Len(valid) \in 1..Len(valid) /\ \A i \in 1..Len(valid) : valid[i] \in Inside
    BY <1>4, <1>6
  <2>2. \A i \in 1..Len(valid) : valid[i].x \in Pixels /\ valid[i].t \in Nat
    BY <2>1 DEF Inside, Pixels
  <2>3. reference \in Nat
    BY <2>1, <2>2 DEF Last
  <2>4. anchor \in Anchors /\ now \in Int /\ latency \in Nat /\ NsPerTick \in Nat
    BY <1>2, TimelineAssumption DEF EventInv
  <2> HIDE DEF reference
  <2>5. observed \in Int
    <3>1. reference * NsPerTick + latency \in Int
      BY <2>3, <2>4
    <3> QED BY <2>4, <3>1 DEF Observed, Later
  <2> HIDE DEF observed
  <2>6. after \in Anchors /\ host \in Int
    BY <2>3, <2>4, <2>5, ObserveType
  <2> HIDE DEF after, host
  <2>7. after.rate[1] \in Int /\ after.rate[2] \in Nat \ {0}
    <3>1. after.rate \in Int \X (Nat \ {0})
      BY <2>6, AnchorFields
    <3> QED BY <3>1
  <2>8. \A i \in 1..Len(valid) : ns(i) \in Int
    <3> TAKE i \in 1..Len(valid)
    <3> DEFINE num == (valid[i].t - reference) * after.rate[1]
               den == after.rate[2]
    <3>1. num \in Int /\ den \in Nat \ {0}
      BY <2>2, <2>3, <2>7
    <3> HIDE DEF num, den
    <3>2. num \div den \in Int
      BY <3>1
    <3>3. host + num \div den \in Int
      BY <2>6, <3>2
    <3> QED BY <3>3 DEF num, den
  <2> HIDE DEF ns
  <2>9. more \in Seq(Records)
    <3>1. \A i \in 1..Len(valid) : [x |-> valid[i].x, ns |-> ns(i), tick |-> valid[i].t] \in Records
      BY <2>2, <2>8 DEF Records
    <3> QED BY <2>1, <3>1
  <2>10. anchor' = after /\ now' = observed /\ file' = file \o more
    BY <1>1, <1>6 DEF valid, reference, observed, after, host, ns
  <2> HIDE DEF more
  <2>11. file' \in Seq(Records)
    BY <2>9, <2>10, RecordsConcat DEF EventInv
  <2> QED BY <1>2, <1>3, <2>5, <2>6, <2>10, <2>11 DEF EventInv
<1> QED BY <1>5, <1>6

-----------------------------------------------------------------------------
(***************************************************************************)
(* The readers.                                                            *)
(***************************************************************************)

ReadingType ==
  /\ mode \in {"recording", "reading", "finalizing", "done"}
  /\ reader \in {"visualize_dataset", "visualize_events"}
  /\ at \in Nat /\ played \in Seq(Results) /\ invalid \in Nat /\ lastActive \in [Pixels -> Int]
  /\ mode = "recording" => /\ at = 0 /\ played = << >> /\ invalid = 0
                           /\ lastActive = [x \in Pixels |-> Never]
  /\ mode = "reading" => kind = "event" /\ (reader = "visualize_dataset" => file # << >>)
  /\ mode = "finalizing" => reader = "visualize_dataset" /\ file # << >>

\* The files of the video, and what is rendered by then.
VideoInv ==
  LET frames == VideoChunks(Chronological(file))
  IN /\ (mode = "recording" \/ reader = "visualize_events") => video.intermediate = "none"
     /\ (mode = "reading" /\ reader = "visualize_dataset" /\ at > 0) => video.intermediate = "mp4v"
     /\ mode = "finalizing" => video.intermediate = "mp4v" /\ at >= frames
     /\ mode = "done" => video.intermediate = "none"
     /\ (mode = "done" /\ reader = "visualize_dataset" /\ file # << >>) =>
          video.final \in {"mp4v", "h264"} /\ at >= frames

\* What the frames before frame k show is the records before it.
ShownTo(r, k, p) == /\ Len(p) = Before(r, k)
                    /\ \A i \in 1..Len(p) : p[i].x = r[i].x /\ p[i].time = r[i].ns

FramesShown == (reader = "visualize_dataset" /\ mode # "recording" /\ file # << >>) =>
                 ShownTo(Chronological(file), at, played)

\* What came out of the first k chunks is their valid events, and not after what follows.
ReadTo(cs, k, p, skipped) ==
  LET decoded == FlattenSeq(SubSeq(cs, 1, k))
      valid == Valid(decoded)
  IN /\ k <= Len(cs) /\ Len(p) = Len(valid) /\ Len(p) + skipped = Len(decoded)
     /\ \A i \in 1..Len(p) : p[i].x = valid[i].x
     /\ \A i \in 1..Len(p), c \in 1..Len(cs) : c > k =>
          \A j \in 1..Len(cs[c]) : p[i].time <= cs[c][j].t

EventsShown == reader = "visualize_events" => ReadTo(chunks, at, played, invalid)

\* No time is so early that the filter takes a pixel that never fired for a recent one.
TimesAreLate ==
  IF reader = "visualize_events" THEN Never < -DenoiseUs
  ELSE \A i \in 1..Len(file) : Never < file[i].ns - DenoiseUs

FilterInv == (mode # "recording" /\ TimesAreLate) => Remembers(played, lastActive) /\ Supported(played)

ReadInv == EventInv /\ ReadingType /\ VideoInv /\ FramesShown /\ EventsShown /\ FilterInv

\* A frame more.
FrameEvents(r, k) ==
  LET chunk == VideoChunk(r, k) IN [i \in DOMAIN chunk |-> [x |-> chunk[i].x, time |-> chunk[i].ns]]

LEMMA FrameIs ==
  ASSUME NEW r \in Seq(Records), Len(r) > 0, InTime(r), NEW k \in Nat
  PROVE  LET ev == FrameEvents(r, k)
             b == Before(r, k)
         IN /\ ev \in Seq(Shots) /\ b \in 0..Len(r) /\ b + Len(ev) = Before(r, k + 1)
            /\ \A i \in 1..Len(ev) : /\ b + i \in 1..Len(r) /\ ev[i].x = r[b + i].x
                                     /\ ev[i].time = r[b + i].ns
<1> DEFINE b == Before(r, k)
           c == Before(r, k + 1)
           s == SubSeq(r, b + 1, c)
           ev == FrameEvents(r, k)
<1>1. b \in 0..Len(r) /\ c \in 0..Len(r) /\ b <= c /\ VideoChunk(r, k) = s
  BY FramesTile
<1> HIDE DEF b, c
<1>2. /\ Len(r) \in Nat /\ b \in Int /\ c \in Int /\ c - b \in Nat
      /\ \A i \in 1..c - b : b + i \in 1..Len(r) /\ r[b + i] \in Records
  BY <1>1
<1>3. s \in Seq(Records) /\ Len(s) = c - b /\ \A i \in 1..c - b : s[i] = r[b + i]
  BY <1>1, <1>2
<1> HIDE DEF s
<1>4. ev = [i \in 1..c - b |-> [x |-> r[b + i].x, time |-> r[b + i].ns]]
  <2>1. DOMAIN s = 1..c - b
    BY <1>3
  <2>2. ev = [i \in DOMAIN s |-> [x |-> s[i].x, time |-> s[i].ns]]
    BY <1>1 DEF FrameEvents
  <2> QED BY <1>3, <2>1, <2>2
<1> HIDE DEF ev
<1>5. \A i \in 1..c - b : [x |-> r[b + i].x, time |-> r[b + i].ns] \in Shots
  BY <1>2 DEF Records, Shots
<1>6. ev \in Seq(Shots) /\ Len(ev) = c - b
  <2> DEFINE m == c - b
             Shot(i) == [x |-> r[b + i].x, time |-> r[b + i].ns]
  <2>1. m \in Nat /\ ev = [i \in 1..m |-> Shot(i)] /\ \A i \in 1..m : Shot(i) \in Shots
    BY <1>2, <1>4, <1>5
  <2> HIDE DEF m, Shot
  <2>2. ev \in Seq(Shots) /\ Len(ev) = m
    BY <2>1
  <2> QED BY <2>2 DEF m
<1>7. \A i \in 1..c - b : ev[i].x = r[b + i].x /\ ev[i].time = r[b + i].ns
  BY <1>4
<1>8. b + Len(ev) = c
  BY <1>2, <1>6
<1> QED BY <1>1, <1>2, <1>6, <1>7, <1>8 DEF b, c, ev

LEMMA FrameStep ==
  ASSUME NEW f \in Seq(Records), f # << >>, NEW k \in Nat, NEW p \in Seq(Results),
         NEW active \in [Pixels -> Int], ShownTo(Chronological(f), k, p)
  PROVE  LET ev == FrameEvents(Chronological(f), k)
             o == Denoise(ev, active)
         IN /\ ev \in Seq(Shots)
            /\ ShownTo(Chronological(f), k + 1, p \o o.out)
            /\ ((\A i \in 1..Len(f) : Never < f[i].ns - DenoiseUs) /\ Remembers(p, active) /\ Supported(p)) =>
                 Remembers(p \o o.out, o.active) /\ Supported(p \o o.out)
<1> DEFINE r == Chronological(f)
           ev == FrameEvents(r, k)
           b == Before(r, k)
           o == Denoise(ev, active)
           n == Len(ev)
<1>1. /\ r \in Seq(Records) /\ Len(r) > 0 /\ InTime(r)
      /\ \A j \in 1..Len(r) : \E i \in 1..Len(f) : r[j] = f[i]
  <2>1. Len(f) > 0
    OBVIOUS
  <2> QED BY <2>1, ChronologicalIs
<1> HIDE DEF r
<1>2. /\ ev \in Seq(Shots) /\ b \in 0..Len(r) /\ b + n = Before(r, k + 1)
      /\ \A i \in 1..n : b + i \in 1..Len(r) /\ ev[i].x = r[b + i].x /\ ev[i].time = r[b + i].ns
  BY <1>1, FrameIs
<1>3. Len(p) = b /\ \A i \in 1..b : p[i].x = r[i].x /\ p[i].time = r[i].ns
  BY DEF ShownTo, r
<1> HIDE DEF ev, b
<1>4. /\ o.out \in Seq(Results) /\ Len(o.out) = n
      /\ \A i \in 1..n : o.out[i].x = ev[i].x /\ o.out[i].time = ev[i].time
  BY <1>2, DenoiseShows
<1>5. n \in Nat /\ b \in Nat /\ b \in Int
  BY <1>1, <1>2
<1>6. ShownTo(r, k + 1, p \o o.out)
  <2> DEFINE out == o.out
             q == p \o out
  <2> HIDE DEF o
  <2>1. out \in Seq(Results) /\ Len(out) = n
    BY <1>4
  <2> HIDE DEF out, n
  <2>2. /\ Len(q) = b + n /\ \A i \in 1..b : q[i] = p[i]
        /\ \A i \in 1..n : q[b + i] = out[i]
    BY <1>3, <2>1, ResultsConcat
  <2> HIDE DEF q
  <2>3. ASSUME NEW i \in 1..b + n PROVE q[i].x = r[i].x /\ q[i].time = r[i].ns
    <3>1. CASE i \in 1..b
      BY <1>3, <2>2, <3>1
    <3>2. CASE i \notin 1..b
      <4> DEFINE j == i - b
      <4>1. j \in 1..n /\ b + j = i
        BY <1>5, <3>2
      <4> HIDE DEF j
      <4>2. q[b + j] = out[j]
        BY <2>2, <4>1
      <4>3. out[j].x = r[b + j].x /\ out[j].time = r[b + j].ns
        BY <1>2, <1>4, <4>1 DEF n, out
      <4> QED BY <4>1, <4>2, <4>3
    <3> QED BY <3>1, <3>2
  <2>4. Len(q) = Before(r, k + 1)
    BY <1>2, <2>2 DEF n
  <2> QED BY <2>2, <2>3, <2>4 DEF ShownTo, q, out
<1>7. ASSUME \A i \in 1..Len(f) : Never < f[i].ns - DenoiseUs, Remembers(p, active), Supported(p)
      PROVE  Remembers(p \o o.out, o.active) /\ Supported(p \o o.out)
  <2>1. \A i \in 1..Len(p), j \in 1..Len(ev) : p[i].time <= ev[j].time
    <3> SUFFICES ASSUME NEW i \in 1..b, NEW j \in 1..n PROVE p[i].time <= ev[j].time
      BY <1>3
    <3>1. i \in 1..Len(r) /\ b + j \in 1..Len(r) /\ i <= b + j
      BY <1>1, <1>2, <1>5
    <3>2. r[i].ns <= r[b + j].ns
      BY <1>1, <3>1 DEF InTime
    <3> QED BY <1>2, <1>3, <3>2
  <2>2. \A i \in 1..Len(ev), j \in 1..Len(ev) : i <= j => ev[i].time <= ev[j].time
    <3> SUFFICES ASSUME NEW i \in 1..n, NEW j \in 1..n, i <= j PROVE ev[i].time <= ev[j].time
      OBVIOUS
    <3>1. b + i \in 1..Len(r) /\ b + j \in 1..Len(r) /\ b + i <= b + j
      BY <1>2, <1>5
    <3>2. r[b + i].ns <= r[b + j].ns
      BY <1>1, <3>1 DEF InTime
    <3> QED BY <1>2, <3>2
  <2>3. \A j \in 1..Len(ev) : Never < ev[j].time - DenoiseUs
    <3> TAKE j \in 1..Len(ev)
    <3>1. b + j \in 1..Len(r) /\ ev[j].time = r[b + j].ns
      BY <1>2
    <3>2. PICK i \in 1..Len(f) : r[b + j] = f[i]
      BY <1>1, <3>1
    <3>3. ev[j].time = f[i].ns
      BY <3>1, <3>2
    <3> QED BY <1>7, <3>3
  <2> HIDE DEF n
  <2> QED BY <1>2, <1>7, <2>1, <2>2, <2>3, DenoiseSupports
<1> QED BY <1>2, <1>6, <1>7 DEF r, ev, o

\* A chunk of the raw recording more.
ChunkEvents(c) == [i \in DOMAIN Valid(c) |-> [x |-> Valid(c)[i].x, time |-> Valid(c)[i].t]]

LEMMA ChunkEventsAre ==
  ASSUME NEW c \in Seq(Decoded)
  PROVE  LET ev == ChunkEvents(c)
         IN /\ ev \in Seq(Shots) /\ Len(ev) = Len(Valid(c)) /\ Len(ev) <= Len(c)
            /\ \A i \in 1..Len(ev) : /\ ev[i].x = Valid(c)[i].x /\ ev[i].time \in Nat
                                     /\ \E j \in 1..Len(c) : ev[i].time = c[j].t
            /\ (\A j, k \in 1..Len(c) : j <= k => c[j].t <= c[k].t) =>
                 \A i, k \in 1..Len(ev) : i <= k => ev[i].time <= ev[k].time
<1> DEFINE v == Valid(c)
           n == Len(v)
           ev == ChunkEvents(c)
<1>1. /\ v \in Seq(Inside)
      /\ \A i \in 1..n : \E j \in 1..Len(c) : v[i] = c[j]
      /\ (\A j, k \in 1..Len(c) : j <= k => c[j].t <= c[k].t) =>
           \A i, k \in 1..n : i <= k => v[i].t <= v[k].t
      /\ n <= Len(c)
  BY ValidKeeps
<1>2. ev = [i \in DOMAIN v |-> [x |-> v[i].x, time |-> v[i].t]]
  BY DEF ChunkEvents
<1> HIDE DEF v, ev
<1>3. n \in Nat /\ DOMAIN v = 1..n /\ \A i \in 1..n : v[i] \in Inside
  BY <1>1
<1>4. \A i \in 1..n : v[i].t \in Nat /\ [x |-> v[i].x, time |-> v[i].t] \in Shots
  BY <1>3 DEF Inside, Shots, Pixels
<1> HIDE DEF n
<1>5. ev = [i \in 1..n |-> [x |-> v[i].x, time |-> v[i].t]]
  BY <1>2, <1>3
<1>6. ev \in Seq(Shots) /\ Len(ev) = n
  BY <1>3, <1>4, <1>5
<1>7. \A i \in 1..n : ev[i].x = v[i].x /\ ev[i].time = v[i].t
  BY <1>5
<1>8. \A i \in 1..n : \E j \in 1..Len(c) : ev[i].time = c[j].t
  BY <1>1, <1>7
<1>9. (\A j, k \in 1..Len(c) : j <= k => c[j].t <= c[k].t) =>
        \A i, k \in 1..n : i <= k => ev[i].time <= ev[k].time
  BY <1>1, <1>7
<1> QED BY <1>1, <1>4, <1>6, <1>7, <1>8, <1>9 DEF v, ev, n

LEMMA InsideConcat ==
  ASSUME NEW l \in Seq(Inside), NEW m \in Seq(Inside)
  PROVE  /\ l \o m \in Seq(Inside) /\ Len(l \o m) = Len(l) + Len(m)
         /\ \A i \in 1..Len(l) : (l \o m)[i] = l[i]
         /\ \A i \in 1..Len(m) : (l \o m)[Len(l) + i] = m[i]
OBVIOUS

LEMMA ChunkStep ==
  ASSUME NEW cs \in Seq(Seq(Decoded)), ChunksInTime(cs), NEW k \in Nat, k < Len(cs),
         NEW p \in Seq(Results), NEW skipped \in Nat, NEW active \in [Pixels -> Int],
         ReadTo(cs, k, p, skipped)
  PROVE  LET c == cs[k + 1]
             ev == ChunkEvents(c)
             o == Denoise(ev, active)
         IN /\ ev \in Seq(Shots) /\ skipped + Len(c) - Len(Valid(c)) \in Nat
            /\ ReadTo(cs, k + 1, p \o o.out, skipped + Len(c) - Len(Valid(c)))
            /\ (Never < -DenoiseUs /\ Remembers(p, active) /\ Supported(p)) =>
                 Remembers(p \o o.out, o.active) /\ Supported(p \o o.out)
<1> DEFINE c == cs[k + 1]
           ev == ChunkEvents(c)
           o == Denoise(ev, active)
           n == Len(ev)
           b == Len(p)
           before == FlattenSeq(SubSeq(cs, 1, k))
           next == FlattenSeq(SubSeq(cs, 1, k + 1))
<1>1. /\ Len(cs) \in Nat /\ k + 1 \in 1..Len(cs) /\ c \in Seq(Decoded)
      /\ SubSeq(cs, 1, k) \in Seq(Seq(Decoded))
      /\ SubSeq(cs, 1, k + 1) = Append(SubSeq(cs, 1, k), c)
  <2>1. Len(cs) \in Nat /\ k + 1 \in 1..Len(cs) /\ \A i \in 1..k + 1 : i \in 1..Len(cs) /\ cs[i] \in Seq(Decoded)
    OBVIOUS
  <2> DEFINE S == Seq(Decoded)
             q == SubSeq(cs, 1, k)
             w == SubSeq(cs, 1, k + 1)
             a == Append(q, cs[k + 1])
  <2>2. cs \in Seq(S) /\ \A i \in 1..k + 1 : cs[i] \in S
    BY <2>1
  <2> HIDE DEF S
  <2>3. q \in Seq(S) /\ Len(q) = k /\ \A i \in 1..k : q[i] = cs[i]
    BY <2>1, <2>2
  <2>4. w \in Seq(S) /\ Len(w) = k + 1 /\ \A i \in 1..k + 1 : w[i] = cs[i]
    BY <2>1, <2>2
  <2>5. k + 1 \in 1..k + 1 /\ cs[k + 1] \in S
    BY <2>2
  <2>6. a \in Seq(S) /\ Len(a) = k + 1 /\ a[k + 1] = cs[k + 1] /\ \A i \in 1..k : a[i] = q[i]
    <3> DEFINE e == cs[k + 1]
    <3>1. q \in Seq(S) /\ Len(q) = k /\ e \in S
      BY <2>3, <2>5
    <3> HIDE DEF q, e
    <3>2. /\ Append(q, e) \in Seq(S) /\ Len(Append(q, e)) = k + 1 /\ Append(q, e)[k + 1] = e
          /\ \A i \in 1..k : Append(q, e)[i] = q[i]
      BY <3>1
    <3> QED BY <3>2 DEF e
  <2> HIDE DEF q, w, a
  <2>7. \A i \in 1..k + 1 : w[i] = a[i]
    <3>1. \A i \in 1..k + 1 : i \in 1..k \/ i = k + 1
      OBVIOUS
    <3> QED BY <2>3, <2>4, <2>6, <3>1
  <2>8. w = a
    BY <2>4, <2>6, <2>7
  <2> QED BY <2>1, <2>3, <2>5, <2>8 DEF q, w, a, S
<1>2. before \in Seq(Decoded) /\ next = before \o c
  <2> DEFINE q == SubSeq(cs, 1, k)
  <2>1. q \in Seq(Seq(Decoded)) /\ next = FlattenSeq(Append(q, c))
    BY <1>1
  <2> HIDE DEF q, next, c
  <2>2. FlattenSeq(q) \in Seq(Decoded) /\ FlattenSeq(Append(q, c)) = FlattenSeq(q) \o c
    BY <1>1, <2>1, FlattenAppend
  <2> QED BY <2>1, <2>2 DEF q
<1> HIDE DEF before, next, c
<1>3. Valid(next) = Valid(before) \o Valid(c) /\ Valid(before) \in Seq(Inside) /\ Valid(c) \in Seq(Inside)
  BY <1>1, <1>2, ValidConcat, ValidKeeps
<1>4. /\ k <= Len(cs) /\ b = Len(Valid(before)) /\ b + skipped = Len(before)
      /\ \A i \in 1..b : p[i].x = Valid(before)[i].x
      /\ \A i \in 1..b, d \in 1..Len(cs) : d > k => \A j \in 1..Len(cs[d]) : p[i].time <= cs[d][j].t
  BY DEF ReadTo, before
<1>5. /\ ev \in Seq(Shots) /\ n = Len(Valid(c)) /\ n <= Len(c)
      /\ \A i \in 1..n : /\ ev[i].x = Valid(c)[i].x /\ ev[i].time \in Nat
                         /\ \E j \in 1..Len(c) : ev[i].time = c[j].t
      /\ (\A j, l \in 1..Len(c) : j <= l => c[j].t <= c[l].t) =>
           \A i, l \in 1..n : i <= l => ev[i].time <= ev[l].time
  BY <1>1, ChunkEventsAre
<1> HIDE DEF ev
<1>6. /\ o.out \in Seq(Results) /\ Len(o.out) = n
      /\ \A i \in 1..n : o.out[i].x = ev[i].x /\ o.out[i].time = ev[i].time
  BY <1>5, DenoiseShows
<1>7. /\ n \in Nat /\ b \in Nat /\ Len(c) \in Nat /\ Len(before) \in Nat
      /\ \A j \in 1..Len(c) : c[j].t \in Nat
  <2>1. \A j \in 1..Len(c) : c[j] \in Decoded
    BY <1>1
  <2>2. Len(c) \in Nat /\ Len(before) \in Nat
    BY <1>1, <1>2
  <2>3. n \in Nat
    BY <1>5
  <2>4. b \in Nat
    OBVIOUS
  <2> HIDE DEF n, b
  <2> QED BY <2>1, <2>2, <2>3, <2>4 DEF Decoded
<1> HIDE DEF o
<1> DEFINE out == o.out
           q == p \o out
<1>8. out \in Seq(Results) /\ Len(out) = n
  BY <1>6
<1> HIDE DEF out, n
<1>9. /\ Len(q) = b + n /\ \A i \in 1..b : q[i] = p[i]
      /\ \A i \in 1..n : q[b + i] = out[i]
  BY <1>8, ResultsConcat
<1> HIDE DEF q
<1>10. /\ \A i \in 1..n : out[i].x = ev[i].x /\ out[i].time = ev[i].time
       /\ \A i \in 1..b + n : i \in 1..b \/ (i - b \in 1..n /\ b + (i - b) = i)
  BY <1>6, <1>7 DEF out
<1>11. ReadTo(cs, k + 1, q, skipped + Len(c) - Len(Valid(c)))
  <2> DEFINE w == Valid(next)
  <2>1. /\ w \in Seq(Inside) /\ Len(w) = b + n /\ \A i \in 1..b : w[i] = Valid(before)[i]
        /\ \A i \in 1..n : w[b + i] = Valid(c)[i]
    <3> DEFINE l == Valid(before)
               m == Valid(c)
    <3>1. l \in Seq(Inside) /\ m \in Seq(Inside) /\ w = l \o m /\ Len(l) = b /\ Len(m) = n
      BY <1>3, <1>4, <1>5 DEF n
    <3> HIDE DEF l, m, w, b
    <3>2. /\ w \in Seq(Inside) /\ Len(w) = Len(l) + Len(m) /\ \A i \in 1..Len(l) : w[i] = l[i]
          /\ \A i \in 1..Len(m) : w[Len(l) + i] = m[i]
      BY <3>1, InsideConcat
    <3> QED BY <3>1, <3>2 DEF l, m
  <2>2. Len(next) = Len(before) + Len(c)
    BY <1>1, <1>2
  <2>3. Len(q) + (skipped + Len(c) - Len(Valid(c))) = Len(next)
    <3> DEFINE v == Len(Valid(c))
               x == Len(c)
               y == Len(before)
    <3>1. b + skipped = y /\ v = n /\ Len(q) = b + n /\ Len(next) = y + x
      BY <1>4, <1>5, <1>9, <2>2 DEF n
    <3>2. b \in Int /\ n \in Int /\ x \in Int /\ y \in Int
      BY <1>7
    <3> HIDE DEF b, x, y, v
    <3>3. b + n + (skipped + x - v) = y + x
      BY <3>1, <3>2
    <3> QED BY <3>1, <3>3 DEF x, v
  <2>4. ASSUME NEW i \in 1..b + n PROVE q[i].x = w[i].x
    <3>1. CASE i \in 1..b
      BY <1>4, <1>9, <2>1, <3>1
    <3>2. CASE i \notin 1..b
      <4> DEFINE j == i - b
      <4>1. j \in 1..n /\ b + j = i
        BY <1>10, <3>2
      <4> HIDE DEF j, w
      <4>2. q[b + j] = out[j] /\ w[b + j] = Valid(c)[j] /\ out[j].x = ev[j].x
        BY <1>9, <1>10, <2>1, <4>1
      <4>3. ev[j].x = Valid(c)[j].x
        BY <1>5, <4>1 DEF n
      <4> QED BY <4>1, <4>2, <4>3
    <3> QED BY <3>1, <3>2
  <2>5. ASSUME NEW i \in 1..b + n, NEW d \in 1..Len(cs), d > k + 1, NEW j \in 1..Len(cs[d])
        PROVE  q[i].time <= cs[d][j].t
    <3>1. CASE i \in 1..b
      <4>1. d > k
        BY <2>5
      <4> QED BY <1>4, <1>9, <3>1, <4>1
    <3>2. CASE i \notin 1..b
      <4> DEFINE l == i - b
      <4>1. l \in 1..n /\ b + l = i
        BY <1>10, <3>2
      <4> HIDE DEF l
      <4>2. q[i].time = ev[l].time
        BY <1>9, <1>10, <4>1
      <4>3. PICK m \in 1..Len(c) : ev[l].time = c[m].t
        BY <1>5, <4>1 DEF n
      <4>4. cs[k + 1][m].t <= cs[d][j].t
        <5>1. k + 1 \in 1..Len(cs) /\ k + 1 < d /\ m \in 1..Len(cs[k + 1])
          BY <1>1, <2>5 DEF c
        <5> QED BY <2>5, <5>1 DEF ChunksInTime
      <4> QED BY <4>2, <4>3, <4>4 DEF c
    <3> QED BY <3>1, <3>2
  <2>6. k + 1 <= Len(cs)
    BY <1>1
  <2> HIDE DEF w
  <2> QED BY <1>9, <2>1, <2>3, <2>4, <2>5, <2>6 DEF ReadTo, w, next
<1>12. ASSUME Never < -DenoiseUs, Remembers(p, active), Supported(p)
       PROVE  Remembers(q, o.active) /\ Supported(q)
  <2>1. \A i \in 1..Len(p), j \in 1..Len(ev) : p[i].time <= ev[j].time
    <3> SUFFICES ASSUME NEW i \in 1..b, NEW j \in 1..n PROVE p[i].time <= ev[j].time
      BY DEF n
    <3>1. PICK m \in 1..Len(c) : ev[j].time = c[m].t
      BY <1>5 DEF n
    <3>2. k + 1 \in 1..Len(cs) /\ k + 1 > k /\ m \in 1..Len(cs[k + 1])
      BY <1>1 DEF c
    <3>3. p[i].time <= cs[k + 1][m].t
      BY <1>4, <3>2
    <3> QED BY <3>1, <3>3 DEF c
  <2>2. \A i \in 1..Len(ev), j \in 1..Len(ev) : i <= j => ev[i].time <= ev[j].time
    <3>1. \A j, l \in 1..Len(c) : j <= l => c[j].t <= c[l].t
      BY <1>1 DEF ChunksInTime, c
    <3> QED BY <1>5, <3>1 DEF n
  <2>3. \A j \in 1..Len(ev) : Never < ev[j].time - DenoiseUs
    <3>1. DenoiseUs \in Int /\ Never \in Int
      BY PlaybackAssumption DEF Never
    <3>2. \A j \in 1..Len(ev) : ev[j].time \in Nat
      BY <1>5 DEF n
    <3> QED BY <1>12, <3>1, <3>2
  <2> QED BY <1>5, <1>12, <2>1, <2>2, <2>3, DenoiseSupports DEF q, out, o
<1>13. skipped + Len(c) - Len(Valid(c)) \in Nat
  <2>1. Len(Valid(c)) \in Nat /\ Len(Valid(c)) <= Len(c)
    BY <1>5, <1>7 DEF n
  <2> QED BY <1>7, <2>1
<1> QED BY <1>5, <1>11, <1>12, <1>13 DEF c, ev, o, out, q

LEMMA PlayIs ==
  ASSUME NEW ev, Play(ev)
  PROVE  LET o == Denoise(ev, lastActive)
         IN lastActive' = o.active /\ played' = played \o o.out /\ at' = at + 1
BY DEF Play

\* Before the first chunk.
LEMMA NothingRead ==
  ASSUME NEW cs \in Seq(Seq(Decoded))
  PROVE  ReadTo(cs, 0, << >>, 0)
<1>1. SubSeq(cs, 1, 0) = << >> /\ Len(cs) \in Nat
  OBVIOUS
<1>2. FlattenSeq(SubSeq(cs, 1, 0)) = << >> /\ Valid(<< >>) = << >>
  BY <1>1, FlattenEmpty
<1> QED BY <1>1, <1>2 DEF ReadTo

LEMMA ReadInit == Init => ReadInv
<1> SUFFICES ASSUME Init PROVE ReadInv
  OBVIOUS
<1>1. /\ kind \in Kinds /\ chunks = << >> /\ file = << >> /\ now = 0
      /\ anchor = NewAnchor(IF kind = "rgb" THEN Nominal ELSE NsPerUs, Warmup)
      /\ mode = "recording" /\ reader \in Readers /\ at = 0 /\ played = << >> /\ invalid = 0
      /\ lastActive = [x \in Pixels |-> Never] /\ video.intermediate = "none"
  BY DEF Init, TimelineInit, Pixels
<1>2. EventInv
  <2>1. ASSUME kind = "event" PROVE anchor \in Anchors
    <3> DEFINE w == IF Warmup > 2 THEN Warmup ELSE 2
    <3>1. NsPerUs \in Nat \ {0} /\ Warmup \in Nat
      BY TimelineAssumption
    <3>2. w \in Nat \ {0, 1} /\ NsPerUs \in Int /\ <<NsPerUs, 1>> \in Int \X (Nat \ {0})
      BY <3>1
    <3>3. anchor = [nominal |-> NsPerUs, warmup |-> w, buffer |-> << >>, anchored |-> FALSE,
                    ticks0 |-> 0, host0 |-> 0, rate |-> <<NsPerUs, 1>>, xx |-> 0, xy |-> 0]
      BY <1>1, <2>1 DEF NewAnchor
    <3>4. << >> \in Seq(SampleSet)
      OBVIOUS
    <3> HIDE DEF w
    <3> QED BY <3>2, <3>3, <3>4 DEF Anchors
  <2>2. << >> \in Seq(Seq(Decoded)) /\ << >> \in Seq(Records) /\ ChunksInTime(<< >>)
    BY DEF ChunksInTime
  <2> QED BY <1>1, <2>1, <2>2 DEF EventInv
<1>3. ReadingType
  <2>1. reader \in {"visualize_dataset", "visualize_events"}
    BY <1>1, PlaybackAssumption
  <2>2. << >> \in Seq(Results) /\ lastActive \in [Pixels -> Int]
    BY <1>1 DEF Never
  <2> QED BY <1>1, <2>1, <2>2 DEF ReadingType
<1>4. VideoInv /\ FramesShown /\ FilterInv
  BY <1>1 DEF VideoInv, FramesShown, FilterInv
<1>5. EventsShown
  BY <1>1, <1>2, NothingRead DEF EventInv, EventsShown
<1> QED BY <1>2, <1>3, <1>4, <1>5 DEF ReadInv

LEMMA RecordKeeps == ReadInv /\ Record => ReadInv'
<1> SUFFICES ASSUME ReadInv, Record PROVE ReadInv'
  OBVIOUS
<1>1. /\ mode = "recording" /\ mode' = mode /\ reader' = reader /\ at' = at /\ lastActive' = lastActive
      /\ played' = played /\ invalid' = invalid /\ video' = video
  BY DEF Record, readingVars
<1>2. EventInv'
  <2>1. CASE Grab \/ GrabFails
    BY <2>1 DEF ReadInv, EventInv, Grab, GrabFails
  <2>2. CASE StreamChunk
    BY <2>2, StreamKeeps DEF ReadInv
  <2> QED BY <2>1, <2>2 DEF Record, RecordStep
<1>3. ReadingType' /\ VideoInv' /\ FramesShown' /\ FilterInv'
  BY <1>1 DEF ReadInv, ReadingType, VideoInv, FramesShown, FilterInv
<1>4. EventsShown'
  <2>1. at = 0 /\ played = << >> /\ invalid = 0 /\ chunks' \in Seq(Seq(Decoded))
    BY <1>1, <1>2 DEF ReadInv, ReadingType, EventInv
  <2>2. ReadTo(chunks', 0, << >>, 0)
    BY <2>1, NothingRead
  <2> QED BY <1>1, <2>1, <2>2 DEF EventsShown
<1> QED BY <1>2, <1>3, <1>4 DEF ReadInv

\* What the readers leave alone.
LEMMA RecordedStays ==
  ASSUME EventInv, UNCHANGED recordingVars
  PROVE  EventInv' /\ chunks' = chunks /\ file' = file /\ kind' = kind
BY DEF EventInv, recordingVars

LEMMA StartKeeps == ReadInv /\ StartReading => ReadInv'
<1> SUFFICES ASSUME ReadInv, StartReading PROVE ReadInv'
  OBVIOUS
<1>1. /\ mode = "recording" /\ reader' = reader /\ at' = at /\ lastActive' = lastActive
      /\ played' = played /\ invalid' = invalid /\ video' = video
      /\ mode' = IF kind = "event" /\ (reader = "visualize_dataset" => file # << >>)
                   THEN "reading" ELSE "done"
  BY DEF StartReading
<1>2. EventInv' /\ chunks' = chunks /\ file' = file /\ kind' = kind
  BY RecordedStays DEF ReadInv, StartReading
<1>3. /\ at = 0 /\ played = << >> /\ invalid = 0 /\ lastActive = [x \in Pixels |-> Never]
      /\ video.intermediate = "none"
  BY <1>1 DEF ReadInv, ReadingType, VideoInv
<1>4. ReadingType'
  BY <1>1, <1>2, <1>3 DEF ReadInv, ReadingType
<1>5. VideoInv'
  <2>1. kind # "event" => file = << >>
    BY DEF ReadInv, EventInv
  <2>2. ~(0 > 0)
    OBVIOUS
  <2> QED BY <1>1, <1>2, <1>3, <2>1, <2>2 DEF VideoInv
<1>6. FramesShown'
  <2> SUFFICES ASSUME file # << >> PROVE ShownTo(Chronological(file), 0, << >>)
    BY <1>1, <1>2, <1>3 DEF FramesShown
  <2> DEFINE r == Chronological(file)
  <2>1. file \in Seq(Records) /\ Len(file) > 0
    BY DEF ReadInv, EventInv
  <2>2. r \in Seq(Records) /\ Len(r) > 0 /\ InTime(r)
    BY <2>1, ChronologicalIs
  <2> HIDE DEF r
  <2>3. Before(r, 0) = 0
    BY <2>2, FramesTile
  <2> QED BY <2>3 DEF ShownTo, r
<1>7. EventsShown'
  BY <1>1, <1>2 DEF ReadInv, EventsShown
<1>8. Remembers(<< >>, [x \in Pixels |-> Never]) /\ Supported(<< >>)
  BY DEF Remembers, Supported
<1>9. FilterInv'
  BY <1>1, <1>3, <1>8 DEF FilterInv
<1> QED BY <1>2, <1>4, <1>5, <1>6, <1>7, <1>9 DEF ReadInv

LEMMA RenderKeeps == ReadInv /\ RenderChunk => ReadInv'
<1> SUFFICES ASSUME ReadInv, RenderChunk PROVE ReadInv'
  OBVIOUS
<1> DEFINE r == Chronological(file)
           ev == FrameEvents(r, at)
           o == Denoise(ev, lastActive)
<1>1. /\ mode = "reading" /\ mode' = mode /\ reader = "visualize_dataset" /\ reader' = reader
      /\ invalid' = invalid /\ video' = [video EXCEPT !.intermediate = "mp4v"]
  BY DEF RenderChunk
<1>2. EventInv' /\ chunks' = chunks /\ file' = file /\ kind' = kind
  BY RecordedStays DEF ReadInv, RenderChunk
<1>3. Play(ev)
  BY DEF RenderChunk, FrameEvents
<1>4. lastActive' = o.active /\ played' = played \o o.out /\ at' = at + 1
  <2> HIDE DEF ev
  <2> QED BY <1>3, PlayIs
<1>5. /\ file \in Seq(Records) /\ file # << >> /\ kind = "event" /\ at \in Nat /\ invalid \in Nat
      /\ played \in Seq(Results) /\ lastActive \in [Pixels -> Int] /\ ShownTo(r, at, played)
  BY <1>1 DEF ReadInv, EventInv, ReadingType, FramesShown
<1>6. /\ ev \in Seq(Shots)
      /\ ShownTo(r, at + 1, played \o o.out)
      /\ ((\A i \in 1..Len(file) : Never < file[i].ns - DenoiseUs)
            /\ Remembers(played, lastActive) /\ Supported(played)) =>
           Remembers(played \o o.out, o.active) /\ Supported(played \o o.out)
  BY <1>5, FrameStep
<1> HIDE DEF ev
<1>7. o.active \in [Pixels -> Int] /\ played \o o.out \in Seq(Results)
  <2>1. o.active \in [Pixels -> Int] /\ o.out \in Seq(Results)
    BY <1>5, <1>6, DenoiseShows
  <2> DEFINE out == o.out
  <2>2. out \in Seq(Results)
    BY <2>1
  <2> HIDE DEF out, o
  <2>3. played \o out \in Seq(Results)
    BY <1>5, <2>2, ResultsConcat
  <2> QED BY <2>1, <2>3 DEF out
<1> HIDE DEF o, r
<1>8. ReadingType'
  BY <1>1, <1>2, <1>4, <1>5, <1>7 DEF ReadingType
<1>9. VideoInv'
  <2>1. video'.intermediate = "mp4v"
    BY <1>1 DEF ReadInv, VideoInv
  <2> QED BY <1>1, <2>1 DEF VideoInv
<1>10. FramesShown' /\ EventsShown'
  BY <1>1, <1>2, <1>4, <1>6 DEF FramesShown, EventsShown, r
<1>11. FilterInv'
  <2> SUFFICES ASSUME TimesAreLate' PROVE Remembers(played', lastActive') /\ Supported(played')
    BY DEF FilterInv
  <2>1. /\ \A i \in 1..Len(file) : Never < file[i].ns - DenoiseUs
        /\ TimesAreLate
    BY <1>1, <1>2 DEF TimesAreLate
  <2>2. Remembers(played, lastActive) /\ Supported(played)
    BY <1>1, <2>1 DEF ReadInv, FilterInv
  <2> QED BY <1>4, <1>6, <2>1, <2>2
<1> QED BY <1>2, <1>8, <1>9, <1>10, <1>11 DEF ReadInv

LEMMA ReadKeeps == ReadInv /\ ReadChunk => ReadInv'
<1> SUFFICES ASSUME ReadInv, ReadChunk PROVE ReadInv'
  OBVIOUS
<1> DEFINE c == chunks[at + 1]
           ev == ChunkEvents(c)
           o == Denoise(ev, lastActive)
           skipped == invalid + Len(c) - Len(Valid(c))
<1>1. /\ mode = "reading" /\ mode' = mode /\ reader = "visualize_events" /\ reader' = reader
      /\ invalid' = skipped /\ video' = video /\ at < Len(chunks)
  BY DEF ReadChunk
<1>2. EventInv' /\ chunks' = chunks /\ file' = file /\ kind' = kind
  BY RecordedStays DEF ReadInv, ReadChunk
<1>3. Play(ev)
  BY DEF ReadChunk, ChunkEvents
<1>4. lastActive' = o.active /\ played' = played \o o.out /\ at' = at + 1
  <2> HIDE DEF ev
  <2> QED BY <1>3, PlayIs
<1>5. /\ chunks \in Seq(Seq(Decoded)) /\ ChunksInTime(chunks) /\ at \in Nat /\ invalid \in Nat
      /\ played \in Seq(Results) /\ lastActive \in [Pixels -> Int] /\ kind = "event"
      /\ ReadTo(chunks, at, played, invalid)
  BY <1>1 DEF ReadInv, EventInv, ReadingType, EventsShown
<1>6. /\ ev \in Seq(Shots) /\ skipped \in Nat
      /\ ReadTo(chunks, at + 1, played \o o.out, skipped)
      /\ (Never < -DenoiseUs /\ Remembers(played, lastActive) /\ Supported(played)) =>
           Remembers(played \o o.out, o.active) /\ Supported(played \o o.out)
  BY <1>1, <1>5, ChunkStep
<1> HIDE DEF ev, skipped
<1>7. o.active \in [Pixels -> Int] /\ played \o o.out \in Seq(Results)
  <2>1. o.active \in [Pixels -> Int] /\ o.out \in Seq(Results)
    BY <1>5, <1>6, DenoiseShows
  <2> DEFINE out == o.out
  <2>2. out \in Seq(Results)
    BY <2>1
  <2> HIDE DEF out, o
  <2>3. played \o out \in Seq(Results)
    BY <1>5, <2>2, ResultsConcat
  <2> QED BY <2>1, <2>3 DEF out
<1> HIDE DEF o, c
<1>8. ReadingType'
  BY <1>1, <1>2, <1>4, <1>5, <1>6, <1>7 DEF ReadingType
<1>9. VideoInv' /\ FramesShown' /\ EventsShown'
  BY <1>1, <1>2, <1>4, <1>6 DEF ReadInv, VideoInv, FramesShown, EventsShown
<1>10. FilterInv'
  <2> SUFFICES ASSUME TimesAreLate' PROVE Remembers(played', lastActive') /\ Supported(played')
    BY DEF FilterInv
  <2>1. Never < -DenoiseUs /\ TimesAreLate
    BY <1>1 DEF TimesAreLate
  <2>2. Remembers(played, lastActive) /\ Supported(played)
    BY <1>1, <2>1 DEF ReadInv, FilterInv
  <2> QED BY <1>4, <1>6, <2>1, <2>2
<1> QED BY <1>2, <1>8, <1>9, <1>10 DEF ReadInv

\* The steps that only end something.
LEMMA EndsKeep == ReadInv /\ (RenderEnds \/ Finalize \/ ReadEnds) => ReadInv'
<1> SUFFICES ASSUME ReadInv, RenderEnds \/ Finalize \/ ReadEnds PROVE ReadInv'
  OBVIOUS
<1>1. /\ reader' = reader /\ at' = at /\ lastActive' = lastActive /\ played' = played
      /\ invalid' = invalid /\ mode # "recording" /\ mode' \in {"finalizing", "done"}
  BY DEF RenderEnds, Finalize, ReadEnds
<1>2. EventInv' /\ chunks' = chunks /\ file' = file /\ kind' = kind
  <2>1. UNCHANGED recordingVars
    BY DEF RenderEnds, Finalize, ReadEnds
  <2> QED BY <2>1, RecordedStays DEF ReadInv
<1>3. ReadingType'
  <2>1. mode' = "finalizing" => reader = "visualize_dataset" /\ file # << >>
    BY DEF ReadInv, ReadingType, RenderEnds, Finalize, ReadEnds
  <2> QED BY <1>1, <1>2, <2>1 DEF ReadInv, ReadingType
<1>4. FramesShown' /\ EventsShown'
  BY <1>1, <1>2 DEF ReadInv, FramesShown, EventsShown
<1>5. TimesAreLate' = TimesAreLate
  BY <1>1, <1>2 DEF TimesAreLate
<1>6. FilterInv'
  BY <1>1, <1>5 DEF ReadInv, FilterInv
<1>7. VideoInv'
  <2> DEFINE frames == VideoChunks(Chronological(file))
  <2>1. CASE RenderEnds
    <3>1. /\ mode = "reading" /\ reader = "visualize_dataset" /\ at >= frames
          /\ mode' = "finalizing" /\ video' = video /\ file # << >> /\ at \in Nat
      BY <2>1 DEF ReadInv, ReadingType, RenderEnds
    <3>2. frames \in Nat \ {0}
      <4>1. file \in Seq(Records) /\ Len(file) > 0
        BY <3>1 DEF ReadInv, EventInv
      <4> DEFINE r == Chronological(file)
      <4>2. r \in Seq(Records) /\ Len(r) > 0 /\ InTime(r)
        BY <4>1, ChronologicalIs
      <4> HIDE DEF r
      <4>3. VideoChunks(r) \in Nat \ {0}
        <5>1. 0 \in Nat
          OBVIOUS
        <5> QED BY <4>2, <5>1, FramesTile
      <4> QED BY <4>3 DEF r
    <3> HIDE DEF frames
    <3>3. at > 0
      BY <3>1, <3>2
    <3>4. video.intermediate = "mp4v"
      BY <3>1, <3>3 DEF ReadInv, VideoInv
    <3> QED BY <1>1, <1>2, <3>1, <3>4 DEF VideoInv, frames
  <2>2. CASE Finalize
    <3>1. mode = "finalizing" /\ mode' = "done"
      BY <2>2 DEF Finalize
    <3>2. reader = "visualize_dataset" /\ video.intermediate = "mp4v" /\ at >= frames
      BY <3>1 DEF ReadInv, ReadingType, VideoInv
    <3>3. video'.intermediate = "none" /\ video'.final \in {"mp4v", "h264"}
      BY <2>2, <3>2 DEF Finalize
    <3> HIDE DEF frames
    <3> QED BY <1>1, <1>2, <3>1, <3>2, <3>3 DEF VideoInv, frames
  <2>3. CASE ReadEnds
    <3>1. reader = "visualize_events" /\ mode' = "done" /\ video' = video
      BY <2>3 DEF ReadEnds
    <3> QED BY <1>1, <3>1 DEF ReadInv, VideoInv
  <2> QED BY <2>1, <2>2, <2>3
<1> QED BY <1>2, <1>3, <1>4, <1>6, <1>7 DEF ReadInv

LEMMA ReadStep == ReadInv /\ [Next]_vars => ReadInv'
<1> SUFFICES ASSUME ReadInv, [Next]_vars PROVE ReadInv'
  OBVIOUS
<1>1. CASE UNCHANGED vars
  <2>1. UNCHANGED recordingVars /\ UNCHANGED readingVars
    BY <1>1 DEF vars
  <2>2. EventInv' /\ chunks' = chunks /\ file' = file /\ kind' = kind
    BY <2>1, RecordedStays DEF ReadInv
  <2>3. /\ mode' = mode /\ reader' = reader /\ at' = at /\ lastActive' = lastActive
        /\ played' = played /\ invalid' = invalid /\ video' = video
    BY <2>1 DEF readingVars
  <2>4. ReadingType' /\ VideoInv' /\ FramesShown' /\ EventsShown'
    BY <2>2, <2>3 DEF ReadInv, ReadingType, VideoInv, FramesShown, EventsShown
  <2>5. TimesAreLate' = TimesAreLate
    BY <2>2, <2>3 DEF TimesAreLate
  <2>6. FilterInv'
    BY <2>3, <2>5 DEF ReadInv, FilterInv
  <2> QED BY <2>2, <2>4, <2>6 DEF ReadInv
<1>2. CASE Next
  BY <1>2, RecordKeeps, StartKeeps, RenderKeeps, ReadKeeps, EndsKeep DEF Next
<1> QED BY <1>1, <1>2

LEMMA ReadAlways == Spec => []ReadInv
BY ReadInit, ReadStep, PTL DEF Spec

\* A positive factor keeps the order.
LEMMA ScaledOrder ==
  ASSUME NEW d \in Int, NEW e \in Int, NEW m \in Nat \ {0}
  PROVE  d * m <= e * m <=> d <= e
<1> DEFINE g == e - d
<1>1. g \in Int /\ e * m - d * m = g * m /\ e * m \in Int /\ d * m \in Int
  OBVIOUS
<1>2. d <= e <=> g >= 0
  OBVIOUS
<1> HIDE DEF g
<1>3. g >= 0 => g * m >= 0
  <2> SUFFICES ASSUME g >= 0 PROVE g * m >= 0
    OBVIOUS
  <2>1. g \in Nat
    BY <1>1
  <2> QED BY <2>1
<1>4. g < 0 => g * m < 0
  <2> SUFFICES ASSUME g < 0 PROVE g * m < 0
    OBVIOUS
  <2> DEFINE h == -g
  <2>1. h \in Nat \ {0} /\ g * m = -(h * m)
    BY <1>1
  <2> HIDE DEF h
  <2>2. h * m > 0
    BY <2>1
  <2> QED BY <2>1, <2>2
<1> QED BY <1>1, <1>2, <1>3, <1>4

\* What the filter does is what is asked of it, in the unit of the times it is given.
LEMMA SupportIs ==
  ASSUME played \in Seq(Results), Supported(played)
  PROVE  KeepsSupported
<1> SUFFICES ASSUME NEW i \in 1..Len(played)
             PROVE  played[i].keep <=> HasSupport(i, DenoiseUs * UnitNs)
  <2>1. DOMAIN played = 1..Len(played)
    OBVIOUS
  <2> QED BY <2>1 DEF KeepsSupported
<1> DEFINE recent == {j \in 1..i - 1 : (played[i].time - played[j].time) * UnitNs <= DenoiseUs * UnitNs}
           soon == {j \in 1..i - 1 : played[i].time - played[j].time <= DenoiseUs}
<1>1. /\ UnitNs \in Nat \ {0} /\ DenoiseUs \in Nat /\ i \in Nat
      /\ \A j \in 1..i : played[j] \in Results
  BY TimelineAssumption, PlaybackAssumption DEF UnitNs
<1>2. \A j \in 1..i : played[j].time \in Int
  BY <1>1 DEF Results
<1>3. ASSUME NEW j \in 1..i - 1
      PROVE  (played[i].time - played[j].time) * UnitNs <= DenoiseUs * UnitNs
               <=> played[i].time - played[j].time <= DenoiseUs
  <2> DEFINE d == played[i].time - played[j].time
  <2>1. d \in Int
    BY <1>1, <1>2
  <2> HIDE DEF d
  <2>2. d * UnitNs <= DenoiseUs * UnitNs <=> d <= DenoiseUs
    BY <1>1, <2>1, ScaledOrder
  <2> QED BY <2>2 DEF d
<1>4. recent = soon
  BY <1>3
<1>5. Support(played, i) = {played[j].x : j \in soon} \cap Near(played[i].x)
  BY DEF Support
<1>6. played[i].keep <=> Cardinality(Support(played, i)) >= MinNeighbors
  BY DEF Supported
<1>7. HasSupport(i, DenoiseUs * UnitNs)
        <=> Cardinality({played[j].x : j \in recent} \cap Near(played[i].x)) >= MinNeighbors
  BY DEF HasSupport
<1> QED BY <1>4, <1>5, <1>6, <1>7

LEMMA AllShown == ReadInv => EveryEventShown
<1> SUFFICES ASSUME ReadInv, mode = "done" PROVE EveryEventShown
  BY DEF EveryEventShown
<1>1. /\ played \in Seq(Results) /\ at \in Nat /\ video.intermediate = "none"
      /\ chunks \in Seq(Seq(Decoded)) /\ file \in Seq(Records)
  BY DEF ReadInv, EventInv, ReadingType, VideoInv
<1>2. DOMAIN played = 1..Len(played)
  BY <1>1
<1>3. ASSUME reader = "visualize_dataset", file # << >>
      PROVE  /\ video.final \in {"mp4v", "h264"}
             /\ LET records == Chronological(file)
                IN [i \in DOMAIN played |-> <<played[i].x, played[i].time>>]
                     = [i \in DOMAIN records |-> <<records[i].x, records[i].ns>>]
  <2> DEFINE r == Chronological(file)
  <2>1. Len(file) > 0
    BY <1>1, <1>3
  <2>2. r \in Seq(Records) /\ Len(r) > 0 /\ InTime(r)
    BY <1>1, <2>1, ChronologicalIs
  <2>3. /\ video.final \in {"mp4v", "h264"} /\ at >= VideoChunks(r)
        /\ ShownTo(r, at, played)
    BY <1>3 DEF ReadInv, VideoInv, FramesShown
  <2> HIDE DEF r
  <2>4. Before(r, at) = Len(r)
    BY <1>1, <2>2, <2>3, FramesTile
  <2>5. Len(played) = Len(r) /\ \A i \in 1..Len(r) : played[i].x = r[i].x /\ played[i].time = r[i].ns
    BY <2>3, <2>4 DEF ShownTo
  <2>6. DOMAIN r = 1..Len(r)
    BY <2>2
  <2>7. [i \in DOMAIN played |-> <<played[i].x, played[i].time>>] = [i \in DOMAIN r |-> <<r[i].x, r[i].ns>>]
    BY <1>2, <2>5, <2>6
  <2> QED BY <2>3, <2>7 DEF r
<1>4. ASSUME reader = "visualize_events"
      PROVE  LET decoded == FlattenSeq(SubSeq(chunks, 1, at))
             IN /\ [i \in DOMAIN played |-> played[i].x]
                     = [i \in DOMAIN Valid(decoded) |-> Valid(decoded)[i].x]
                /\ Len(played) + invalid = Len(decoded)
  <2> DEFINE decoded == FlattenSeq(SubSeq(chunks, 1, at))
             v == Valid(decoded)
  <2>1. /\ Len(played) = Len(v) /\ Len(played) + invalid = Len(decoded)
        /\ \A i \in 1..Len(played) : played[i].x = v[i].x
    BY <1>4 DEF ReadInv, EventsShown, ReadTo
  <2>2. decoded \in Seq(Decoded)
    <3> DEFINE q == SubSeq(chunks, 1, at)
    <3>1. at <= Len(chunks)
      BY <1>4 DEF ReadInv, EventsShown, ReadTo
    <3>2. q \in Seq(Seq(Decoded)) /\ << >> \in Seq(Decoded)
      BY <1>1, <3>1
    <3> HIDE DEF q
    <3>3. FlattenSeq(q) \in Seq(Decoded)
      BY <3>2, FlattenAppend
    <3> QED BY <3>3 DEF q
  <2> HIDE DEF decoded
  <2>3. v \in Seq(Inside)
    BY <2>2, ValidKeeps
  <2> HIDE DEF v
  <2>4. DOMAIN v = 1..Len(v)
    BY <2>3
  <2>5. [i \in DOMAIN played |-> played[i].x] = [i \in DOMAIN v |-> v[i].x]
    BY <1>2, <2>1, <2>4
  <2> QED BY <2>1, <2>5 DEF v, decoded
<1> QED BY <1>1, <1>3, <1>4 DEF EveryEventShown

\* Both readers keep exactly the events with enough recent neighbours in the window,
\* across all the chunks of a recording, for any sensor, filter and recording, where the
\* window does not reach back to the sentinel of a pixel that never fired.
THEOREM EventsAreSupported == Spec => [](TimesAreLate => KeepsSupported)
<1>1. ReadInv => (TimesAreLate => KeepsSupported)
  <2> SUFFICES ASSUME ReadInv, TimesAreLate PROVE KeepsSupported
    OBVIOUS
  <2>1. played \in Seq(Results)
    BY DEF ReadInv, ReadingType
  <2>2. Supported(played)
    <3>1. CASE mode = "recording"
      <4>1. played = << >>
        BY <3>1 DEF ReadInv, ReadingType
      <4> QED BY <4>1 DEF Supported
    <3>2. CASE mode # "recording"
      BY <3>2 DEF ReadInv, FilterInv
    <3> QED BY <3>1, <3>2
  <2> QED BY <2>1, <2>2, SupportIs
<1> QED BY <1>1, ReadAlways, PTL

\* A video and a heat map have every valid event of what was read, once and in order,
\* and of the two files of a video one is left, whatever ffmpeg does.
THEOREM EveryEventIsShown == Spec => []EveryEventShown
BY AllShown, ReadAlways, PTL
=============================================================================

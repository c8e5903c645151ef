---------------------------- MODULE DataInduction ----------------------------
(***************************************************************************)
(* Induction and recursion over data, stated with sets and functions only: *)
(* what FoldLeft computes step by step, and which positions a test keeps.  *)
(***************************************************************************)
EXTENDS Integers, Sequences, SequencesExt, FiniteSetTheorems, WellFoundedInduction, TLAPS

\* A set of naturals that is not empty has a least one.
LEMMA LeastNatural ==
  ASSUME NEW T \in SUBSET Nat, T # {}
  PROVE  \E k \in T : \A l \in T : k <= l
<1>1. PICK R : /\ IsWellFoundedOn(R, Nat)
               /\ \A k, l \in Nat : l < k => <<l, k>> \in R
  <2>. DEFINE R == OpToRel(<, Nat)
  <2>1. \A k, l \in Nat : l < k => <<l, k>> \in R
    BY DEF OpToRel
  <2>2. IsWellFoundedOn(R, Nat)
    BY NatLessThanWellFounded
  <2>. HIDE DEF R
  <2>. QED  BY <2>1, <2>2
<1>2. PICK k \in T : \A l \in T : ~(<<l, k>> \in R)
  BY <1>1, WFMin
<1>3. ASSUME NEW l \in T PROVE k <= l
  <2>1. k \in Nat /\ l \in Nat /\ ~(l < k)
    BY <1>1, <1>2
  <2>. QED  BY <2>1
<1>. QED  BY <1>3

\* A set that 0 is in, and with each number its successor, holds every natural.
LEMMA Induction ==
  ASSUME NEW S, 0 \in S, \A n \in Nat : n \in S => n + 1 \in S
  PROVE  \A n \in Nat : n \in S
<1>. DEFINE T == {n \in Nat : n \notin S}
<1>. SUFFICES ASSUME T # {}
              PROVE  FALSE
  OBVIOUS
<1>1. PICK k \in T : \A l \in T : k <= l
  BY LeastNatural
<1>2. k \in Nat /\ k # 0
  OBVIOUS
<1>3. k - 1 \in Nat /\ (k - 1) + 1 = k
  BY <1>2
<1>4. k - 1 \notin T
  BY <1>1, <1>2, <1>3
<1>. QED  BY <1>1, <1>3, <1>4

\* The same up to a bound.
LEMMA InductionUpTo ==
  ASSUME NEW N \in Nat, NEW S, 0 \in S, \A n \in 0 .. N - 1 : n \in S => n + 1 \in S
  PROVE  \A n \in 0 .. N : n \in S
<1>. DEFINE T == {n \in Nat : n <= N => n \in S}
<1>1. 0 \in T
  OBVIOUS
<1>2. ASSUME NEW n \in Nat, n \in T
      PROVE  n + 1 \in T
  BY <1>2
<1>3. \A n \in Nat : n \in T
  <2>. HIDE DEF T
  <2>. QED  BY <1>1, <1>2, Induction
<1>. QED  BY <1>3

\* Max of a set of numbers is its greatest.
LEMMA MaxIs ==
  ASSUME NEW N \in Nat, NEW s \in SUBSET (1 .. N), s # {}
  PROVE  Max(s) \in s /\ \A y \in s : Max(s) >= y
<1>. DEFINE T == {k \in 0 .. N : N - k \in s}
<1>1. T \in SUBSET Nat /\ T # {}
  <2>1. PICK y \in s : TRUE
    OBVIOUS
  <2>2. N - y \in 0 .. N /\ N - (N - y) = y
    OBVIOUS
  <2>3. N - y \in T
    BY <2>1, <2>2
  <2>4. T # {}
    <3>. HIDE DEF T
    <3>. QED  BY <2>3
  <2>. QED  BY <2>4
<1>2. PICK k \in T : \A l \in T : k <= l
  <2>. HIDE DEF T
  <2>. QED  BY <1>1, LeastNatural
<1>3. k \in 0 .. N /\ N - k \in s
  OBVIOUS
<1>4. ASSUME NEW y \in s
      PROVE  N - k >= y
  <2>1. N - y \in 0 .. N /\ N - (N - y) = y
    OBVIOUS
  <2>2. N - y \in T
    BY <2>1
  <2>3. k <= N - y
    BY <2>2, <1>2
  <2>. QED  BY <2>1, <2>3, <1>3
<1>5. \E x \in s : \A y \in s : x >= y
  BY <1>3, <1>4
<1>. QED  BY <1>5 DEF Max

\* The greatest of 1 .. n, and what is left without it.
LEMMA MaxOfPrefix ==
  ASSUME NEW n \in Nat, n > 0
  PROVE  Max(1 .. n) = n /\ (1 .. n) \ {n} = 1 .. n - 1
<1>1. 1 .. n \in SUBSET (1 .. n) /\ 1 .. n # {} /\ n \in 1 .. n
  OBVIOUS
<1>2. Max(1 .. n) \in 1 .. n /\ \A y \in 1 .. n : Max(1 .. n) >= y
  BY <1>1, MaxIs
<1>3. Max(1 .. n) = n
  BY <1>1, <1>2
<1>. QED  BY <1>3

\* A step over 1 .. N; the recursion of FoldLeft, over the sets of positions that
\* are left; and its values on the prefixes.
IsStep(step, N, T) == step \in [T \X (1 .. N) -> T]
IsFold(it, N, T, base, step) ==
  /\ it \in [SUBSET (1 .. N) -> T]
  /\ \A s \in SUBSET (1 .. N) :
       it[s] = IF s = {} THEN base ELSE step[<<it[s \ {Max(s)}], Max(s)>>]
Recurs(it, N, T, base, step) ==
  /\ it[{}] = base
  /\ \A s \in SUBSET (1 .. N) :
       s # {} /\ it[s \ {Max(s)}] \in T => it[s] = step[<<it[s \ {Max(s)}], Max(s)>>]
IsRun(run, N, T, base, step) ==
  /\ run \in [0 .. N -> T] /\ run[0] = base
  /\ \A n \in 1 .. N : run[n] = step[<<run[n - 1], n>>]

\* There is a function that FoldLeft's recursion defines.
LEMMA FoldExists ==
  ASSUME NEW N \in Nat, NEW T, NEW base \in T, NEW step, IsStep(step, N, T)
  PROVE  \E it : IsFold(it, N, T, base, step)
<1>. USE DEF IsStep
<1>. DEFINE Folds(n, it) ==
              \A s \in SUBSET (1 .. n) :
                it[s] = IF s = {} THEN base ELSE step[<<it[s \ {Max(s)}], Max(s)>>]
            S == {n \in 0 .. N : \E it \in [SUBSET (1 .. n) -> T] : Folds(n, it)}
<1>1. 0 \in S
  <2>1. 1 .. 0 = {}
    OBVIOUS
  <2>2. SUBSET (1 .. 0) = {{}}
    BY <2>1
  <2>. DEFINE it == [s \in SUBSET (1 .. 0) |-> base]
  <2>3. Folds(0, it) /\ it \in [SUBSET (1 .. 0) -> T]
    BY <2>2
  <2>4. \E f \in [SUBSET (1 .. 0) -> T] : Folds(0, f)
    <3>. HIDE DEF Folds, it
    <3>. QED  BY <2>3
  <2>5. 0 \in 0 .. N
    OBVIOUS
  <2>. HIDE DEF Folds
  <2>. QED  BY <2>4, <2>5
<1>2. ASSUME NEW n \in 0 .. N - 1, n \in S
      PROVE  n + 1 \in S
  <2>1. PICK it \in [SUBSET (1 .. n) -> T] : Folds(n, it)
    BY <1>2
  <2>2. n \in Nat /\ n + 1 \in Nat /\ n + 1 \in 0 .. N /\ n + 1 \in 1 .. N
    OBVIOUS
  <2>. DEFINE more == [s \in SUBSET (1 .. n + 1) |->
                         IF n + 1 \in s THEN step[<<it[s \ {n + 1}], n + 1>>] ELSE it[s]]
  <2>3. \A s \in SUBSET (1 .. n + 1) : s \ {n + 1} \in SUBSET (1 .. n)
    BY <2>2
  <2>4. \A s \in SUBSET (1 .. n + 1) : n + 1 \notin s => s \in SUBSET (1 .. n)
    BY <2>2
  <2>5. more \in [SUBSET (1 .. n + 1) -> T]
    <3>1. ASSUME NEW s \in SUBSET (1 .. n + 1)
          PROVE  (IF n + 1 \in s THEN step[<<it[s \ {n + 1}], n + 1>>] ELSE it[s]) \in T
      <4>1. CASE n + 1 \in s
        <5>1. it[s \ {n + 1}] \in T
          BY <2>1, <2>3
        <5>2. <<it[s \ {n + 1}], n + 1>> \in T \X (1 .. N)
          BY <5>1, <2>2
        <5>. QED  BY <4>1, <5>2
      <4>2. CASE n + 1 \notin s
        BY <4>2, <2>1, <2>4
      <4>. QED  BY <4>1, <4>2
    <3>. QED  BY <3>1
  <2>6. ASSUME NEW s \in SUBSET (1 .. n + 1)
        PROVE  more[s] = IF s = {} THEN base ELSE step[<<more[s \ {Max(s)}], Max(s)>>]
    <3>1. CASE n + 1 \in s
      <4>1. Max(s) = n + 1
        <5>1. Max(s) \in s /\ \A y \in s : Max(s) >= y
          BY <3>1, <2>2, MaxIs
        <5>2. Max(s) \in 1 .. n + 1
          BY <5>1
        <5>3. Max(s) >= n + 1
          BY <5>1, <3>1
        <5>. QED  BY <5>2, <5>3, <2>2
      <4>2. /\ s \ {n + 1} \in SUBSET (1 .. n + 1) /\ n + 1 \notin s \ {n + 1}
            /\ s # {} /\ more[s] = step[<<it[s \ {n + 1}], n + 1>>]
        BY <3>1
      <4>3. more[s \ {n + 1}] = it[s \ {n + 1}]
        BY <4>2
      <4>. HIDE DEF more
      <4>. QED  BY <4>1, <4>2, <4>3
    <3>2. CASE n + 1 \notin s
      <4>1. s \in SUBSET (1 .. n) /\ more[s] = it[s]
        BY <3>2, <2>4
      <4>2. s \ {Max(s)} \in SUBSET (1 .. n + 1) /\ n + 1 \notin s \ {Max(s)}
        BY <3>2
      <4>3. more[s \ {Max(s)}] = it[s \ {Max(s)}]
        BY <4>2
      <4>4. it[s] = IF s = {} THEN base ELSE step[<<it[s \ {Max(s)}], Max(s)>>]
        BY <4>1, <2>1
      <4>. HIDE DEF more
      <4>. QED  BY <4>1, <4>3, <4>4
    <3>. QED  BY <3>1, <3>2
  <2>7. Folds(n + 1, more)
    <3>. HIDE DEF more
    <3>. QED  BY <2>6
  <2>. HIDE DEF more, Folds
  <2>. QED  BY <2>2, <2>5, <2>7
<1>3. N \in S /\ (N \in S => \E it : IsFold(it, N, T, base, step))
  <2>1. \A n \in 0 .. N : n \in S
    <3>. HIDE DEF S
    <3>. QED  BY <1>1, <1>2, InductionUpTo
  <2>2. N \in 0 .. N
    OBVIOUS
  <2>3. ASSUME N \in S
        PROVE  \E it : IsFold(it, N, T, base, step)
    <3>1. PICK it \in [SUBSET (1 .. N) -> T] : Folds(N, it)
      BY <2>3
    <3>2. IsFold(it, N, T, base, step)
      BY <3>1 DEF IsFold
    <3>. QED  BY <3>2
  <2>. HIDE DEF S
  <2>. QED  BY <2>1, <2>2, <2>3
<1>. QED  BY <1>3

\* What FoldLeft's recursion gives, prefix by prefix.
LEMMA FoldRuns ==
  ASSUME NEW N \in Nat, NEW T, NEW base \in T, NEW step, IsStep(step, N, T),
         NEW it, Recurs(it, N, T, base, step)
  PROVE  \E run : IsRun(run, N, T, base, step) /\ it[1 .. N] = run[N]
<1>. USE DEF IsStep, Recurs
<1>1. it[1 .. 0] = base
  <2>1. 1 .. 0 = {}
    OBVIOUS
  <2>. QED  BY <2>1
<1>2. ASSUME NEW n \in 1 .. N, it[1 .. n - 1] \in T
      PROVE  it[1 .. n] = step[<<it[1 .. n - 1], n>>] /\ it[1 .. n] \in T
  <2>1. 1 .. n \in SUBSET (1 .. N) /\ 1 .. n # {} /\ n \in Nat /\ n > 0
    OBVIOUS
  <2>2. Max(1 .. n) = n /\ (1 .. n) \ {n} = 1 .. n - 1
    BY <2>1, MaxOfPrefix
  <2>3. it[1 .. n] = step[<<it[1 .. n - 1], n>>]
    BY <1>2, <2>1, <2>2
  <2>. QED  BY <1>2, <2>3
<1>3. \A n \in 0 .. N : it[1 .. n] \in T
  <2>. DEFINE S == {n \in 0 .. N : it[1 .. n] \in T}
  <2>1. 0 \in S
    BY <1>1
  <2>2. ASSUME NEW n \in 0 .. N - 1, n \in S
        PROVE  n + 1 \in S
    <3>1. n + 1 \in 1 .. N /\ n + 1 \in 0 .. N /\ (n + 1) - 1 = n
      OBVIOUS
    <3>2. it[1 .. n] \in T
      BY <2>2
    <3>3. it[1 .. n + 1] \in T
      BY <1>2, <3>1, <3>2
    <3>. QED  BY <3>1, <3>3
  <2>3. \A n \in 0 .. N : n \in S
    <3>. HIDE DEF S
    <3>. QED  BY <2>1, <2>2, InductionUpTo
  <2>. QED  BY <2>3
<1>4. \A n \in 1 .. N : n - 1 \in 0 .. N /\ n \in 0 .. N
  OBVIOUS
<1>. DEFINE run == [n \in 0 .. N |-> it[1 .. n]]
<1>5. run \in [0 .. N -> T]
  BY <1>3
<1>6. run[0] = base /\ it[1 .. N] = run[N]
  BY <1>1
<1>7. \A n \in 1 .. N : run[n] = step[<<run[n - 1], n>>]
  <2>1. \A n \in 1 .. N : it[1 .. n] = step[<<it[1 .. n - 1], n>>]
    BY <1>2, <1>3, <1>4
  <2>. QED  BY <2>1, <1>4
<1>8. IsRun(run, N, T, base, step)
  <2>. HIDE DEF run
  <2>. QED  BY <1>5, <1>6, <1>7 DEF IsRun
<1>. HIDE DEF run, Recurs, IsStep
<1>. QED  BY <1>6, <1>8

-----------------------------------------------------------------------------
(* Recursion over the naturals. *)

IsNatStep(step, T) == step \in [T \X (Nat \ {0}) -> T]
IsNatRun(f, N, T, base, step) ==
  /\ f \in [0 .. N -> T] /\ f[0] = base
  /\ \A n \in 1 .. N : f[n] = step[<<f[n - 1], n>>]

NatRecurs(f, T, base, step) ==
  /\ f \in [Nat -> T] /\ f[0] = base
  /\ \A n \in Nat \ {0} : f[n] = step[<<f[n - 1], n>>]

LEMMA NatRunsAgree ==
  ASSUME NEW T, NEW base, NEW step, NEW N \in Nat, NEW M \in Nat, N <= M,
         NEW f, NEW g, IsNatRun(f, N, T, base, step), IsNatRun(g, M, T, base, step)
  PROVE  \A n \in 0 .. N : f[n] = g[n]
<1>. DEFINE S == {n \in 0 .. N : f[n] = g[n]}
<1>1. 0 \in S
  BY DEF IsNatRun
<1>2. ASSUME NEW n \in 0 .. N - 1, n \in S PROVE n + 1 \in S
  <2>1. n + 1 \in 1 .. N /\ n + 1 \in 1 .. M /\ (n + 1) - 1 = n /\ n + 1 \in 0 .. N
    OBVIOUS
  <2>2. f[n + 1] = step[<<f[n], n + 1>>] /\ g[n + 1] = step[<<g[n], n + 1>>]
    BY <2>1 DEF IsNatRun
  <2>. QED  BY <1>2, <2>1, <2>2
<1>3. \A n \in 0 .. N : n \in S
  <2>. HIDE DEF S
  <2>. QED  BY <1>1, <1>2, InductionUpTo
<1>. QED  BY <1>3

\* There is a function on the naturals that a step defines.
LEMMA NatRecursion ==
  ASSUME NEW T, NEW base \in T, NEW step, IsNatStep(step, T)
  PROVE  \E f : NatRecurs(f, T, base, step)
<1>. DEFINE Run(f, N) == IsNatRun(f, N, T, base, step)
            S == {n \in Nat : \E f : Run(f, n)}
<1>1. 0 \in S
  <2>. DEFINE f == [n \in 0 .. 0 |-> base]
  <2>1. Run(f, 0)
    BY DEF IsNatRun
  <2>. QED  BY <2>1
<1>2. ASSUME NEW n \in Nat, n \in S PROVE n + 1 \in S
  <2>1. PICK f : Run(f, n)
    BY <1>2
  <2>. DEFINE g == [m \in 0 .. n + 1 |-> IF m = n + 1 THEN step[<<f[n], n + 1>>] ELSE f[m]]
  <2>2. f \in [0 .. n -> T] /\ f[0] = base /\ \A m \in 1 .. n : f[m] = step[<<f[m - 1], m>>]
    BY <2>1 DEF IsNatRun
  <2>3. <<f[n], n + 1>> \in T \X (Nat \ {0})
    BY <2>2
  <2>4. g \in [0 .. n + 1 -> T]
    BY <2>2, <2>3 DEF IsNatStep
  <2>5. g[0] = base
    BY <2>2
  <2>6. \A m \in 1 .. n + 1 : g[m] = step[<<g[m - 1], m>>]
    BY <2>2
  <2>7. Run(g, n + 1)
    <3>. HIDE DEF g
    <3>. QED  BY <2>4, <2>5, <2>6 DEF IsNatRun
  <2>. HIDE DEF Run, g
  <2>. QED  BY <2>7
<1>3. \A n \in Nat : \E f : Run(f, n)
  <2>1. \A n \in Nat : n \in S
    <3>. HIDE DEF S
    <3>. QED  BY <1>1, <1>2, Induction
  <2>. QED  BY <2>1
<1>. DEFINE r == [n \in Nat |-> CHOOSE f : Run(f, n)]
            all == [n \in Nat |-> r[n][n]]
<1>4. \A n \in Nat : Run(r[n], n)
  <2>. HIDE DEF Run
  <2>. QED  BY <1>3
<1>. HIDE DEF r
<1>5. \A n \in Nat : r[n] \in [0 .. n -> T] /\ r[n][0] = base
  BY <1>4 DEF IsNatRun
<1>6. all \in [Nat -> T] /\ all[0] = base
  BY <1>5
<1>7. ASSUME NEW n \in Nat \ {0} PROVE all[n] = step[<<all[n - 1], n>>]
  <2>1. n - 1 \in Nat /\ n - 1 <= n /\ n - 1 \in 0 .. n - 1 /\ n \in 1 .. n
    OBVIOUS
  <2>2. r[n][n] = step[<<r[n][n - 1], n>>]
    BY <1>4, <2>1 DEF IsNatRun
  <2>3. r[n - 1][n - 1] = r[n][n - 1]
    <3>1. PICK m \in Nat : m = n - 1
      BY <2>1
    <3>2. PICK f, g : f = r[m] /\ g = r[n]
      OBVIOUS
    <3>3. IsNatRun(f, m, T, base, step) /\ IsNatRun(g, n, T, base, step)
      BY <1>4, <3>1, <3>2
    <3>4. \A l \in 0 .. m : f[l] = g[l]
      BY <2>1, <3>1, <3>3, NatRunsAgree
    <3>. QED  BY <2>1, <3>1, <3>2, <3>4
  <2>. QED  BY <2>1, <2>2, <2>3
<1>. HIDE DEF all
<1>8. NatRecurs(all, T, base, step)
  BY <1>6, <1>7 DEF NatRecurs
<1>. QED  BY <1>8

-----------------------------------------------------------------------------
(* Finite sets of positions in an order. *)

\* A strict order in which any two of S are one before the other.
IsOrder(R, S) ==
  \A i, j, k \in S :
    /\ <<i, i>> \notin R
    /\ i # j => <<i, j>> \in R \/ <<j, i>> \in R
    /\ <<i, j>> \in R /\ <<j, k>> \in R => <<i, k>> \in R

\* How many of S come before i.
Before(R, S, i) == {j \in S : <<j, i>> \in R}

\* A set of positions that is not empty has a last one, in any order.
LEMMA LastExists ==
  ASSUME NEW n \in Nat, NEW R, IsOrder(R, 1 .. n), NEW s \in SUBSET (1 .. n), s # {}
  PROVE  \E r \in s : \A j \in s : j = r \/ <<j, r>> \in R
<1>. DEFINE T == {m \in 0 .. n : \A t \in SUBSET (1 .. m) :
                    t # {} => \E r \in t : \A j \in t : j = r \/ <<j, r>> \in R}
<1>1. 0 \in T
  <2>1. 1 .. 0 = {} /\ 0 \in 0 .. n
    OBVIOUS
  <2>. QED  BY <2>1
<1>2. ASSUME NEW m \in 0 .. n - 1, m \in T
      PROVE  m + 1 \in T
  <2>1. ASSUME NEW t \in SUBSET (1 .. m + 1), t # {}
        PROVE  \E r \in t : \A j \in t : j = r \/ <<j, r>> \in R
    <3>. DEFINE u == t \ {m + 1}
    <3>1. u \in SUBSET (1 .. m)
      OBVIOUS
    <3>2. CASE u = {}
      <4>1. t = {m + 1}
        BY <2>1, <3>2
      <4>. QED  BY <4>1
    <3>3. CASE u # {}
      <4>1. PICK r \in u : \A j \in u : j = r \/ <<j, r>> \in R
        BY <1>2, <3>1, <3>3
      <4>2. CASE m + 1 \notin t
        <5>1. u = t
          BY <4>2
        <5>. QED  BY <4>1, <5>1
      <4>3. CASE m + 1 \in t /\ <<m + 1, r>> \in R
        <5>1. r \in t /\ \A j \in t : j = m + 1 \/ j \in u
          OBVIOUS
        <5>. QED  BY <4>1, <4>3, <5>1
      <4>4. CASE m + 1 \in t /\ <<m + 1, r>> \notin R
        <5>1. m + 1 \in 1 .. n /\ r \in 1 .. n /\ r # m + 1 /\ \A j \in u : j \in 1 .. n
          BY <3>1
        <5>2. <<r, m + 1>> \in R
          BY <4>4, <5>1 DEF IsOrder
        <5>3. \A j \in u : <<j, m + 1>> \in R
          BY <4>1, <5>1, <5>2 DEF IsOrder
        <5>4. \A j \in t : j = m + 1 \/ j \in u
          OBVIOUS
        <5>. QED  BY <4>4, <5>3, <5>4
      <4>. QED  BY <4>2, <4>3, <4>4
    <3>. QED  BY <3>2, <3>3
  <2>2. m + 1 \in 0 .. n
    OBVIOUS
  <2>. QED  BY <2>1, <2>2
<1>3. \A m \in 0 .. n : m \in T
  <2>. HIDE DEF T
  <2>. QED  BY <1>1, <1>2, InductionUpTo
<1>4. n \in T
  <2>. HIDE DEF T
  <2>. QED  BY <1>3
<1>. QED  BY <1>4

\* In an order, the numbers of those before each one are the numbers up to the last.
LEMMA RanksAre ==
  ASSUME NEW n \in Nat, NEW R, IsOrder(R, 1 .. n), NEW s \in SUBSET (1 .. n)
  PROVE  /\ IsFiniteSet(s) /\ Cardinality(s) \in Nat
         /\ \A i, j \in s : <<i, j>> \in R =>
              Cardinality(Before(R, s, i)) < Cardinality(Before(R, s, j))
         /\ \A i \in s : Cardinality(Before(R, s, i)) \in 0 .. Cardinality(s) - 1
         /\ \A p \in 1 .. Cardinality(s) :
              \E i \in s : Cardinality(Before(R, s, i)) = p - 1
<1>1. IsFiniteSet(s) /\ Cardinality(s) \in Nat
  <2>1. IsFiniteSet(1 .. n)
    BY FS_Interval
  <2>2. IsFiniteSet(s)
    BY <2>1, FS_Subset
  <2>. QED  BY <2>2, FS_CardinalityType
<1>2. ASSUME NEW i \in s
      PROVE  /\ IsFiniteSet(Before(R, s, i)) /\ Cardinality(Before(R, s, i)) \in Nat
             /\ Cardinality(Before(R, s, i)) < Cardinality(s)
  <2>1. Before(R, s, i) \in SUBSET s /\ i \notin Before(R, s, i)
    BY DEF Before, IsOrder
  <2>2. IsFiniteSet(Before(R, s, i)) /\ Cardinality(Before(R, s, i)) <= Cardinality(s)
        /\ (Cardinality(s) = Cardinality(Before(R, s, i)) => s = Before(R, s, i))
    BY <1>1, <2>1, FS_Subset
  <2>3. Cardinality(Before(R, s, i)) \in Nat
    BY <2>2, FS_CardinalityType
  <2>. QED  BY <1>1, <2>1, <2>2, <2>3
<1>3. ASSUME NEW i \in s, NEW j \in s, <<i, j>> \in R
      PROVE  Cardinality(Before(R, s, i)) < Cardinality(Before(R, s, j))
  <2>1. Before(R, s, i) \in SUBSET Before(R, s, j)
    BY <1>3 DEF Before, IsOrder
  <2>2. i \in Before(R, s, j) /\ i \notin Before(R, s, i)
    BY <1>3 DEF Before, IsOrder
  <2>3. /\ Cardinality(Before(R, s, i)) <= Cardinality(Before(R, s, j))
        /\ Cardinality(Before(R, s, j)) = Cardinality(Before(R, s, i)) =>
             Before(R, s, j) = Before(R, s, i)
    BY <1>2, <2>1, FS_Subset
  <2>4. Cardinality(Before(R, s, i)) \in Nat /\ Cardinality(Before(R, s, j)) \in Nat
    BY <1>2
  <2>. QED  BY <2>2, <2>3, <2>4
<1>4. ASSUME NEW p \in 1 .. Cardinality(s)
      PROVE  \E i \in s : Cardinality(Before(R, s, i)) = p - 1
  <2>. DEFINE S0 == 0 .. Cardinality(s) - 1
              rank == [i \in s |-> Cardinality(Before(R, s, i))]
  <2>1. rank \in [s -> S0]
    BY <1>1, <1>2
  <2>2. \A i, j \in s : rank[i] = rank[j] => i = j
    <3>1. ASSUME NEW i \in s, NEW j \in s, i # j
          PROVE  rank[i] # rank[j]
      <4>1. <<i, j>> \in R \/ <<j, i>> \in R
        BY <3>1 DEF IsOrder
      <4>2. rank[i] < rank[j] \/ rank[j] < rank[i]
        BY <1>3, <4>1
      <4>3. rank[i] \in Nat /\ rank[j] \in Nat
        BY <1>2
      <4>. QED  BY <4>2, <4>3
    <3>. QED  BY <3>1
  <2>3. rank \in Injection(s, S0)
    BY <2>1, <2>2 DEF Injection, IsInjective
  <2>4. IsFiniteSet(S0) /\ Cardinality(S0) = Cardinality(s)
    <3>1. 0 \in Int /\ Cardinality(s) - 1 \in Int
      BY <1>1
    <3>2. IsFiniteSet(S0) /\ Cardinality(S0) =
            IF 0 > Cardinality(s) - 1 THEN 0 ELSE Cardinality(s) - 1 - 0 + 1
      BY <3>1, FS_Interval
    <3>. QED  BY <1>1, <3>2
  <2>5. rank \in Surjection(s, S0)
    <3>. HIDE DEF rank, S0
    <3>. QED  BY <2>3, <2>4, FS_Injection
  <2>6. p - 1 \in S0
    BY <1>1
  <2>7. PICK i \in s : rank[i] = p - 1
    <3>. HIDE DEF rank, S0
    <3>. QED  BY <2>5, <2>6 DEF Surjection
  <2>. QED  BY <2>7
<1>5. \A i \in s : Cardinality(Before(R, s, i)) \in 0 .. Cardinality(s) - 1
  BY <1>1, <1>2
<1>. QED  BY <1>1, <1>3, <1>4, <1>5

\* The positions in a set, as they come.
LEMMA PlacesAre ==
  ASSUME NEW n \in Nat, NEW s \in SUBSET (1 .. n)
  PROVE  /\ Cardinality(s) \in Nat
         /\ \A p \in 1 .. Cardinality(s) :
              (CHOOSE i \in s : Cardinality({j \in s : j < i}) = p - 1) \in s
         /\ \A i \in s : \E p \in 1 .. Cardinality(s) :
              (CHOOSE k \in s : Cardinality({j \in s : j < k}) = p - 1) = i
<1>. DEFINE R == {r \in (1 .. n) \X (1 .. n) : r[1] < r[2]}
<1>1. \A i, j \in 1 .. n : <<i, j>> \in R <=> i < j
  OBVIOUS
<1>2. IsOrder(R, 1 .. n)
  <2>. HIDE DEF R
  <2>1. \A i \in 1 .. n : <<i, i>> \notin R
    BY <1>1
  <2>2. \A i, j, k \in 1 .. n : <<i, j>> \in R /\ <<j, k>> \in R => <<i, k>> \in R
    BY <1>1
  <2>3. \A i, j \in 1 .. n : i # j => <<i, j>> \in R \/ <<j, i>> \in R
    BY <1>1
  <2>. QED  BY <2>1, <2>2, <2>3 DEF IsOrder
<1>3. \A i \in s : Before(R, s, i) = {j \in s : j < i}
  <2>. HIDE DEF R
  <2>. QED  BY <1>1 DEF Before
<1>. HIDE DEF R
<1>4. /\ Cardinality(s) \in Nat
      /\ \A i, j \in s : <<i, j>> \in R =>
           Cardinality(Before(R, s, i)) < Cardinality(Before(R, s, j))
      /\ \A i \in s : Cardinality(Before(R, s, i)) \in 0 .. Cardinality(s) - 1
      /\ \A p \in 1 .. Cardinality(s) :
           \E i \in s : Cardinality(Before(R, s, i)) = p - 1
  BY <1>2, RanksAre
<1>5. PICK rank : rank = [i \in s |-> Cardinality({j \in s : j < i})]
  OBVIOUS
<1>6. /\ \A i \in s : rank[i] = Cardinality({j \in s : j < i}) /\ rank[i] = Cardinality(Before(R, s, i))
      /\ \A i \in s : rank[i] \in 0 .. Cardinality(s) - 1
  BY <1>3, <1>4, <1>5
<1>7. ASSUME NEW i \in s, NEW j \in s, i < j
      PROVE  rank[i] < rank[j]
  <2>1. i \in 1 .. n /\ j \in 1 .. n
    OBVIOUS
  <2>2. <<i, j>> \in R
    BY <1>1, <1>7, <2>1
  <2>3. Cardinality(Before(R, s, i)) < Cardinality(Before(R, s, j))
    BY <1>4, <2>2
  <2>4. rank[i] = Cardinality(Before(R, s, i)) /\ rank[j] = Cardinality(Before(R, s, j))
    BY <1>6
  <2>. QED  BY <2>3, <2>4
<1>8. \A p \in 1 .. Cardinality(s) : \E i \in s : rank[i] = p - 1
  BY <1>4, <1>6
<1>9. ASSUME NEW p \in 1 .. Cardinality(s)
      PROVE  /\ (CHOOSE i \in s : Cardinality({j \in s : j < i}) = p - 1) \in s
             /\ rank[CHOOSE i \in s : Cardinality({j \in s : j < i}) = p - 1] = p - 1
  <2>1. \E i \in s : Cardinality({j \in s : j < i}) = p - 1
    BY <1>6, <1>8
  <2>2. PICK c : c = CHOOSE i \in s : Cardinality({j \in s : j < i}) = p - 1
    OBVIOUS
  <2>3. c \in s /\ Cardinality({j \in s : j < c}) = p - 1
    BY <2>1, <2>2
  <2>. QED  BY <1>6, <2>2, <2>3
<1>10. ASSUME NEW i \in s
       PROVE  \E p \in 1 .. Cardinality(s) :
                (CHOOSE k \in s : Cardinality({j \in s : j < k}) = p - 1) = i
  <2>1. rank[i] + 1 \in 1 .. Cardinality(s) /\ rank[i] \in Nat
    BY <1>4, <1>6
  <2>2. PICK p : p = rank[i] + 1
    OBVIOUS
  <2>3. PICK c : c = CHOOSE k \in s : Cardinality({j \in s : j < k}) = p - 1
    OBVIOUS
  <2>4. c \in s /\ rank[c] = p - 1
    BY <1>9, <2>1, <2>2, <2>3
  <2>5. rank[c] = rank[i]
    BY <2>1, <2>2, <2>4
  <2>6. c \in Nat /\ i \in Nat
    BY <2>4
  <2>7. ~(c < i) /\ ~(i < c)
    BY <1>7, <2>1, <2>4, <2>5
  <2>8. c = i
    BY <2>6, <2>7
  <2>. QED  BY <2>1, <2>2, <2>3, <2>8
<1>. QED  BY <1>4, <1>9, <1>10
=============================================================================

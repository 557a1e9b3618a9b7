------------------------------ MODULE FoldLemmas ------------------------------
(***************************************************************************)
(* Lemmas about folds: induction over numbers by a least counterexample,   *)
(* and the stages a fold over a sequence goes through.                     *)
(***************************************************************************)
EXTENDS Integers, SequencesExt, FiniteSetsExt, FiniteSetTheorems, SequenceTheorems,
        WellFoundedInduction, TLAPS

-----------------------------------------------------------------------------
(***************************************************************************)
(* Induction over numbers, for sets of numbers, and what folds need of it. *)
(***************************************************************************)
\* Every set of natural numbers that is not empty has a least one.
LEMMA LeastOf ==
  ASSUME NEW T, T \subseteq Nat, T # {}
  PROVE  \E x \in T : \A y \in T : x <= y
<1>1. IsWellFoundedOn(OpToRel(<, Nat), Nat)
  BY NatLessThanWellFounded
<1>2. PICK x \in T : \A y \in T : ~ (<<y, x>> \in OpToRel(<, Nat))
  BY <1>1, WFMin
<1>3. \A y \in T : ~ (y < x)
  BY <1>2, Zenon DEF OpToRel
<1>4. QED
  BY <1>3

\* What holds of 0, and of n + 1 with n, up to a bound, holds up to the bound.
LEMMA UpTo ==
  ASSUME NEW n \in Nat, NEW T, 0 \in T,
         \A k \in 0..(n - 1) : k \in T => k + 1 \in T
  PROVE  \A k \in 0..n : k \in T
<1>1. SUFFICES ASSUME \E k \in 0..n : k \notin T PROVE FALSE
  OBVIOUS
<1>2. PICK x \in (0..n) \ T : \A y \in (0..n) \ T : x <= y
  <2>1. (0..n) \ T \subseteq Nat /\ (0..n) \ T # {}
    BY <1>1
  <2>2. QED
    BY <2>1, LeastOf
<1>3. x - 1 \in T /\ x - 1 \in 0..(n - 1)
  BY <1>2
<1>4. QED
  BY <1>2, <1>3

\* A set of numbers up to n that is not empty has a greatest one.
LEMMA MaxIsIn ==
  ASSUME NEW n \in Nat, NEW u, u \subseteq 1..n, u # {}
  PROVE  Max(u) \in u /\ \A y \in u : y <= Max(u)
<1> DEFINE D == {n - x : x \in u}
<1>1. D \subseteq Nat /\ D # {}
  <2>1. \A x \in u : x \in Int /\ n - x \in Nat
    OBVIOUS
  <2>2. QED
    BY <2>1
<1>2. PICK d \in D : \A e \in D : d <= e
  BY <1>1, LeastOf
<1>3. PICK x \in u : d = n - x
  BY <1>2
<1>4. \A y \in u : y <= x
  <2>1. TAKE y \in u
  <2>2. n - x <= n - y
    BY <1>2, <1>3
  <2>3. x \in Int /\ y \in Int
    OBVIOUS
  <2>4. QED
    BY <2>2, <2>3
<1>5. \A y \in u : x >= y
  BY <1>4
<1>6. QED
  BY <1>5 DEF Max

LEMMA MaxUpTo ==
  ASSUME NEW n \in Nat, n # 0
  PROVE  Max(1..n) = n
<1>1. 1..n # {} /\ 1..n \subseteq 1..n
  OBVIOUS
<1>2. Max(1..n) \in 1..n /\ \A y \in 1..n : y <= Max(1..n)
  BY <1>1, MaxIsIn
<1>3. QED
  BY <1>2

\* What folds over 1..k compute of the parts of it, each from the part without
\* its greatest number.
Staged(k, g, base, step) ==
  \A u \in SUBSET (1..k) :
    g[u] = IF u = {} THEN base ELSE step[g[u \ {Max(u)}], Max(u)]

\* There is such a computation.
LEMMA StagesExist ==
  ASSUME NEW n \in Nat, NEW S, NEW base \in S, NEW step \in [S \X (1..n) -> S]
  PROVE  \E g \in [SUBSET (1..n) -> S] : Staged(n, g, base, step)
<1> DEFINE T == {k \in 0..n : \E g \in [SUBSET (1..k) -> S] : Staged(k, g, base, step)}
<1>1. 0 \in T
  <2>1. \A u \in SUBSET (1..0) : u = {}
    OBVIOUS
  <2>2. Staged(0, [u \in SUBSET (1..0) |-> base], base, step)
    BY <2>1 DEF Staged
  <2>3. QED
    BY <2>2
<1>2. ASSUME NEW k \in 0..(n - 1), k \in T PROVE k + 1 \in T
  <2>1. PICK g \in [SUBSET (1..k) -> S] : Staged(k, g, base, step)
    BY <1>2
  <2> DEFINE m == k + 1
             h == [u \in SUBSET (1..m) |->
                     IF m \in u THEN step[g[u \ {m}], m] ELSE g[u]]
  <2>2. m \in 1..n /\ m \in 0..n
    OBVIOUS
  <2>3. \A u \in SUBSET (1..m) :
          /\ m \in u => u \ {m} \in SUBSET (1..k) /\ Max(u) = m /\ m \notin u \ {m}
          /\ m \notin u => u \in SUBSET (1..k)
    <3>1. TAKE u \in SUBSET (1..m)
    <3>2. \A x \in u : x # m => x \in 1..k
      OBVIOUS
    <3>3. ASSUME m \in u PROVE Max(u) = m
      <4>1. m \in Nat /\ u \subseteq 1..m /\ u # {}
        BY <3>3
      <4>2. Max(u) \in u /\ \A y \in u : y <= Max(u)
        BY <4>1, MaxIsIn
      <4>3. Max(u) \in 1..m /\ m <= Max(u)
        BY <3>3, <4>2
      <4>4. QED
        BY <4>3
    <3>4. QED
      BY <3>2, <3>3
  <2>4. h \in [SUBSET (1..m) -> S]
    <3>1. ASSUME NEW u \in SUBSET (1..m), m \in u PROVE step[g[u \ {m}], m] \in S
      <4>1. g[u \ {m}] \in S
        BY <2>3, <3>1
      <4>2. <<g[u \ {m}], m>> \in S \X (1..n)
        BY <4>1, <2>2
      <4>3. QED
        BY <4>2
    <3>2. ASSUME NEW u \in SUBSET (1..m), m \notin u PROVE g[u] \in S
      BY <2>3, <3>2
    <3>3. QED
      BY <3>1, <3>2
  <2>5. Staged(m, h, base, step)
    <3>1. SUFFICES ASSUME NEW u \in SUBSET (1..m)
                   PROVE  h[u] = IF u = {} THEN base ELSE step[h[u \ {Max(u)}], Max(u)]
      BY DEF Staged
    <3>2. CASE m \in u
      <4>1. h[u] = step[g[u \ {m}], m]
        BY <3>2
      <4>2. Max(u) = m /\ h[u \ {m}] = g[u \ {m}]
        BY <2>3, <3>2
      <4>3. QED
        BY <3>2, <4>1, <4>2
    <3>3. CASE m \notin u
      <4>1. h[u] = g[u] /\ u \in SUBSET (1..k)
        BY <2>3, <3>3
      <4>2. u \ {Max(u)} \in SUBSET (1..m) /\ m \notin u \ {Max(u)}
        BY <3>3
      <4>3. h[u \ {Max(u)}] = g[u \ {Max(u)}]
        BY <4>2
      <4>4. g[u] = IF u = {} THEN base ELSE step[g[u \ {Max(u)}], Max(u)]
        BY <2>1, <4>1 DEF Staged
      <4>5. QED
        BY <4>1, <4>3, <4>4
    <3>4. QED
      BY <3>2, <3>3
  <2>6. QED
    BY <2>2, <2>4, <2>5
<1>3. \A k \in 0..n : k \in T
  <2> HIDE DEF T
  <2>1. QED
    BY <1>1, <1>2, UpTo
<1>4. n \in T
  <2> HIDE DEF T
  <2>1. n \in 0..n
    OBVIOUS
  <2>2. QED
    BY <1>3, <2>1
<1>5. QED
  BY <1>4

\* What holds at the first stage of a computation in n stages, and from one stage
\* to the next, holds at the last.
LEMMA LastStage ==
  ASSUME NEW n \in Nat, NEW P, 0 \in P, \A k \in 1..n : k - 1 \in P => k \in P
  PROVE  n \in P
<1>1. \A k \in 0..(n - 1) : k \in P => k + 1 \in P
  <2>1. \A k \in 0..(n - 1) : k + 1 \in 1..n /\ (k + 1) - 1 = k
    OBVIOUS
  <2>2. QED
    BY <2>1
<1>2. \A k \in 0..n : k \in P
  BY <1>1, UpTo
<1>3. QED
  BY <1>2

\* The greatest of the first k numbers, and the others.
LEMMA FirstNumbers ==
  ASSUME NEW n \in Nat
  PROVE  /\ 1..0 = {} /\ {} \in SUBSET (1..n)
         /\ \A k \in 1..n : /\ Max(1..k) = k /\ (1..k) \ {k} = 1..(k - 1)
                            /\ 1..k # {} /\ 1..k \in SUBSET (1..n)
         /\ \A u \in SUBSET (1..n) : u # {} => Max(u) \in 1..n
<1>1. ASSUME NEW k \in 1..n
      PROVE  /\ Max(1..k) = k /\ (1..k) \ {k} = 1..(k - 1)
             /\ 1..k # {} /\ 1..k \in SUBSET (1..n)
  <2>1. k \in Nat /\ k # 0
    OBVIOUS
  <2>2. \A x : x \in (1..k) \ {k} <=> x \in 1..(k - 1)
    BY <2>1
  <2>3. k \in 1..k /\ \A x \in 1..k : x \in 1..n
    BY <2>1
  <2>4. Max(1..k) = k
    BY <2>1, MaxUpTo
  <2>5. QED
    BY <2>2, <2>3, <2>4
<1>2. \A u \in SUBSET (1..n) : u # {} => Max(u) \in 1..n
  BY MaxIsIn
<1>3. QED
  BY <1>1, <1>2
=============================================================================

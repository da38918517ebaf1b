----------------------------- MODULE FoldLemmas -----------------------------
(***************************************************************************)
(* What the proofs about sequences and sums rest on.  FoldLeft,            *)
(* MapThenSumSet and SumFunction are defined by functions that are         *)
(* recursive on the set of what is still to be folded.  That these         *)
(* functions exist, what FoldLeft is on the prefixes of a sequence and how *)
(* a sum depends on its set and on its weights follow from the             *)
(* well-foundedness of the natural numbers: an induction, on numbers, on   *)
(* finite sets or on sequences, is the least counterexample of a set.      *)
(***************************************************************************)
EXTENDS Integers, Sequences, SequencesExt, FiniteSetsExt,
        FiniteSetTheorems, WellFoundedInduction, TLAPS

\* A set of natural numbers has a least element.
LEMMA LeastElement ==
  ASSUME NEW T, T \subseteq Nat, T # {}
  PROVE  \E x \in T : \A y \in T : x <= y
<1> DEFINE R == {ss \in Nat \X Nat : ss[1] < ss[2]}
<1>1. IsWellFoundedOn(R, Nat)
  BY NatLessThanWellFounded DEF OpToRel
<1>2. \A a, b \in Nat : a < b => <<a, b>> \in R
  OBVIOUS
<1> HIDE DEF R
<1>3. PICK x \in T : \A y \in T : <<y, x>> \notin R
  BY <1>1, WFMin
<1>4. x \in Nat /\ \A y \in T : y \in Nat /\ ~ (y < x)
  BY <1>2, <1>3
<1> QED
  BY <1>4

\* Induction, of a set instead of a predicate.
LEMMA Induction ==
  ASSUME NEW T, 0 \in T, \A k \in Nat : k \in T => k + 1 \in T
  PROVE  Nat \subseteq T
<1> SUFFICES ASSUME Nat \ T # {} PROVE FALSE
  OBVIOUS
<1>1. PICK x \in Nat \ T : \A y \in Nat \ T : x <= y
  <2> DEFINE U == Nat \ T
  <2>1. U \subseteq Nat /\ U # {}
    OBVIOUS
  <2> HIDE DEF U
  <2>2. \E x \in U : \A y \in U : x <= y
    BY <2>1, LeastElement
  <2> QED
    BY <2>2 DEF U
<1>2. x # 0 /\ x - 1 \in Nat
  OBVIOUS
<1>3. x - 1 \in T
  BY <1>1, <1>2
<1> QED
  BY <1>2, <1>3

\* A set of indices has a largest one.
LEMMA MaxOfInterval ==
  ASSUME NEW n \in Nat, NEW s \in SUBSET (1..n), s # {}
  PROVE  Max(s) \in s /\ \A x \in s : x <= Max(s)
<1> DEFINE T == {n - x : x \in s}
<1>1. T \subseteq Nat /\ T # {}
  <2>1. \A x \in s : n - x \in Nat
    OBVIOUS
  <2> QED
    BY <2>1
<1> HIDE DEF T
<1>2. PICK t \in T : \A u \in T : t <= u
  BY <1>1, LeastElement
<1>3. PICK y \in s : t = n - y
  BY DEF T
<1>4. \A x \in s : n - x \in T
  BY DEF T
<1>5. \A x \in s : x <= y
  <2> TAKE x \in s
  <2>1. n - y <= n - x
    BY <1>2, <1>3, <1>4
  <2>2. x \in Nat /\ y \in Nat
    OBVIOUS
  <2> QED
    BY <2>1, <2>2
<1> QED
  BY <1>5 DEF Max

\* The largest element of a set is its maximum.
LEMMA MaxIs ==
  ASSUME NEW s \in SUBSET Int, NEW m \in s, \A x \in s : x <= m
  PROVE  Max(s) = m
<1>1. \A y \in s : m >= y
  OBVIOUS
<1>2. \A x \in s : (\A y \in s : x >= y) => x = m
  <2> TAKE x \in s
  <2>1. x >= m => x = m
    OBVIOUS
  <2> QED
    BY <2>1
<1> QED
  BY <1>1, <1>2 DEF Max

\* An interval that grows by one.
LEMMA IntervalSteps ==
  ASSUME NEW n \in Nat, NEW k \in 0..(n-1)
  PROVE  1..(k + 1) \in SUBSET (1..n) /\ 1..(k + 1) # {} /\ (1..(k + 1)) \ {k + 1} = 1..k
<1>1. k \in Nat /\ k + 1 <= n
  OBVIOUS
<1>2. \A i \in 1..(k + 1) : i \in 1..n
  BY <1>1
<1>3. k + 1 \in 1..(k + 1)
  BY <1>1
<1>4. \A i \in 1..(k + 1) : i # k + 1 => i \in 1..k
  BY <1>1
<1>5. \A i \in 1..k : i \in 1..(k + 1) /\ i # k + 1
  BY <1>1
<1> QED
  BY <1>2, <1>3, <1>4, <1>5

\* The step of a fold over 1..n, index by index, on accumulators in S.
IsStep(step, n, S) == step \in [1..n -> [S -> S]]

\* The function that MapThenFoldSet defines for a fold from left to right.
Folds(f, n, base, step) ==
  f = [s \in SUBSET (1..n) |->
         IF s = {} THEN base ELSE step[Max(s)][f[s \ {Max(s)}]]]

\* There is such a function, with values in a set that the step stays in.
LEMMA FoldExists ==
  ASSUME NEW S, NEW base \in S, NEW n \in Nat, NEW step \in [1..n -> [S -> S]]
  PROVE  \E f \in [SUBSET (1..n) -> S] : Folds(f, n, base, step)
<1> DEFINE P(k) == k <= n => \E f \in [SUBSET (1..k) -> S] : Folds(f, k, base, step)
           T == {k \in Nat : P(k)}
<1>1. P(0)
  <2>1. SUBSET (1..0) = {{}}
    OBVIOUS
  <2> DEFINE g == [s \in SUBSET (1..0) |-> base]
  <2>2. g \in [SUBSET (1..0) -> S] /\ Folds(g, 0, base, step)
    BY <2>1 DEF Folds
  <2> QED
    BY <2>2
<1>2. ASSUME NEW k \in Nat, P(k), k + 1 <= n PROVE P(k + 1)
  <2>1. PICK f \in [SUBSET (1..k) -> S] : Folds(f, k, base, step)
    <3>1. k <= n
      BY <1>2
    <3> QED
      BY <1>2, <3>1
  <2> DEFINE g == [s \in SUBSET (1..(k+1)) |->
                     IF k + 1 \in s THEN step[k + 1][f[s \ {k + 1}]] ELSE f[s]]
  <2>2. ASSUME NEW s \in SUBSET (1..(k+1))
        PROVE  /\ g[s] \in S
               /\ g[s] = IF s = {} THEN base ELSE step[Max(s)][g[s \ {Max(s)}]]
    <3>1. CASE k + 1 \in s
      <4>1. s \ {k + 1} \in SUBSET (1..k)
        OBVIOUS
      <4>2. Max(s) = k + 1
        BY <3>1, MaxIs
      <4>3. f[s \ {k + 1}] \in S /\ k + 1 \in 1..n
        BY <1>2, <4>1
      <4>4. g[s] = step[k + 1][f[s \ {k + 1}]]
        BY <3>1
      <4>5. g[s \ {k + 1}] = f[s \ {k + 1}]
        BY <4>1
      <4>6. step[k + 1][f[s \ {k + 1}]] \in S
        BY <4>3
      <4>7. s # {}
        BY <3>1
      <4> HIDE DEF g
      <4> QED
        BY <4>2, <4>4, <4>5, <4>6, <4>7
    <3>2. CASE k + 1 \notin s
      <4>1. s \in SUBSET (1..k)
        BY <3>2
      <4>2. g[s] = f[s]
        BY <3>2
      <4>3. f[s] = IF s = {} THEN base ELSE step[Max(s)][f[s \ {Max(s)}]]
        BY <2>1, <4>1 DEF Folds
      <4>4. g[s \ {Max(s)}] = f[s \ {Max(s)}]
        BY <3>2, <4>1
      <4> HIDE DEF g
      <4> QED
        BY <2>1, <4>1, <4>2, <4>3, <4>4
    <3> QED
      BY <3>1, <3>2
  <2>3. g \in [SUBSET (1..(k+1)) -> S]
    BY <2>2
  <2>4. Folds(g, k + 1, base, step)
    <3>1. DOMAIN g = SUBSET (1..(k+1))
      OBVIOUS
    <3> HIDE DEF g
    <3> DEFINE h == [s \in SUBSET (1..(k+1)) |->
                       IF s = {} THEN base ELSE step[Max(s)][g[s \ {Max(s)}]]]
    <3>2. g = h
      <4>1. \A s \in SUBSET (1..(k+1)) : g[s] = h[s]
        BY <2>2
      <4>2. g = [s \in SUBSET (1..(k+1)) |-> g[s]] /\ h = [s \in SUBSET (1..(k+1)) |-> h[s]]
        BY <2>3
      <4> HIDE DEF h
      <4> QED
        BY <4>1, <4>2
    <3> QED
      BY <3>2 DEF Folds
  <2> HIDE DEF g
  <2> QED
    BY <2>3, <2>4
<1>3. 0 \in T /\ \A k \in Nat : k \in T => k + 1 \in T
  <2> HIDE DEF P
  <2>1. \A k \in Nat : P(k) => P(k + 1)
    <3> SUFFICES ASSUME NEW k \in Nat, P(k) PROVE P(k + 1)
      OBVIOUS
    <3>1. CASE k + 1 <= n
      BY <1>2, <3>1
    <3>2. CASE ~(k + 1 <= n)
      BY <3>2 DEF P
    <3> QED
      BY <3>1, <3>2
  <2> QED
    BY <1>1, <2>1
<1> HIDE DEF T
<1>4. n \in T
  BY <1>3, Induction
<1>5. P(n)
  <2> HIDE DEF P
  <2> QED
    BY <1>4 DEF T
<1>6. n <= n
  OBVIOUS
<1> QED
  BY <1>5, <1>6

\* On the prefixes of the indices it starts from the base, and goes on by the step.
LEMMA FoldPrefixes ==
  ASSUME NEW n \in Nat, NEW base, NEW step, NEW f, Folds(f, n, base, step)
  PROVE  /\ f[1..0] = base
         /\ \A k \in 0..(n-1) : f[1..(k + 1)] = step[k + 1][f[1..k]]
<1>1. f[1..0] = base
  <2>1. 1..0 = {} /\ 1..0 \in SUBSET (1..n)
    OBVIOUS
  <2> QED
    BY <2>1 DEF Folds
<1>2. ASSUME NEW k \in 0..(n-1) PROVE f[1..(k + 1)] = step[k + 1][f[1..k]]
  <2> DEFINE s == 1..(k + 1)
  <2>1. s \in SUBSET (1..n) /\ s # {}
    OBVIOUS
  <2>2. s \ {k + 1} = 1..k /\ k + 1 \in s /\ \A x \in s : x <= k + 1
    OBVIOUS
  <2> HIDE DEF s
  <2>3. Max(s) = k + 1
    BY <2>1, <2>2, MaxIs
  <2>4. f[s] = step[Max(s)][f[s \ {Max(s)}]]
    BY <2>1 DEF Folds
  <2> QED
    BY <2>2, <2>3, <2>4 DEF s
<1> QED
  BY <1>1, <1>2

\* What is accumulated of each prefix.
TakesSteps(g, n, base, step) ==
  /\ g[0] = base
  /\ \A k \in 0..(n-1) : g[k + 1] = step[k + 1][g[k]]

\* So it folds the prefixes one after the other.
LEMMA PrefixesOfFold ==
  ASSUME NEW n \in Nat, NEW base, NEW step, NEW f, Folds(f, n, base, step)
  PROVE  TakesSteps([k \in 0..n |-> f[1..k]], n, base, step)
<1> DEFINE g == [k \in 0..n |-> f[1..k]]
<1>1. /\ f[1..0] = base
      /\ \A k \in 0..(n-1) : f[1..(k + 1)] = step[k + 1][f[1..k]]
  BY FoldPrefixes
<1>2. g[0] = base
  BY <1>1
<1>3. ASSUME NEW k \in 0..(n-1) PROVE g[k + 1] = step[k + 1][g[k]]
  <2>1. k \in 0..n /\ k + 1 \in 0..n
    OBVIOUS
  <2>2. g[k] = f[1..k] /\ g[k + 1] = f[1..(k + 1)]
    BY <2>1
  <2> QED
    BY <1>1, <2>2
<1> QED
  BY <1>2, <1>3 DEF TakesSteps

\* The fold over indices, and the one over prefixes, exist.
LEMMA FoldLemma ==
  ASSUME NEW S, NEW base \in S, NEW n \in Nat, NEW step, IsStep(step, n, S)
  PROVE  /\ \E f \in [SUBSET (1..n) -> S] : Folds(f, n, base, step)
         /\ \E g \in [0..n -> S] : TakesSteps(g, n, base, step)
<1>1. PICK f \in [SUBSET (1..n) -> S] : Folds(f, n, base, step)
  BY FoldExists DEF IsStep
<1>2. [k \in 0..n |-> f[1..k]] \in [0..n -> S]
  OBVIOUS
<1>3. Folds(f, n, base, step)
  BY <1>1
<1>4. TakesSteps([k \in 0..n |-> f[1..k]], n, base, step)
  BY <1>3, PrefixesOfFold
<1> QED
  BY <1>1, <1>2, <1>4

\* What is folded, prefix by prefix, stays in a set that the step stays in.
LEMMA FoldGives ==
  ASSUME NEW S, NEW base \in S, NEW n \in Nat, NEW step, IsStep(step, n, S), NEW it,
         it[1..0] = base,
         \A k \in 0..(n-1) : it[1..k] \in S => it[1..(k + 1)] = step[k + 1][it[1..k]]
  PROVE  \E g \in [0..n -> S] : TakesSteps(g, n, base, step) /\ it[1..n] = g[n]
<1> DEFINE T == {k \in Nat : k <= n => it[1..k] \in S}
<1>1. 0 \in T
  OBVIOUS
<1>2. ASSUME NEW k \in Nat, k \in T PROVE k + 1 \in T
  <2> SUFFICES ASSUME k + 1 <= n PROVE it[1..(k + 1)] \in S
    OBVIOUS
  <2>1. k \in 0..(n-1) /\ k + 1 \in 1..n /\ k <= n
    OBVIOUS
  <2>2. it[1..k] \in S
    BY <1>2, <2>1
  <2>3. it[1..(k + 1)] = step[k + 1][it[1..k]]
    BY <2>1, <2>2
  <2> QED
    BY <2>1, <2>2, <2>3 DEF IsStep
<1> HIDE DEF T
<1>3. Nat \subseteq T
  BY <1>1, <1>2, Induction
<1>4. \A k \in 0..n : it[1..k] \in S
  BY <1>3 DEF T
<1> DEFINE g == [k \in 0..n |-> it[1..k]]
<1>5. g \in [0..n -> S] /\ g[n] = it[1..n]
  BY <1>4
<1>6. ASSUME NEW k \in 0..(n-1) PROVE g[k + 1] = step[k + 1][g[k]]
  <2>1. k \in 0..n /\ k + 1 \in 0..n
    OBVIOUS
  <2>2. g[k] = it[1..k] /\ g[k + 1] = it[1..(k + 1)]
    BY <2>1
  <2> QED
    BY <1>4, <2>1, <2>2
<1>7. g[0] = base
  OBVIOUS
<1>8. TakesSteps(g, n, base, step)
  BY <1>6, <1>7 DEF TakesSteps
<1> HIDE DEF g
<1> QED
  BY <1>5, <1>8

LEMMA MaxInInterval ==
  ASSUME NEW n \in Nat
  PROVE  \A s \in SUBSET (1..n) : s # {} =>
           /\ Max(s) \in s /\ Max(s) \in 1..n
           /\ s \ {Max(s)} \in SUBSET (1..n)
<1> SUFFICES ASSUME NEW s \in SUBSET (1..n), s # {} PROVE Max(s) \in s
  OBVIOUS
<1> QED
  BY MaxOfInterval

\* The step of the largest index comes last, as in the recursive function of
\* FoldLeft.
LargestLast(it, n, base, step, S) ==
  /\ it[{}] = base
  /\ \A s \in SUBSET (1..n) :
       s # {} /\ it[s \ {Max(s)}] \in S => it[s] = step[Max(s)][it[s \ {Max(s)}]]

\* Such a function is on the prefixes what the steps make of them.
LEMMA FoldTakesSteps ==
  ASSUME NEW S, NEW base \in S, NEW n \in Nat, NEW step, IsStep(step, n, S), NEW it,
         LargestLast(it, n, base, step, S)
  PROVE  \E g \in [0..n -> S] : TakesSteps(g, n, base, step) /\ it[1..n] = g[n]
<1>1. it[1..0] = base
  <2>1. 1..0 = {}
    OBVIOUS
  <2> QED
    BY <2>1 DEF LargestLast
<1>2. ASSUME NEW k \in 0..(n - 1), it[1..k] \in S
      PROVE  it[1..(k + 1)] = step[k + 1][it[1..k]]
  <2>1. 1..(k + 1) \in SUBSET (1..n) /\ 1..(k + 1) # {} /\ (1..(k + 1)) \ {k + 1} = 1..k
    BY IntervalSteps
  <2>2. Max(1..(k + 1)) = k + 1
    <3>1. 1..(k + 1) \in SUBSET Int /\ k + 1 \in 1..(k + 1) /\ \A x \in 1..(k + 1) : x <= k + 1
      OBVIOUS
    <3> QED
      BY <3>1, MaxIs
  <2> DEFINE s == 1..(k + 1)
  <2>3. s \in SUBSET (1..n) /\ s # {} /\ s \ {Max(s)} = 1..k /\ Max(s) = k + 1
    BY <2>1, <2>2
  <2> HIDE DEF s
  <2>4. it[s] = step[Max(s)][it[s \ {Max(s)}]]
    BY <1>2, <2>3 DEF LargestLast
  <2> QED
    BY <2>3, <2>4 DEF s
<1> QED
  BY <1>1, <1>2, FoldGives

-----------------------------------------------------------------------------
(* The elements of sequences. *)

\* The elements of a sequence, by its length.
LEMMA SetOfSeq ==
  ASSUME NEW T, NEW s \in Seq(T)
  PROVE  DOMAIN s = 1..Len(s) /\ ToSet(s) = {s[i] : i \in 1..Len(s)} /\ Len(s) \in Nat
<1>1. DOMAIN s = 1..Len(s)
  OBVIOUS
<1> QED
  BY <1>1 DEF ToSet

LEMMA ElementsOfSeq ==
  ASSUME NEW T, NEW s \in Seq(T)
  PROVE  ToSet(s) \subseteq T
BY SetOfSeq

\* A sequence that an element is appended to has its elements and that one.
LEMMA AppendedElement ==
  ASSUME NEW T, NEW s \in Seq(T), NEW e \in T
  PROVE  ToSet(Append(s, e)) = ToSet(s) \cup {e}
<1> DEFINE longer == Append(s, e)
           n == Len(s)
<1>1. /\ longer \in Seq(T) /\ Len(longer) = n + 1 /\ longer[n + 1] = e
      /\ \A i \in 1..n : longer[i] = s[i]
  OBVIOUS
<1>2. ToSet(s) = {s[i] : i \in 1..n} /\ n \in Nat
  BY SetOfSeq
<1>3. DOMAIN longer = 1..(n + 1)
  BY <1>1
<1>4. \A i \in 1..(n + 1) : i \in 1..n \/ i = n + 1
  BY <1>2
<1>5. \A i \in 1..n : i \in 1..(n + 1)
  BY <1>2
<1>6. n + 1 \in 1..(n + 1)
  BY <1>2
<1> HIDE DEF longer, n
<1>7. ToSet(longer) = {longer[i] : i \in 1..(n + 1)}
  BY <1>3 DEF ToSet
<1> QED
  BY <1>1, <1>2, <1>4, <1>5, <1>6, <1>7 DEF longer

-----------------------------------------------------------------------------
(* Sums over finite sets.  MapThenSumSet takes the elements in an order that *)
(* CHOOSE gives; the sum is the same in any other.                           *)

\* A set that has the empty set, and with a set each that has one more element,
\* has all finite sets.
LEMMA FiniteInduction ==
  ASSUME NEW S, IsFiniteSet(S), NEW T, {} \in T,
         \A s \in SUBSET S : \A x \in S \ s : s \in T => s \cup {x} \in T
  PROVE  SUBSET S \subseteq T
<1> DEFINE N == {n \in Nat : \A s \in SUBSET S : Cardinality(s) = n => s \in T}
<1>1. \A s \in SUBSET S : IsFiniteSet(s) /\ Cardinality(s) \in Nat
  BY FS_Subset, FS_CardinalityType
<1>2. 0 \in N
  BY <1>1, FS_EmptySet
<1>3. ASSUME NEW n \in Nat, n \in N PROVE n + 1 \in N
  <2> SUFFICES ASSUME NEW s \in SUBSET S, Cardinality(s) = n + 1 PROVE s \in T
    OBVIOUS
  <2>1. IsFiniteSet(s)
    BY <1>1
  <2>2. s # {}
    <3>1. n + 1 # 0
      OBVIOUS
    <3> QED
      BY <3>1, FS_EmptySet
  <2>3. PICK x \in s : TRUE
    BY <2>2
  <2>4. Cardinality(s \ {x}) = n
    <3>1. Cardinality(s \ {x}) = Cardinality(s) - 1
      BY <2>1, <2>3, FS_RemoveElement
    <3> QED
      BY <3>1
  <2>5. s \ {x} \in T
    BY <1>3, <2>4
  <2>6. (s \ {x}) \cup {x} = s /\ x \in S \ (s \ {x}) /\ s \ {x} \in SUBSET S
    BY <2>3
  <2> QED
    BY <2>5, <2>6
<1> HIDE DEF N
<1>4. Nat \subseteq N
  BY <1>2, <1>3, Induction
<1> QED
  BY <1>1, <1>4 DEF N

\* The images of finitely many elements are finitely many.
LEMMA FiniteImage ==
  ASSUME NEW S, IsFiniteSet(S), NEW h
  PROVE  IsFiniteSet({h[x] : x \in S})
<1> DEFINE Image(s) == {h[x] : x \in s}
           T == {s \in SUBSET S : IsFiniteSet(Image(s))}
<1>1. {} \in T
  <2>1. Image({}) = {}
    OBVIOUS
  <2> QED
    BY <2>1, FS_EmptySet
<1>2. ASSUME NEW s \in SUBSET S, NEW x \in S \ s, s \in T PROVE s \cup {x} \in T
  <2>1. Image(s \cup {x}) = Image(s) \cup {h[x]}
    OBVIOUS
  <2>2. IsFiniteSet(Image(s) \cup {h[x]})
    BY <1>2, FS_AddElement
  <2> QED
    BY <2>1, <2>2
<1> HIDE DEF T
<1>3. SUBSET S \subseteq T
  BY <1>1, <1>2, FiniteInduction
<1> QED
  BY <1>3 DEF T

\* The weights of the elements of S.
IsWeight(w, S) == w \in [S -> Nat]

\* The function that MapThenSumSet defines.
Sums(f, S, w) ==
  f = [s \in SUBSET S |->
         IF s = {} THEN 0
         ELSE w[CHOOSE x \in s : TRUE] + f[s \ {CHOOSE x \in s : TRUE}]]

\* A sum does not depend on which element is taken first.
Additive(f, S, w) ==
  /\ \A s \in SUBSET S : f[s] \in Nat
  /\ f[{}] = 0
  /\ \A s \in SUBSET S : \A x \in s : f[s] = w[x] + f[s \ {x}]

\* There are sums of all sets.
LEMMA AdditiveExists ==
  ASSUME NEW S, IsFiniteSet(S), NEW w, IsWeight(w, S)
  PROVE  \E f \in [SUBSET S -> Nat] : Additive(f, S, w)
<1> DEFINE T == {s \in SUBSET S : \E f \in [SUBSET s -> Nat] : Additive(f, s, w)}
<1>1. {} \in T
  <2> DEFINE f == [s \in SUBSET {} |-> 0]
  <2>1. f \in [SUBSET {} -> Nat] /\ Additive(f, {}, w)
    BY DEF Additive
  <2> QED
    BY <2>1
<1>2. ASSUME NEW s \in SUBSET S, NEW x \in S \ s, s \in T PROVE s \cup {x} \in T
  <2>1. PICK f \in [SUBSET s -> Nat] : Additive(f, s, w)
    BY <1>2
  <2> DEFINE all == s \cup {x}
             g == [t \in SUBSET all |-> IF x \in t THEN w[x] + f[t \ {x}] ELSE f[t]]
  <2>2. \A y \in all : w[y] \in Nat
    BY DEF IsWeight
  <2>3. ASSUME NEW t \in SUBSET all
        PROVE  t \ {x} \in SUBSET s /\ f[t \ {x}] \in Nat /\ (x \notin t => t \in SUBSET s)
    BY <2>1 DEF Additive
  <2>4. ASSUME NEW t \in SUBSET all PROVE g[t] \in Nat
    BY <2>2, <2>3 DEF Additive
  <2>5. g[{}] = 0
    BY <2>1 DEF Additive
  <2>6. ASSUME NEW t \in SUBSET all, NEW y \in t PROVE g[t] = w[y] + g[t \ {y}]
    <3>1. CASE y = x
      BY <3>1
    <3>2. CASE y # x /\ x \in t
      <4>1. g[t] = w[x] + f[t \ {x}] /\ g[t \ {y}] = w[x] + f[(t \ {y}) \ {x}]
        BY <3>2
      <4>2. f[t \ {x}] = w[y] + f[(t \ {x}) \ {y}]
        BY <2>1, <2>3, <3>2 DEF Additive
      <4>3. (t \ {x}) \ {y} = (t \ {y}) \ {x}
        OBVIOUS
      <4>4. w[x] \in Nat /\ w[y] \in Nat /\ f[(t \ {y}) \ {x}] \in Nat
        BY <2>2, <2>3
      <4>5. f[t \ {x}] = w[y] + f[(t \ {y}) \ {x}]
        BY <4>2, <4>3
      <4> HIDE DEF g
      <4> QED
        BY <4>1, <4>4, <4>5
    <3>3. CASE x \notin t
      <4>1. g[t] = f[t] /\ g[t \ {y}] = f[t \ {y}]
        BY <3>3
      <4>2. f[t] = w[y] + f[t \ {y}]
        BY <2>1, <2>3, <3>3 DEF Additive
      <4> HIDE DEF g
      <4> QED
        BY <4>1, <4>2
    <3> QED
      BY <3>1, <3>2, <3>3
  <2>7. g \in [SUBSET all -> Nat]
    BY <2>4
  <2> HIDE DEF g
  <2>8. Additive(g, all, w)
    BY <2>4, <2>5, <2>6 DEF Additive
  <2>9. all \in SUBSET S
    OBVIOUS
  <2> QED
    BY <2>7, <2>8, <2>9
<1> HIDE DEF T
<1>3. S \in T
  BY <1>1, <1>2, FiniteInduction
<1> QED
  BY <1>3 DEF T

\* The function that MapThenSumSet defines exists ...
LEMMA SumsExist ==
  ASSUME NEW S, IsFiniteSet(S), NEW w, IsWeight(w, S)
  PROVE  \E f \in [SUBSET S -> Nat] : Sums(f, S, w)
<1>1. PICK f \in [SUBSET S -> Nat] : Additive(f, S, w)
  BY AdditiveExists
<1> DEFINE h == [s \in SUBSET S |->
                   IF s = {} THEN 0
                   ELSE w[CHOOSE x \in s : TRUE] + f[s \ {CHOOSE x \in s : TRUE}]]
<1>2. ASSUME NEW s \in SUBSET S PROVE f[s] = h[s]
  <2>1. CASE s = {}
    BY <1>1, <2>1 DEF Additive
  <2>2. CASE s # {}
    <3>1. (CHOOSE x \in s : TRUE) \in s
      BY <2>2
    <3> QED
      BY <1>1, <2>2, <3>1 DEF Additive
  <2> QED
    BY <2>1, <2>2
<1>3. f = [s \in SUBSET S |-> f[s]] /\ h = [s \in SUBSET S |-> h[s]]
  OBVIOUS
<1> HIDE DEF h
<1>4. f = h
  BY <1>2, <1>3
<1> QED
  BY <1>4 DEF Sums, h

\* ... and is a sum.
LEMMA SumsAreAdditive ==
  ASSUME NEW S, IsFiniteSet(S), NEW w, IsWeight(w, S), NEW it, Sums(it, S, w)
  PROVE  Additive(it, S, w)
<1>1. PICK f \in [SUBSET S -> Nat] : Additive(f, S, w)
  BY AdditiveExists
<1> DEFINE N == {n \in Nat : \A s \in SUBSET S : Cardinality(s) = n => it[s] = f[s]}
<1>2. \A s \in SUBSET S : IsFiniteSet(s) /\ Cardinality(s) \in Nat
  BY FS_Subset, FS_CardinalityType
<1>3. it[{}] = 0
  <2>1. {} \in SUBSET S
    OBVIOUS
  <2> QED
    BY <2>1 DEF Sums
<1>4. 0 \in N
  <2>1. \A s \in SUBSET S : Cardinality(s) = 0 => s = {}
    BY <1>2, FS_EmptySet
  <2> QED
    BY <1>1, <1>3, <2>1 DEF Additive
<1>5. ASSUME NEW n \in Nat, n \in N PROVE n + 1 \in N
  <2> SUFFICES ASSUME NEW s \in SUBSET S, Cardinality(s) = n + 1 PROVE it[s] = f[s]
    OBVIOUS
  <2>1. IsFiniteSet(s)
    BY <1>2
  <2>2. s # {}
    <3>1. n + 1 # 0
      OBVIOUS
    <3> QED
      BY <3>1, FS_EmptySet
  <2> DEFINE x == CHOOSE y \in s : TRUE
  <2>3. x \in s
    BY <2>2
  <2>4. it[s] = w[x] + it[s \ {x}]
    BY <2>2 DEF Sums
  <2> HIDE DEF x
  <2>5. Cardinality(s \ {x}) = n
    <3>1. Cardinality(s \ {x}) = Cardinality(s) - 1
      BY <2>1, <2>3, FS_RemoveElement
    <3> QED
      BY <3>1
  <2>6. s \ {x} \in SUBSET S
    OBVIOUS
  <2>7. it[s \ {x}] = f[s \ {x}]
    BY <1>5, <2>5, <2>6
  <2>8. f[s] = w[x] + f[s \ {x}]
    BY <1>1, <2>3 DEF Additive
  <2> QED
    BY <2>4, <2>7, <2>8
<1> HIDE DEF N
<1>6. Nat \subseteq N
  BY <1>4, <1>5, Induction
<1>7. \A s \in SUBSET S : it[s] = f[s]
  BY <1>2, <1>6 DEF N
<1>8. \A s \in SUBSET S : \A x \in s : s \ {x} \in SUBSET S
  OBVIOUS
<1>9. \A s \in SUBSET S : it[s] \in Nat
  BY <1>1, <1>7 DEF Additive
<1>10. \A s \in SUBSET S : \A x \in s : it[s] = w[x] + it[s \ {x}]
  BY <1>1, <1>7, <1>8 DEF Additive
<1> QED
  BY <1>3, <1>9, <1>10 DEF Additive

\* A sum grows with its weights.
LEMMA SumIsMonotone ==
  ASSUME NEW S, IsFiniteSet(S), NEW w, IsWeight(w, S), NEW v, IsWeight(v, S),
         NEW f, Additive(f, S, w), NEW g, Additive(g, S, v), \A x \in S : w[x] <= v[x]
  PROVE  \A s \in SUBSET S : f[s] <= g[s]
<1> DEFINE T == {s \in SUBSET S : f[s] <= g[s]}
<1>1. {} \in T
  BY DEF Additive
<1>2. ASSUME NEW s \in SUBSET S, NEW x \in S \ s, s \in T PROVE s \cup {x} \in T
  <2>1. s \cup {x} \in SUBSET S /\ (s \cup {x}) \ {x} = s
    OBVIOUS
  <2>2. f[s \cup {x}] = w[x] + f[s] /\ g[s \cup {x}] = v[x] + g[s]
    BY <2>1 DEF Additive
  <2>3. w[x] \in Nat /\ v[x] \in Nat /\ f[s] \in Nat /\ g[s] \in Nat
    BY DEF IsWeight, Additive
  <2> QED
    BY <1>2, <2>1, <2>2, <2>3
<1> HIDE DEF T
<1>3. SUBSET S \subseteq T
  BY <1>1, <1>2, FiniteInduction
<1> QED
  BY <1>3 DEF T

\* A set that is divided in two.
Parts(u, s, t) == s \cap t = {} /\ s \cup t = u

\* The sum of a set that is divided in two is the sum of the sums of its parts.
LEMMA SumOfParts ==
  ASSUME NEW S, IsFiniteSet(S), NEW w, IsWeight(w, S), NEW f, Additive(f, S, w),
         NEW u \in SUBSET S, NEW s, NEW t, Parts(u, s, t)
  PROVE  f[u] = f[s] + f[t]
<1>0. s \in SUBSET S /\ t \in SUBSET S /\ s \cap t = {} /\ s \cup t = u
  BY DEF Parts
<1> DEFINE T == {r \in SUBSET S : r \subseteq t => f[s \cup r] = f[s] + f[r]}
<1>1. {} \in T
  <2>1. s \cup {} = s /\ f[s] \in Nat
    BY <1>0 DEF Additive
  <2> QED
    BY <2>1 DEF Additive
<1>2. ASSUME NEW r \in SUBSET S, NEW x \in S \ r, r \in T PROVE r \cup {x} \in T
  <2> SUFFICES ASSUME r \cup {x} \subseteq t
               PROVE  f[s \cup (r \cup {x})] = f[s] + f[r \cup {x}]
    OBVIOUS
  <2>1. /\ s \cup (r \cup {x}) \in SUBSET S /\ r \cup {x} \in SUBSET S
        /\ (s \cup (r \cup {x})) \ {x} = s \cup r /\ (r \cup {x}) \ {x} = r
        /\ r \subseteq t /\ s \cup r \in SUBSET S
    BY <1>0
  <2>2. f[s \cup (r \cup {x})] = w[x] + f[s \cup r]
    <3>1. \A q \in SUBSET S : \A y \in q : f[q] = w[y] + f[q \ {y}]
      BY DEF Additive
    <3>2. x \in s \cup (r \cup {x})
      OBVIOUS
    <3> QED
      BY <2>1, <3>1, <3>2
  <2>3. f[r \cup {x}] = w[x] + f[r]
    <3>1. \A q \in SUBSET S : \A y \in q : f[q] = w[y] + f[q \ {y}]
      BY DEF Additive
    <3>2. x \in r \cup {x}
      OBVIOUS
    <3> QED
      BY <2>1, <3>1, <3>2
  <2>4. f[s \cup r] = f[s] + f[r]
    BY <1>2, <2>1
  <2>5. w[x] \in Nat /\ f[s] \in Nat /\ f[r] \in Nat
    BY <1>0 DEF IsWeight, Additive
  <2> QED
    BY <2>2, <2>3, <2>4, <2>5
<1> HIDE DEF T
<1>3. SUBSET S \subseteq T
  BY <1>1, <1>2, FiniteInduction
<1>4. f[s \cup t] = f[s] + f[t]
  BY <1>0, <1>3 DEF T
<1> QED
  BY <1>0, <1>4

\* A sum is that of what its elements stand for, one for one.
LEMMA SumOfImage ==
  ASSUME NEW S, IsFiniteSet(S), NEW w, IsWeight(w, S), NEW f, Additive(f, S, w),
         NEW R, NEW v, NEW g, Additive(g, R, v),
         NEW h, \A x \in S : h[x] \in R /\ v[h[x]] = w[x],
         \A x, y \in S : h[x] = h[y] => x = y
  PROVE  \A s \in SUBSET S : f[s] = g[{h[x] : x \in s}]
<1> DEFINE Image(s) == {h[x] : x \in s}
           T == {s \in SUBSET S : f[s] = g[Image(s)]}
<1>1. {} \in T
  <2>1. Image({}) = {}
    OBVIOUS
  <2> QED
    BY <2>1 DEF Additive
<1>2. ASSUME NEW s \in SUBSET S, NEW x \in S \ s, s \in T PROVE s \cup {x} \in T
  <2>1. s \cup {x} \in SUBSET S /\ (s \cup {x}) \ {x} = s
    OBVIOUS
  <2>2. f[s \cup {x}] = w[x] + f[s]
    BY <2>1 DEF Additive
  <2>3. /\ Image(s \cup {x}) \in SUBSET R /\ h[x] \in Image(s \cup {x})
        /\ Image(s \cup {x}) \ {h[x]} = Image(s)
    OBVIOUS
  <2> HIDE DEF Image
  <2>4. g[Image(s \cup {x})] = v[h[x]] + g[Image(s \cup {x}) \ {h[x]}]
    BY <2>3 DEF Additive
  <2>5. g[Image(s \cup {x})] = v[h[x]] + g[Image(s)]
    BY <2>3, <2>4
  <2> QED
    BY <1>2, <2>1, <2>2, <2>5
<1> HIDE DEF T
<1>3. SUBSET S \subseteq T
  BY <1>1, <1>2, FiniteInduction
<1> QED
  BY <1>3 DEF T

\* The sum of sums is one of the sums of the weights.
LEMMA SumOfSums ==
  ASSUME NEW S, IsFiniteSet(S), NEW w, IsWeight(w, S), NEW v, IsWeight(v, S),
         NEW f, Additive(f, S, w), NEW g, Additive(g, S, v),
         NEW u, IsWeight(u, S), NEW h, Additive(h, S, u), \A x \in S : u[x] = w[x] + v[x]
  PROVE  \A s \in SUBSET S : h[s] = f[s] + g[s]
<1> DEFINE T == {s \in SUBSET S : h[s] = f[s] + g[s]}
<1>1. {} \in T
  BY DEF Additive
<1>2. ASSUME NEW s \in SUBSET S, NEW x \in S \ s, s \in T PROVE s \cup {x} \in T
  <2>1. s \cup {x} \in SUBSET S /\ (s \cup {x}) \ {x} = s
    OBVIOUS
  <2>2. /\ f[s \cup {x}] = w[x] + f[s] /\ g[s \cup {x}] = v[x] + g[s]
        /\ h[s \cup {x}] = u[x] + h[s]
    BY <2>1 DEF Additive
  <2>3. w[x] \in Nat /\ v[x] \in Nat /\ f[s] \in Nat /\ g[s] \in Nat
    BY DEF IsWeight, Additive
  <2> QED
    BY <1>2, <2>1, <2>2, <2>3
<1> HIDE DEF T
<1>3. SUBSET S \subseteq T
  BY <1>1, <1>2, FiniteInduction
<1> QED
  BY <1>3 DEF T

\* A sum of nothing but zeros is zero.
LEMMA SumOfZeros ==
  ASSUME NEW S, IsFiniteSet(S), NEW w, NEW f, Additive(f, S, w),
         NEW t \in SUBSET S, \A x \in t : w[x] = 0
  PROVE  f[t] = 0
<1> DEFINE T == {s \in SUBSET S : s \subseteq t => f[s] = 0}
<1>1. {} \in T
  BY DEF Additive
<1>2. ASSUME NEW s \in SUBSET S, NEW x \in S \ s, s \in T PROVE s \cup {x} \in T
  <2> SUFFICES ASSUME s \cup {x} \subseteq t PROVE f[s \cup {x}] = 0
    OBVIOUS
  <2>1. s \cup {x} \in SUBSET S /\ (s \cup {x}) \ {x} = s /\ s \subseteq t /\ x \in t
    OBVIOUS
  <2>2. f[s \cup {x}] = w[x] + f[s]
    <3>1. x \in s \cup {x}
      OBVIOUS
    <3>2. \A r \in SUBSET S : \A y \in r : f[r] = w[y] + f[r \ {y}]
      BY DEF Additive
    <3>3. f[s \cup {x}] = w[x] + f[(s \cup {x}) \ {x}]
      BY <2>1, <3>1, <3>2
    <3> QED
      BY <2>1, <3>3
  <2>3. w[x] = 0 /\ f[s] = 0
    BY <1>2, <2>1
  <2> QED
    BY <2>2, <2>3
<1> HIDE DEF T
<1>3. SUBSET S \subseteq T
  BY <1>1, <1>2, FiniteInduction
<1> QED
  BY <1>3 DEF T

\* The function that SumFunction defines gives sums.
LEMMA SumFunctionIsSum ==
  ASSUME NEW S, IsFiniteSet(S), NEW w, IsWeight(w, S)
  PROVE  \E f : Additive(f, S, w) /\ SumFunction(w) = f[S]
<1> DEFINE F(f) == [s \in SUBSET S |->
                      IF s = {} THEN 0
                      ELSE w[CHOOSE x \in s : TRUE] + f[s \ {CHOOSE x \in s : TRUE}]]
           it == CHOOSE f : f = F(f)
<1>1. SumFunction(w) = it[S]
  <2>1. DOMAIN w = S
    BY DEF IsWeight
  <2> QED
    BY <2>1 DEF SumFunction, SumFunctionOnSet, FoldFunctionOnSet, MapThenFoldSet
<1>2. it = F(it)
  <2>1. PICK f : Sums(f, S, w)
    BY SumsExist
  <2>2. f = F(f)
    BY <2>1 DEF Sums
  <2> HIDE DEF F
  <2> QED
    BY <2>2
<1>3. Sums(it, S, w)
  <2> HIDE DEF it
  <2> QED
    BY <1>2 DEF Sums
<1> HIDE DEF it, F
<1>4. Additive(it, S, w)
  BY <1>3, SumsAreAdditive
<1> QED
  BY <1>1, <1>4

\* So does the one for differences of weights, which may be negative.
LEMMA SumOfDifferences ==
  ASSUME NEW S, IsFiniteSet(S), NEW p, IsWeight(p, S), NEW q, IsWeight(q, S),
         NEW w, w = [x \in S |-> p[x] - q[x]]
  PROVE  SumFunction(w) = SumFunction(p) - SumFunction(q)
<1>p. PICK P : Additive(P, S, p) /\ SumFunction(p) = P[S]
  BY SumFunctionIsSum
<1>q. PICK Q : Additive(Q, S, q) /\ SumFunction(q) = Q[S]
  BY SumFunctionIsSum
<1> DEFINE F(f) == [s \in SUBSET S |->
                      IF s = {} THEN 0
                      ELSE w[CHOOSE x \in s : TRUE] + f[s \ {CHOOSE x \in s : TRUE}]]
           D == [s \in SUBSET S |-> P[s] - Q[s]]
           it == CHOOSE f : f = F(f)
<1>1. SumFunction(w) = it[S]
  <2>1. DOMAIN w = S
    OBVIOUS
  <2> QED
    BY <2>1 DEF SumFunction, SumFunctionOnSet, FoldFunctionOnSet, MapThenFoldSet
<1>2. ASSUME NEW s \in SUBSET S, NEW x \in s PROVE P[s] - Q[s] = w[x] + (P[s \ {x}] - Q[s \ {x}])
  <2>1. s \ {x} \in SUBSET S
    OBVIOUS
  <2>2. P[s] = p[x] + P[s \ {x}] /\ Q[s] = q[x] + Q[s \ {x}] /\ w[x] = p[x] - q[x]
    BY <1>p, <1>q DEF Additive
  <2>3. p[x] \in Nat /\ q[x] \in Nat /\ P[s \ {x}] \in Nat /\ Q[s \ {x}] \in Nat
    BY <1>p, <1>q, <2>1 DEF Additive, IsWeight
  <2> QED
    BY <2>2, <2>3
<1>3. D = F(D)
  <2>1. ASSUME NEW s \in SUBSET S PROVE D[s] = F(D)[s]
    <3>1. CASE s = {}
      BY <1>p, <1>q, <3>1 DEF Additive
    <3>2. CASE s # {}
      <4> DEFINE x == CHOOSE x \in s : TRUE
      <4>1. x \in s /\ s \ {x} \in SUBSET S
        BY <3>2
      <4>2. D[s] = P[s] - Q[s] /\ D[s \ {x}] = P[s \ {x}] - Q[s \ {x}]
        BY <4>1
      <4>3. F(D)[s] = w[x] + D[s \ {x}]
        BY <3>2
      <4> HIDE DEF x, D, F
      <4> QED
        BY <1>2, <4>1, <4>2, <4>3
    <3> QED
      BY <3>1, <3>2
  <2>2. D = [s \in SUBSET S |-> D[s]] /\ F(D) = [s \in SUBSET S |-> F(D)[s]]
    OBVIOUS
  <2> HIDE DEF D, F
  <2> QED
    BY <2>1, <2>2
<1>4. it = F(it)
  <2> HIDE DEF F, D
  <2> QED
    BY <1>3
<1> DEFINE N == {n \in Nat : \A s \in SUBSET S : Cardinality(s) = n => it[s] = P[s] - Q[s]}
<1>5. \A s \in SUBSET S : IsFiniteSet(s) /\ Cardinality(s) \in Nat
  BY FS_Subset, FS_CardinalityType
<1>6. ASSUME NEW s \in SUBSET S
      PROVE  it[s] = IF s = {} THEN 0
                     ELSE w[CHOOSE x \in s : TRUE] + it[s \ {CHOOSE x \in s : TRUE}]
  <2> HIDE DEF it
  <2> QED
    BY <1>4
<1> HIDE DEF it, F, D
<1>7. 0 \in N
  <2>1. \A s \in SUBSET S : Cardinality(s) = 0 => s = {}
    BY <1>5, FS_EmptySet
  <2>2. it[{}] = 0 /\ P[{}] = 0 /\ Q[{}] = 0
    BY <1>p, <1>q, <1>6 DEF Additive
  <2> QED
    BY <2>1, <2>2
<1>8. ASSUME NEW n \in Nat, n \in N PROVE n + 1 \in N
  <2> SUFFICES ASSUME NEW s \in SUBSET S, Cardinality(s) = n + 1 PROVE it[s] = P[s] - Q[s]
    OBVIOUS
  <2>1. IsFiniteSet(s)
    BY <1>5
  <2>2. s # {}
    <3>1. n + 1 # 0
      OBVIOUS
    <3> QED
      BY <3>1, FS_EmptySet
  <2> DEFINE x == CHOOSE y \in s : TRUE
  <2>3. x \in s
    BY <2>2
  <2>4. it[s] = w[x] + it[s \ {x}]
    BY <1>6, <2>2
  <2> HIDE DEF x
  <2>5. Cardinality(s \ {x}) = n
    <3>1. Cardinality(s \ {x}) = Cardinality(s) - 1
      BY <2>1, <2>3, FS_RemoveElement
    <3> QED
      BY <3>1
  <2>6. it[s \ {x}] = P[s \ {x}] - Q[s \ {x}]
    BY <1>8, <2>5
  <2> QED
    BY <1>2, <2>3, <2>4, <2>6
<1> HIDE DEF N
<1>9. Nat \subseteq N
  BY <1>7, <1>8, Induction
<1>10. it[S] = P[S] - Q[S]
  BY <1>5, <1>9 DEF N
<1> QED
  BY <1>p, <1>q, <1>1, <1>10

\* A sum of natural numbers is one, and is zero only if all of them are.
LEMMA SumIsNatural ==
  ASSUME NEW S, IsFiniteSet(S), NEW w, IsWeight(w, S)
  PROVE  SumFunction(w) \in Nat /\ (SumFunction(w) = 0 <=> \A x \in S : w[x] = 0)
<1>1. PICK f : Additive(f, S, w) /\ SumFunction(w) = f[S]
  BY SumFunctionIsSum
<1>2. f[S] \in Nat
  BY <1>1 DEF Additive
<1>3. ASSUME f[S] = 0, NEW x \in S PROVE w[x] = 0
  <2>1. f[S] = w[x] + f[S \ {x}] /\ w[x] \in Nat /\ f[S \ {x}] \in Nat
    BY <1>1 DEF Additive, IsWeight
  <2> QED
    BY <1>3, <2>1
<1>4. ASSUME \A x \in S : w[x] = 0 PROVE f[S] = 0
  BY <1>1, <1>4, SumOfZeros
<1> QED
  BY <1>1, <1>2, <1>3, <1>4

\* Of nothing it is zero.
LEMMA SumOfNone ==
  ASSUME NEW w, IsWeight(w, {})
  PROVE  SumFunction(w) = 0
<1>1. IsFiniteSet({})
  BY FS_EmptySet
<1> QED
  BY <1>1, SumIsNatural

\* Larger weights have a larger sum.
LEMMA SumGrows ==
  ASSUME NEW S, IsFiniteSet(S), NEW w, IsWeight(w, S), NEW v, IsWeight(v, S),
         \A x \in S : w[x] <= v[x]
  PROVE  SumFunction(w) <= SumFunction(v)
<1>1. PICK f : Additive(f, S, w) /\ SumFunction(w) = f[S]
  BY SumFunctionIsSum
<1>2. PICK g : Additive(g, S, v) /\ SumFunction(v) = g[S]
  BY SumFunctionIsSum
<1>3. \A s \in SUBSET S : f[s] <= g[s]
  BY <1>1, <1>2, SumIsMonotone
<1> QED
  BY <1>1, <1>2, <1>3

\* The sum of sums is the sum of all.
LEMMA SumsAdd ==
  ASSUME NEW S, IsFiniteSet(S), NEW w, IsWeight(w, S), NEW v, IsWeight(v, S),
         NEW u, IsWeight(u, S), \A x \in S : u[x] = w[x] + v[x]
  PROVE  SumFunction(u) = SumFunction(w) + SumFunction(v)
<1>1. PICK f : Additive(f, S, w) /\ SumFunction(w) = f[S]
  BY SumFunctionIsSum
<1>2. PICK g : Additive(g, S, v) /\ SumFunction(v) = g[S]
  BY SumFunctionIsSum
<1>3. PICK h : Additive(h, S, u) /\ SumFunction(u) = h[S]
  BY SumFunctionIsSum
<1>4. \A s \in SUBSET S : h[s] = f[s] + g[s]
  BY <1>1, <1>2, <1>3, SumOfSums
<1> QED
  BY <1>1, <1>2, <1>3, <1>4

\* Weights that are the same on a part, and zero on the rest, have the sum of the part.
LEMMA SumOfPart ==
  ASSUME NEW S, IsFiniteSet(S), NEW w, IsWeight(w, S),
         NEW t \in SUBSET S, NEW v, IsWeight(v, t),
         \A x \in t : v[x] = w[x], \A x \in S \ t : w[x] = 0
  PROVE  SumFunction(w) = SumFunction(v)
<1>1. PICK f : Additive(f, S, w) /\ SumFunction(w) = f[S]
  BY SumFunctionIsSum
<1>2. IsFiniteSet(t)
  BY FS_Subset
<1>3. PICK g : Additive(g, t, v) /\ SumFunction(v) = g[t]
  BY <1>2, SumFunctionIsSum
<1>4. Parts(S, t, S \ t)
  BY DEF Parts
<1>5. f[S] = f[t] + f[S \ t]
  BY <1>1, <1>4, SumOfParts
<1>6. f[S \ t] = 0
  <2> DEFINE r == S \ t
  <2>1. r \in SUBSET S /\ \A x \in r : w[x] = 0
    OBVIOUS
  <2> HIDE DEF r
  <2>2. f[r] = 0
    BY <1>1, <2>1, SumOfZeros
  <2> QED
    BY <2>2 DEF r
<1>7. f[t] = g[t]
  <2> DEFINE T == {s \in SUBSET t : f[s] = g[s]}
  <2>1. {} \in T
    BY <1>1, <1>3 DEF Additive
  <2>2. ASSUME NEW s \in SUBSET t, NEW x \in t \ s, s \in T PROVE s \cup {x} \in T
    <3>1. s \cup {x} \in SUBSET S /\ s \cup {x} \in SUBSET t /\ (s \cup {x}) \ {x} = s
      OBVIOUS
    <3>2. f[s \cup {x}] = w[x] + f[(s \cup {x}) \ {x}]
      BY <1>1, <3>1 DEF Additive
    <3>3. g[s \cup {x}] = v[x] + g[(s \cup {x}) \ {x}]
      BY <1>3, <3>1 DEF Additive
    <3> QED
      BY <2>2, <3>1, <3>2, <3>3
  <2> HIDE DEF T
  <2>3. SUBSET t \subseteq T
    BY <1>2, <2>1, <2>2, FiniteInduction
  <2> QED
    BY <2>3 DEF T
<1>8. f[t] \in Nat
  BY <1>1 DEF Additive
<1> QED
  BY <1>1, <1>3, <1>5, <1>6, <1>7, <1>8

\* A sum with one more element.
LEMMA SumWithOneMore ==
  ASSUME NEW S, IsFiniteSet(S), NEW w, IsWeight(w, S), NEW x, x \notin S,
         NEW v, IsWeight(v, S \cup {x}), \A y \in S : v[y] = w[y]
  PROVE  SumFunction(v) = SumFunction(w) + v[x]
<1> DEFINE U == S \cup {x}
           u == [y \in U |-> IF y = x THEN 0 ELSE v[y]]
           a == [y \in U |-> IF y = x THEN v[x] ELSE 0]
<1>0. IsFiniteSet(U) /\ x \in U
  BY FS_AddElement
<1>1. IsWeight(u, U) /\ IsWeight(a, U)
  BY DEF IsWeight
<1>2. SumFunction(v) = SumFunction(u) + SumFunction(a)
  <2>1. \A y \in U : v[y] = u[y] + a[y]
    BY DEF IsWeight
  <2>2. IsWeight(v, U)
    OBVIOUS
  <2> HIDE DEF u, a, U
  <2> QED
    BY <1>0, <1>1, <2>1, <2>2, SumsAdd
<1>3. SumFunction(u) = SumFunction(w)
  <2>1. S \in SUBSET U /\ (\A y \in S : w[y] = u[y]) /\ \A y \in U \ S : u[y] = 0
    OBVIOUS
  <2> HIDE DEF u, a, U
  <2> QED
    BY <1>0, <1>1, <2>1, SumOfPart
<1>4. SumFunction(a) = v[x]
  <2>1. PICK f : Additive(f, U, a) /\ SumFunction(a) = f[U]
    <3> HIDE DEF u, a, U
    <3> QED
      BY <1>0, <1>1, SumFunctionIsSum
  <2>2. f[U] = a[x] + f[U \ {x}] /\ a[x] = v[x] /\ v[x] \in Nat
    BY <2>1 DEF Additive, IsWeight
  <2>3. f[U \ {x}] = 0
    <3> DEFINE r == U \ {x}
    <3>1. r \in SUBSET U /\ \A y \in r : a[y] = 0
      OBVIOUS
    <3> HIDE DEF r, a, U
    <3>2. f[r] = 0
      BY <1>0, <2>1, <3>1, SumOfZeros
    <3> QED
      BY <3>2 DEF r
  <2> HIDE DEF a, U
  <2> QED
    BY <2>1, <2>2, <2>3
<1> HIDE DEF u, a, U
<1> QED
  BY <1>2, <1>3, <1>4

\* A sum of which one weight changes.
LEMMA SumWithOneChanged ==
  ASSUME NEW S, IsFiniteSet(S), NEW w, IsWeight(w, S), NEW v, IsWeight(v, S), NEW x \in S,
         \A y \in S \ {x} : v[y] = w[y]
  PROVE  SumFunction(v) + w[x] = SumFunction(w) + v[x]
<1> DEFINE R == S \ {x}
           r == [y \in R |-> w[y]]
<1>1. IsFiniteSet(R) /\ IsWeight(r, R) /\ R \cup {x} = S /\ x \notin R
  BY FS_Subset DEF IsWeight
<1>w. IsWeight(w, R \cup {x}) /\ IsWeight(v, R \cup {x})
  BY <1>1
<1>2. (\A y \in R : w[y] = r[y]) /\ \A y \in R : v[y] = r[y]
  OBVIOUS
<1> HIDE DEF R, r
<1>s. ASSUME NEW u, IsWeight(u, R \cup {x}), \A y \in R : u[y] = r[y]
      PROVE  SumFunction(u) = SumFunction(r) + u[x]
  BY <1>1, <1>s, SumWithOneMore
<1>3. SumFunction(w) = SumFunction(r) + w[x]
  BY <1>w, <1>2, <1>s
<1>4. SumFunction(v) = SumFunction(r) + v[x]
  BY <1>w, <1>2, <1>s
<1>5. SumFunction(r) \in Nat /\ w[x] \in Nat /\ v[x] \in Nat
  BY <1>1, SumIsNatural DEF IsWeight
<1> QED
  BY <1>3, <1>4, <1>5

\* A sum of which all weights but one are zero.
LEMMA SumOfOne ==
  ASSUME NEW S, IsFiniteSet(S), NEW w, IsWeight(w, S), NEW x \in S, \A y \in S \ {x} : w[y] = 0
  PROVE  SumFunction(w) = w[x]
<1> DEFINE z == [y \in S |-> 0]
<1>1. IsWeight(z, S) /\ z[x] = 0 /\ \A y \in S : z[y] = 0
  BY DEF IsWeight
<1>2. \A y \in S \ {x} : w[y] = z[y]
  OBVIOUS
<1> HIDE DEF z
<1>3. SumFunction(w) + z[x] = SumFunction(z) + w[x]
  BY <1>1, <1>2, SumWithOneChanged
<1>4. SumFunction(z) = 0 /\ SumFunction(w) \in Nat /\ w[x] \in Nat
  BY <1>1, SumIsNatural DEF IsWeight
<1> QED
  BY <1>1, <1>3, <1>4

\* A set has as many elements as the sum of a one for each.
LEMMA SumOfOnes ==
  ASSUME NEW S, IsFiniteSet(S), NEW t \in SUBSET S
  PROVE  SumFunction([x \in S |-> IF x \in t THEN 1 ELSE 0]) = Cardinality(t)
<1> DEFINE w(r) == [x \in S |-> IF x \in r THEN 1 ELSE 0]
           T == {r \in SUBSET S : SumFunction(w(r)) = Cardinality(r)}
<1>1. \A r \in SUBSET S : IsWeight(w(r), S)
  BY DEF IsWeight
<1>2. {} \in T
  <2>0. {} \in SUBSET S
    OBVIOUS
  <2>1. IsWeight(w({}), S) /\ \A x \in S : w({})[x] = 0
    <3>1. \A x \in S : w({})[x] = 0
      OBVIOUS
    <3> HIDE DEF w
    <3> QED
      BY <1>1, <2>0, <3>1
  <2> HIDE DEF w
  <2>2. SumFunction(w({})) = 0
    BY <2>1, SumIsNatural
  <2> QED
    BY <2>2, FS_EmptySet
<1>3. ASSUME NEW r \in SUBSET S, NEW x \in S \ r, r \in T PROVE r \cup {x} \in T
  <2>1. /\ IsWeight(w(r), S) /\ IsWeight(w(r \cup {x}), S) /\ x \in S
        /\ \A y \in S \ {x} : w(r \cup {x})[y] = w(r)[y]
    BY <1>1
  <2>2. w(r)[x] = 0 /\ w(r \cup {x})[x] = 1
    OBVIOUS
  <2> HIDE DEF w
  <2>3. SumFunction(w(r \cup {x})) + w(r)[x] = SumFunction(w(r)) + w(r \cup {x})[x]
    BY <2>1, SumWithOneChanged
  <2>4. SumFunction(w(r)) \in Nat /\ SumFunction(w(r \cup {x})) \in Nat
    BY <2>1, SumIsNatural
  <2>5. Cardinality(r \cup {x}) = Cardinality(r) + 1
    <3>1. IsFiniteSet(r)
      BY FS_Subset
    <3> QED
      BY <3>1, FS_AddElement
  <2> QED
    BY <1>3, <2>2, <2>3, <2>4, <2>5
<1> HIDE DEF T
<1>4. SUBSET S \subseteq T
  BY <1>2, <1>3, FiniteInduction
<1>5. t \in T
  BY <1>4
<1> QED
  BY <1>5 DEF T

-----------------------------------------------------------------------------
(* Sequences that grow by one element. *)

\* A set that has the empty sequence, and with a sequence all that are longer by
\* one, has all sequences.
LEMMA SequenceInduction ==
  ASSUME NEW E, NEW T, <<>> \in T,
         \A es \in Seq(E) : \A e \in E : es \in T => Append(es, e) \in T
  PROVE  Seq(E) \subseteq T
<1> DEFINE N == {n \in Nat : \A es \in Seq(E) : Len(es) = n => es \in T}
<1>1. 0 \in N
  OBVIOUS
<1>2. ASSUME NEW n \in Nat, n \in N PROVE n + 1 \in N
  <2> SUFFICES ASSUME NEW es \in Seq(E), Len(es) = n + 1 PROVE es \in T
    OBVIOUS
  <2> DEFINE front == [i \in 1..n |-> es[i]]
  <2>1. front \in Seq(E) /\ Len(front) = n
    OBVIOUS
  <2>2. es[n + 1] \in E
    OBVIOUS
  <2>3. es = Append(front, es[n + 1])
    <3>1. Append(front, es[n + 1]) \in Seq(E) /\ Len(Append(front, es[n + 1])) = n + 1
      BY <2>1, <2>2
    <3>2. \A i \in 1..(n + 1) : es[i] = Append(front, es[n + 1])[i]
      BY <2>1, <2>2
    <3> DEFINE whole == Append(front, es[n + 1])
    <3>3. DOMAIN es = 1..(n + 1) /\ DOMAIN whole = 1..(n + 1)
      BY <3>1
    <3>4. es = [i \in 1..(n + 1) |-> es[i]] /\ whole = [i \in 1..(n + 1) |-> whole[i]]
      BY <3>1, <3>3
    <3> HIDE DEF front, whole
    <3> QED
      BY <3>2, <3>4 DEF whole
  <2> HIDE DEF front
  <2> QED
    BY <1>2, <2>1, <2>2, <2>3
<1> HIDE DEF N
<1>3. Nat \subseteq N
  BY <1>1, <1>2, Induction
<1> QED
  BY <1>3 DEF N

\* The steps of a fold, when what a step does depends on the element alone.
Acts(act, es) == [k \in 1..Len(es) |-> act[es[k]]]

\* The result of a fold of es.
IsFoldOf(r, es, base, act, S) ==
  \E g \in [0..Len(es) -> S] : TakesSteps(g, Len(es), base, Acts(act, es)) /\ r = g[Len(es)]

\* Of a sequence that is longer by one it is one step further.
LEMMA FoldOfAppended ==
  ASSUME NEW E, NEW S, NEW base \in S, NEW act \in [E -> [S -> S]], NEW es \in Seq(E), NEW e \in E,
         NEW r, IsFoldOf(r, es, base, act, S),
         NEW q, IsFoldOf(q, Append(es, e), base, act, S)
  PROVE  r \in S /\ q = act[e][r]
<1> DEFINE n == Len(es)
           more == Append(es, e)
<1>1. n \in Nat /\ more \in Seq(E) /\ Len(more) = n + 1 /\ more[n + 1] = e
  OBVIOUS
<1>2. \A k \in 1..n : more[k] = es[k]
  OBVIOUS
<1> HIDE DEF n, more
<1>3. PICK g \in [0..n -> S] : TakesSteps(g, n, base, Acts(act, es)) /\ r = g[n]
  BY DEF IsFoldOf, n
<1>4. PICK h \in [0..(n + 1) -> S] : TakesSteps(h, n + 1, base, Acts(act, more)) /\ q = h[n + 1]
  BY <1>1 DEF IsFoldOf, more
<1>5. \A k \in 1..n : Acts(act, more)[k] = Acts(act, es)[k]
  BY <1>1, <1>2 DEF Acts, n
<1>6. Acts(act, more)[n + 1] = act[e]
  BY <1>1 DEF Acts
<1> DEFINE T == {k \in Nat : k <= n => h[k] = g[k]}
<1>7. 0 \in T
  BY <1>3, <1>4 DEF TakesSteps
<1>8. ASSUME NEW k \in Nat, k \in T PROVE k + 1 \in T
  <2> SUFFICES ASSUME k + 1 <= n PROVE h[k + 1] = g[k + 1]
    OBVIOUS
  <2>1. k \in 0..(n - 1) /\ k \in 0..((n + 1) - 1) /\ k + 1 \in 1..n /\ k <= n
    BY <1>1
  <2>2. g[k + 1] = Acts(act, es)[k + 1][g[k]] /\ h[k + 1] = Acts(act, more)[k + 1][h[k]]
    BY <1>3, <1>4, <2>1 DEF TakesSteps
  <2> QED
    BY <1>5, <1>8, <2>1, <2>2
<1> HIDE DEF T
<1>9. n \in T
  BY <1>1, <1>7, <1>8, Induction
<1>10. h[n] = g[n]
  BY <1>1, <1>9 DEF T
<1>11. n \in 0..((n + 1) - 1) /\ n \in 0..n
  BY <1>1
<1>12. h[n + 1] = Acts(act, more)[n + 1][h[n]]
  BY <1>4, <1>11 DEF TakesSteps
<1>13. g[n] \in S
  BY <1>11
<1> QED
  BY <1>3, <1>4, <1>6, <1>10, <1>12, <1>13

\* Of the empty sequence it is the base.
LEMMA FoldOfNone ==
  ASSUME NEW base, NEW act, NEW S, NEW r, IsFoldOf(r, <<>>, base, act, S)
  PROVE  r = base
<1>1. Len(<<>>) = 0
  OBVIOUS
<1> QED
  BY <1>1 DEF IsFoldOf, TakesSteps
=============================================================================

--------------------------- MODULE TeamExportProofs ---------------------------
(***************************************************************************)
(* Team exports, for any number of users, machines, pushes and files: what *)
(* is published stays, and what a merge counts is current.                 *)
(***************************************************************************)
EXTENDS TeamExport, FiniteSetTheorems, FoldLemmas, TLAPS

-----------------------------------------------------------------------------
(* Dedupe. *)

\* No user has two exports.
OnePerUser(es) == \A i, j \in DOMAIN es : es[i].user = es[j].user => i = j

LEMMA TimesAreNumbers == \A e \in Export : e.at \in Int /\ e.user \in User
BY BoundAssumption DEF Export, Time

\* An export is put in the place of the one of its user, or at the end.
LEMMA WithExportLemma ==
  ASSUME NEW latest \in Seq(Export), NEW e \in Export
  PROVE  \/ /\ \A i \in 1..Len(latest) : latest[i].user # e.user
            /\ WithExport(latest, e) = Append(latest, e)
         \/ \E same \in 1..Len(latest) :
              /\ latest[same].user = e.user
              /\ WithExport(latest, e) =
                   IF Newer(e, latest[same]) THEN [latest EXCEPT ![same] = e] ELSE latest
<1> DEFINE I == {i \in 1..Len(latest) : latest[i].user = e.user}
           same == SelectInSeq(latest, LAMBDA d : d.user = e.user)
<1>1. same = IF I # {} THEN Min(I) ELSE 0
  BY DEF SelectInSeq
<1>2. WithExport(latest, e) =
        IF same = 0 THEN Append(latest, e)
        ELSE IF Newer(e, latest[same]) THEN [latest EXCEPT ![same] = e]
        ELSE latest
  BY DEF WithExport, ReplaceAt
<1>3. CASE I = {}
  <2> HIDE DEF same
  <2> QED
    BY <1>1, <1>2, <1>3
<1>4. CASE I # {}
  <2>1. I \subseteq Nat
    OBVIOUS
  <2>2. PICK x \in I : \A y \in I : x <= y
    <3> HIDE DEF I
    <3> QED
      BY <1>4, <2>1, LeastElement
  <2>3. Min(I) \in I
    <3> HIDE DEF I
    <3> QED
      BY <2>2 DEF Min
  <2>4. same \in I /\ same # 0
    <3> HIDE DEF same
    <3> QED
      BY <1>1, <1>4, <2>3
  <2> HIDE DEF same
  <2> QED
    BY <1>2, <2>4
<1> QED
  BY <1>3, <1>4

\* The first element of a sequence is one of it, and the others are the rest.
LEMMA HeadAndTail ==
  ASSUME NEW T, NEW s \in Seq(T), s # <<>>
  PROVE  /\ Tail(s) \in Seq(T) /\ ToSet(s) = {Head(s)} \cup ToSet(Tail(s))
         /\ Head(s) \in ToSet(s) /\ ToSet(Tail(s)) \subseteq ToSet(s)
<1>1. /\ Tail(s) \in Seq(T) /\ Len(Tail(s)) = Len(s) - 1
      /\ Head(s) = s[1] /\ Len(s) >= 1
      /\ \A i \in 1..(Len(s) - 1) : Tail(s)[i] = s[i + 1]
  OBVIOUS
<1>2. /\ ToSet(s) = {s[i] : i \in 1..Len(s)} /\ Len(s) \in Nat
      /\ ToSet(Tail(s)) = {Tail(s)[i] : i \in 1..(Len(s) - 1)}
  BY <1>1, SetOfSeq
<1>3. ToSet(Tail(s)) \subseteq ToSet(s) /\ Head(s) \in ToSet(s)
  <2>1. \A i \in 1..(Len(s) - 1) : i + 1 \in 1..Len(s)
    BY <1>2
  <2> QED
    BY <1>1, <1>2, <2>1
<1>4. ToSet(s) \subseteq {Head(s)} \cup ToSet(Tail(s))
  <2> SUFFICES ASSUME NEW i \in 1..Len(s), i # 1 PROVE s[i] \in ToSet(Tail(s))
    BY <1>1, <1>2
  <2>1. i - 1 \in 1..(Len(s) - 1) /\ (i - 1) + 1 = i
    BY <1>2
  <2>2. Tail(s)[i - 1] = s[i]
    BY <1>1, <2>1
  <2> QED
    BY <1>2, <2>1, <2>2
<1> QED
  BY <1>1, <1>3, <1>4

\* So each user keeps one export, no older than the ones there were.
LEMMA WithExportKeeps ==
  ASSUME NEW latest \in Seq(Export), NEW e \in Export, OnePerUser(latest)
  PROVE  LET longer == WithExport(latest, e)
         IN  /\ longer \in Seq(Export)
             /\ OnePerUser(longer)
             /\ ToSet(longer) \subseteq ToSet(latest) \cup {e}
             /\ \A d \in ToSet(latest) \cup {e} :
                  \E x \in ToSet(longer) : x.user = d.user /\ x.at >= d.at
<1> DEFINE longer == WithExport(latest, e)
           n == Len(latest)
<1>0. n \in Nat /\ DOMAIN latest = 1..n /\ ToSet(latest) = {latest[i] : i \in 1..n}
  BY SetOfSeq
<1>1. e.at \in Int /\ \A i \in 1..n : latest[i] \in Export /\ latest[i].at \in Int
  BY TimesAreNumbers
<1>2. CASE /\ \A i \in 1..n : latest[i].user # e.user
           /\ longer = Append(latest, e)
  <2>1. /\ longer \in Seq(Export) /\ Len(longer) = n + 1 /\ longer[n + 1] = e
        /\ \A i \in 1..n : longer[i] = latest[i]
    BY <1>2
  <2> HIDE DEF longer, n
  <2>2. DOMAIN longer = 1..(n + 1) /\ \A i \in 1..(n + 1) : i \in 1..n \/ i = n + 1
    BY <1>0, <2>1
  <2>3. OnePerUser(longer)
    <3>1. \A i, j \in 1..n : longer[i].user = longer[j].user => i = j
      BY <1>0, <2>1 DEF OnePerUser
    <3>2. \A i \in 1..n : longer[i].user # longer[n + 1].user
      BY <1>2, <2>1
    <3> QED
      BY <2>2, <3>1, <3>2 DEF OnePerUser
  <2>4. ToSet(longer) = ToSet(latest) \cup {e}
    <3>1. ToSet(longer) = {longer[i] : i \in 1..(n + 1)}
      BY <2>2 DEF ToSet
    <3>2. \A i \in 1..n : i \in 1..(n + 1)
      BY <1>0
    <3>3. n + 1 \in 1..(n + 1)
      BY <1>0
    <3> QED
      BY <1>0, <2>1, <2>2, <3>1, <3>2, <3>3
  <2>5. \A d \in ToSet(longer) : d.at >= d.at
    <3>1. \A d \in ToSet(latest) : d.at \in Int
      BY <1>0, <1>1
    <3> QED
      BY <1>1, <2>4, <3>1
  <2> QED
    BY <2>1, <2>3, <2>4, <2>5 DEF longer
<1>3. ASSUME NEW same \in 1..n, latest[same].user = e.user,
             longer = IF Newer(e, latest[same]) THEN [latest EXCEPT ![same] = e] ELSE latest
      PROVE  /\ longer \in Seq(Export)
             /\ OnePerUser(longer)
             /\ ToSet(longer) \subseteq ToSet(latest) \cup {e}
             /\ \A d \in ToSet(latest) \cup {e} :
                  \E x \in ToSet(longer) : x.user = d.user /\ x.at >= d.at
  <2>1. CASE ~Newer(e, latest[same])
    <3>1. longer = latest
      BY <1>3, <2>1
    <3>2. e.at <= latest[same].at /\ latest[same] \in ToSet(latest)
      BY <1>0, <1>1, <2>1 DEF Newer
    <3>3. \A d \in ToSet(latest) : d.at >= d.at
      BY <1>0, <1>1
    <3> HIDE DEF longer, n
    <3> QED
      BY <1>1, <1>3, <3>1, <3>2, <3>3
  <2>2. CASE Newer(e, latest[same])
    <3>1. longer = [latest EXCEPT ![same] = e]
      BY <1>3, <2>2
    <3>2. longer \in Seq(Export) /\ Len(longer) = n
      BY <3>1
    <3>3. \A i \in 1..n : longer[i] = IF i = same THEN e ELSE latest[i]
      BY <3>1
    <3>4. e.at > latest[same].at
      BY <2>2 DEF Newer
    <3> HIDE DEF longer
    <3>5. DOMAIN longer = 1..n /\ ToSet(longer) = {longer[i] : i \in 1..n}
      BY <3>2, SetOfSeq
    <3> HIDE DEF n
    <3>6. \A i \in 1..n : longer[i].user = latest[i].user /\ longer[i].at >= latest[i].at
      BY <1>1, <1>3, <3>3, <3>4
    <3>7. OnePerUser(longer)
      BY <1>0, <3>5, <3>6 DEF OnePerUser
    <3>8. ToSet(longer) \subseteq ToSet(latest) \cup {e}
      BY <1>0, <3>3, <3>5
    <3>9. \A d \in ToSet(latest) : \E x \in ToSet(longer) : x.user = d.user /\ x.at >= d.at
      BY <1>0, <3>5, <3>6
    <3>10. longer[same] = e /\ longer[same] \in ToSet(longer) /\ e.at >= e.at
      BY <1>1, <3>3, <3>5
    <3> QED
      BY <3>2, <3>7, <3>8, <3>9, <3>10
  <2> QED
    BY <2>1, <2>2
<1>4. \/ /\ \A i \in 1..n : latest[i].user # e.user
         /\ longer = Append(latest, e)
      \/ \E same \in 1..n :
           /\ latest[same].user = e.user
           /\ longer = IF Newer(e, latest[same]) THEN [latest EXCEPT ![same] = e] ELSE latest
  BY WithExportLemma
<1> HIDE DEF longer, n
<1> QED
  BY <1>2, <1>3, <1>4 DEF longer

LEMMA WithExportTyped ==
  \A latest \in Seq(Export), e \in Export : WithExport(latest, e) \in Seq(Export)
<1> SUFFICES ASSUME NEW latest \in Seq(Export), NEW e \in Export
             PROVE  WithExport(latest, e) \in Seq(Export)
  OBVIOUS
<1>1. Append(latest, e) \in Seq(Export)
  OBVIOUS
<1>2. \A i \in 1..Len(latest) : [latest EXCEPT ![i] = e] \in Seq(Export)
  OBVIOUS
<1> QED
  BY <1>1, <1>2, WithExportLemma

\* Dedupe takes the exports one after the other.
LEMMA DedupeFold ==
  ASSUME NEW es \in Seq(Export)
  PROVE  \E g \in [0..Len(es) -> Seq(Export)] :
           /\ g[0] = <<>>
           /\ \A k \in 0..(Len(es) - 1) : g[k + 1] = WithExport(g[k], es[k + 1])
           /\ Dedupe(es) = g[Len(es)]
<1> DEFINE n == Len(es)
           S == Seq(Export)
           step == [k \in 1..n |-> [s \in S |-> WithExport(s, es[k])]]
           F(f) == [s \in SUBSET (1..n) |->
                      IF s = {} THEN <<>>
                      ELSE WithExport(f[s \ {Max(s)}], es[Max(s)])]
           it == CHOOSE f : f = F(f)
<1>0. n \in Nat
  OBVIOUS
<1>1. \A k \in 1..n : es[k] \in Export
  OBVIOUS
<1>2. <<>> \in S
  OBVIOUS
<1>3. \A s \in S, e \in Export : WithExport(s, e) \in S
  BY WithExportTyped
<1>4. Dedupe(es) = it[1..n]
  BY DOMAIN es = 1..n DEF Dedupe, FoldLeft, MapThenFoldSet
<1> HIDE DEF n, S
<1>5. IsStep(step, n, S)
  BY <1>1, <1>3 DEF IsStep
<1>6. PICK f0 \in [SUBSET (1..n) -> S] : Folds(f0, n, <<>>, step)
  <2> HIDE DEF step
  <2> QED
    BY <1>0, <1>2, <1>5, FoldLemma
<1>7. f0 = F(f0)
  <2>1. ASSUME NEW s \in SUBSET (1..n) PROVE f0[s] = F(f0)[s]
    <3>1. CASE s = {}
      BY <1>6, <3>1 DEF Folds
    <3>2. CASE s # {}
      <4>1. f0[s] = step[Max(s)][f0[s \ {Max(s)}]]
        BY <1>6, <3>2 DEF Folds
      <4>2. Max(s) \in 1..n /\ f0[s \ {Max(s)}] \in S
        BY <1>0, <3>2, MaxOfInterval
      <4> QED
        BY <3>2, <4>1, <4>2
    <3> QED
      BY <3>1, <3>2
  <2>2. f0 = [s \in SUBSET (1..n) |-> f0[s]] /\ F(f0) = [s \in SUBSET (1..n) |-> F(f0)[s]]
    OBVIOUS
  <2> HIDE DEF F
  <2> QED
    BY <2>1, <2>2
<1>8. it = F(it)
  <2> HIDE DEF F
  <2> QED
    BY <1>7
<1>9. it[1..0] = <<>>
  <2>1. 1..0 = {} /\ {} \in SUBSET (1..n)
    OBVIOUS
  <2>2. it[{}] = F(it)[{}]
    BY <1>8
  <2> HIDE DEF it
  <2> QED
    BY <2>1, <2>2
<1>10. ASSUME NEW k \in 0..(n - 1), it[1..k] \in S
       PROVE  it[1..(k + 1)] = step[k + 1][it[1..k]]
  <2>1. 1..(k + 1) \in SUBSET (1..n) /\ 1..(k + 1) # {} /\ (1..(k + 1)) \ {k + 1} = 1..k
    BY <1>0, IntervalSteps
  <2>2. Max(1..(k + 1)) = k + 1
    <3>1. 1..(k + 1) \in SUBSET Int /\ k + 1 \in 1..(k + 1) /\ \A x \in 1..(k + 1) : x <= k + 1
      OBVIOUS
    <3> QED
      BY <3>1, MaxIs
  <2>3. it[1..(k + 1)] = F(it)[1..(k + 1)]
    BY <1>8
  <2>4. k + 1 \in 1..n
    BY <1>0
  <2> HIDE DEF it
  <2>5. it[1..(k + 1)] = WithExport(it[1..k], es[k + 1])
    BY <2>1, <2>2, <2>3
  <2> QED
    BY <1>10, <2>4, <2>5
<1>11. PICK g \in [0..n -> S] : TakesSteps(g, n, <<>>, step) /\ it[1..n] = g[n]
  <2> HIDE DEF it, step, F
  <2> QED
    BY <1>0, <1>2, <1>5, <1>9, <1>10, FoldGives
<1>12. g[0] = <<>>
  BY <1>11 DEF TakesSteps
<1>13. ASSUME NEW k \in 0..(n - 1) PROVE g[k + 1] = WithExport(g[k], es[k + 1])
  <2>1. k \in 0..n /\ k + 1 \in 1..n /\ g[k] \in S
    BY <1>0
  <2>2. g[k + 1] = step[k + 1][g[k]]
    BY <1>11 DEF TakesSteps
  <2> QED
    BY <2>1, <2>2
<1> HIDE DEF it, step, F
<1> QED
  BY <1>4, <1>11, <1>12, <1>13 DEF n, S

LEMMA SpendTyped == \A e \in Export : e.payload.spend \in Nat
BY SpendAssumption DEF Export, Payload

LEMMA SpendIsNumber == \A s \in Nat, e \in Export : s + e.payload.spend \in Nat
BY SpendAssumption DEF Export, Payload

\* MergeMetrics adds up what the exports spend.
LEMMA MergeMetricsFold ==
  ASSUME NEW es \in Seq(Export)
  PROVE  \E g \in [0..Len(es) -> Nat] :
           /\ g[0] = 0
           /\ \A k \in 0..(Len(es) - 1) : g[k + 1] = g[k] + es[k + 1].payload.spend
           /\ MergeMetrics(es) = g[Len(es)]
<1> DEFINE n == Len(es)
           S == Nat
           step == [k \in 1..n |-> [s \in S |-> s + es[k].payload.spend]]
           F(f) == [s \in SUBSET (1..n) |->
                      IF s = {} THEN 0
                      ELSE f[s \ {Max(s)}] + es[Max(s)].payload.spend]
           it == CHOOSE f : f = F(f)
<1>0. n \in Nat
  OBVIOUS
<1>1. \A k \in 1..n : es[k] \in Export
  OBVIOUS
<1>2. 0 \in S
  OBVIOUS
<1>3. \A s \in S, e \in Export : s + e.payload.spend \in S
  BY SpendIsNumber
<1>4. MergeMetrics(es) = it[1..n]
  BY DOMAIN es = 1..n DEF MergeMetrics, FoldLeft, MapThenFoldSet
<1> HIDE DEF n, S
<1>5. IsStep(step, n, S)
  BY <1>1, <1>3 DEF IsStep
<1>6. PICK f0 \in [SUBSET (1..n) -> S] : Folds(f0, n, 0, step)
  <2> HIDE DEF step
  <2> QED
    BY <1>0, <1>2, <1>5, FoldLemma
<1>7. f0 = F(f0)
  <2>1. ASSUME NEW s \in SUBSET (1..n) PROVE f0[s] = F(f0)[s]
    <3>1. CASE s = {}
      BY <1>6, <3>1 DEF Folds
    <3>2. CASE s # {}
      <4>1. f0[s] = step[Max(s)][f0[s \ {Max(s)}]]
        BY <1>6, <3>2 DEF Folds
      <4>2. Max(s) \in 1..n /\ f0[s \ {Max(s)}] \in S
        BY <1>0, <3>2, MaxOfInterval
      <4> QED
        BY <3>2, <4>1, <4>2
    <3> QED
      BY <3>1, <3>2
  <2>2. f0 = [s \in SUBSET (1..n) |-> f0[s]] /\ F(f0) = [s \in SUBSET (1..n) |-> F(f0)[s]]
    OBVIOUS
  <2> HIDE DEF F
  <2> QED
    BY <2>1, <2>2
<1>8. it = F(it)
  <2> HIDE DEF F
  <2> QED
    BY <1>7
<1>9. it[1..0] = 0
  <2>1. 1..0 = {} /\ {} \in SUBSET (1..n)
    OBVIOUS
  <2>2. it[{}] = F(it)[{}]
    BY <1>8
  <2> HIDE DEF it
  <2> QED
    BY <2>1, <2>2
<1>10. ASSUME NEW k \in 0..(n - 1), it[1..k] \in S
       PROVE  it[1..(k + 1)] = step[k + 1][it[1..k]]
  <2>1. 1..(k + 1) \in SUBSET (1..n) /\ 1..(k + 1) # {} /\ (1..(k + 1)) \ {k + 1} = 1..k
    BY <1>0, IntervalSteps
  <2>2. Max(1..(k + 1)) = k + 1
    <3>1. 1..(k + 1) \in SUBSET Int /\ k + 1 \in 1..(k + 1) /\ \A x \in 1..(k + 1) : x <= k + 1
      OBVIOUS
    <3> QED
      BY <3>1, MaxIs
  <2>3. it[1..(k + 1)] = F(it)[1..(k + 1)]
    BY <1>8
  <2>4. k + 1 \in 1..n
    BY <1>0
  <2> HIDE DEF it
  <2>5. it[1..(k + 1)] = it[1..k] + es[k + 1].payload.spend
    BY <2>1, <2>2, <2>3
  <2> QED
    BY <1>10, <2>4, <2>5
<1>11. PICK g \in [0..n -> S] : TakesSteps(g, n, 0, step) /\ it[1..n] = g[n]
  <2> HIDE DEF it, step, F
  <2> QED
    BY <1>0, <1>2, <1>5, <1>9, <1>10, FoldGives
<1>12. g[0] = 0
  BY <1>11 DEF TakesSteps
<1>13. ASSUME NEW k \in 0..(n - 1) PROVE g[k + 1] = g[k] + es[k + 1].payload.spend
  <2>1. k \in 0..n /\ k + 1 \in 1..n /\ g[k] \in S
    BY <1>0
  <2>2. g[k + 1] = step[k + 1][g[k]]
    BY <1>11 DEF TakesSteps
  <2> QED
    BY <2>1, <2>2
<1> HIDE DEF it, step, F
<1> QED
  BY <1>4, <1>11, <1>12, <1>13 DEF n, S

\* The exports of a group, one after the other.
LEMMA ExportsOfFold ==
  ASSUME NEW es \in Seq(Export), NEW users
  PROVE  \E g \in [0..Len(es) -> Seq(Export)] :
           /\ g[0] = <<>>
           /\ \A k \in 0..(Len(es) - 1) : g[k + 1] = IF es[k + 1].user \in users THEN Append(g[k], es[k + 1]) ELSE g[k]
           /\ ExportsOf(users, es) = g[Len(es)]
<1> DEFINE n == Len(es)
           S == Seq(Export)
           step == [k \in 1..n |-> [s \in S |-> IF es[k].user \in users THEN Append(s, es[k]) ELSE s]]
           F(f) == [s \in SUBSET (1..n) |->
                      IF s = {} THEN <<>>
                      ELSE IF es[Max(s)].user \in users THEN Append(f[s \ {Max(s)}], es[Max(s)]) ELSE f[s \ {Max(s)}]]
           it == CHOOSE f : f = F(f)
<1>0. n \in Nat
  OBVIOUS
<1>1. \A k \in 1..n : es[k] \in Export
  OBVIOUS
<1>2. <<>> \in S
  OBVIOUS
<1>3. \A s \in S, e \in Export : (IF e.user \in users THEN Append(s, e) ELSE s) \in S
  OBVIOUS
<1>4. ExportsOf(users, es) = it[1..n]
  BY DOMAIN es = 1..n DEF ExportsOf, FoldLeft, MapThenFoldSet
<1> HIDE DEF n, S
<1>5. IsStep(step, n, S)
  BY <1>1, <1>3 DEF IsStep
<1>6. PICK f0 \in [SUBSET (1..n) -> S] : Folds(f0, n, <<>>, step)
  <2> HIDE DEF step
  <2> QED
    BY <1>0, <1>2, <1>5, FoldLemma
<1>7. f0 = F(f0)
  <2>1. ASSUME NEW s \in SUBSET (1..n) PROVE f0[s] = F(f0)[s]
    <3>1. CASE s = {}
      BY <1>6, <3>1 DEF Folds
    <3>2. CASE s # {}
      <4>1. f0[s] = step[Max(s)][f0[s \ {Max(s)}]]
        BY <1>6, <3>2 DEF Folds
      <4>2. Max(s) \in 1..n /\ f0[s \ {Max(s)}] \in S
        BY <1>0, <3>2, MaxOfInterval
      <4> QED
        BY <3>2, <4>1, <4>2
    <3> QED
      BY <3>1, <3>2
  <2>2. f0 = [s \in SUBSET (1..n) |-> f0[s]] /\ F(f0) = [s \in SUBSET (1..n) |-> F(f0)[s]]
    OBVIOUS
  <2> HIDE DEF F
  <2> QED
    BY <2>1, <2>2
<1>8. it = F(it)
  <2> HIDE DEF F
  <2> QED
    BY <1>7
<1>9. it[1..0] = <<>>
  <2>1. 1..0 = {} /\ {} \in SUBSET (1..n)
    OBVIOUS
  <2>2. it[{}] = F(it)[{}]
    BY <1>8
  <2> HIDE DEF it
  <2> QED
    BY <2>1, <2>2
<1>10. ASSUME NEW k \in 0..(n - 1), it[1..k] \in S
       PROVE  it[1..(k + 1)] = step[k + 1][it[1..k]]
  <2>1. 1..(k + 1) \in SUBSET (1..n) /\ 1..(k + 1) # {} /\ (1..(k + 1)) \ {k + 1} = 1..k
    BY <1>0, IntervalSteps
  <2>2. Max(1..(k + 1)) = k + 1
    <3>1. 1..(k + 1) \in SUBSET Int /\ k + 1 \in 1..(k + 1) /\ \A x \in 1..(k + 1) : x <= k + 1
      OBVIOUS
    <3> QED
      BY <3>1, MaxIs
  <2>3. it[1..(k + 1)] = F(it)[1..(k + 1)]
    BY <1>8
  <2>4. k + 1 \in 1..n
    BY <1>0
  <2> HIDE DEF it
  <2>5. it[1..(k + 1)] = IF es[k + 1].user \in users THEN Append(it[1..k], es[k + 1]) ELSE it[1..k]
    BY <2>1, <2>2, <2>3
  <2> QED
    BY <1>10, <2>4, <2>5
<1>11. PICK g \in [0..n -> S] : TakesSteps(g, n, <<>>, step) /\ it[1..n] = g[n]
  <2> HIDE DEF it, step, F
  <2> QED
    BY <1>0, <1>2, <1>5, <1>9, <1>10, FoldGives
<1>12. g[0] = <<>>
  BY <1>11 DEF TakesSteps
<1>13. ASSUME NEW k \in 0..(n - 1) PROVE g[k + 1] = IF es[k + 1].user \in users THEN Append(g[k], es[k + 1]) ELSE g[k]
  <2>1. k \in 0..n /\ k + 1 \in 1..n /\ g[k] \in S
    BY <1>0
  <2>2. g[k + 1] = step[k + 1][g[k]]
    BY <1>11 DEF TakesSteps
  <2> QED
    BY <2>1, <2>2
<1> HIDE DEF it, step, F
<1> QED
  BY <1>4, <1>11, <1>12, <1>13 DEF n, S

\* Of each user there is one export, of those there were, and none newer.
LEMMA DedupeLemma ==
  ASSUME NEW es \in Seq(Export)
  PROVE  /\ Dedupe(es) \in Seq(Export)
         /\ OnePerUser(Dedupe(es))
         /\ ToSet(Dedupe(es)) \subseteq ToSet(es)
         /\ \A d \in ToSet(es) : \E x \in ToSet(Dedupe(es)) : x.user = d.user /\ x.at >= d.at
<1> DEFINE n == Len(es)
           Of(k) == {es[i] : i \in 1..k}
<1>1. PICK g \in [0..n -> Seq(Export)] :
        /\ g[0] = <<>>
        /\ \A k \in 0..(n - 1) : g[k + 1] = WithExport(g[k], es[k + 1])
        /\ Dedupe(es) = g[n]
  BY DedupeFold
<1>2. n \in Nat /\ ToSet(es) = Of(n) /\ \A i \in 1..n : es[i] \in Export
  BY SetOfSeq
<1> HIDE DEF n
<1> DEFINE Good(k) == /\ OnePerUser(g[k])
                      /\ ToSet(g[k]) \subseteq Of(k)
                      /\ \A d \in Of(k) : \E x \in ToSet(g[k]) : x.user = d.user /\ x.at >= d.at
           T == {k \in Nat : k <= n => Good(k)}
<1>3. 0 \in T
  <2>1. DOMAIN <<>> = {} /\ Of(0) = {}
    OBVIOUS
  <2> QED
    BY <1>1, <2>1 DEF OnePerUser, ToSet
<1>4. ASSUME NEW k \in Nat, k \in T PROVE k + 1 \in T
  <2> SUFFICES ASSUME k + 1 <= n PROVE Good(k + 1)
    OBVIOUS
  <2>1. k \in 0..(n - 1) /\ k \in 0..n /\ k + 1 \in 1..n /\ k <= n
    BY <1>2
  <2>2. g[k] \in Seq(Export) /\ es[k + 1] \in Export /\ Good(k)
    BY <1>2, <1>4, <2>1
  <2>3. g[k + 1] = WithExport(g[k], es[k + 1])
    BY <1>1, <2>1
  <2>4. Of(k + 1) = Of(k) \cup {es[k + 1]}
    <3>1. \A i \in 1..(k + 1) : i \in 1..k \/ i = k + 1
      OBVIOUS
    <3>2. \A i \in 1..k : i \in 1..(k + 1)
      OBVIOUS
    <3>3. k + 1 \in 1..(k + 1)
      OBVIOUS
    <3> QED
      BY <3>1, <3>2, <3>3
  <2> HIDE DEF Of
  <2> DEFINE longer == WithExport(g[k], es[k + 1])
  <2>5. /\ longer \in Seq(Export)
        /\ OnePerUser(longer)
        /\ ToSet(longer) \subseteq ToSet(g[k]) \cup {es[k + 1]}
        /\ \A d \in ToSet(g[k]) \cup {es[k + 1]} :
             \E x \in ToSet(longer) : x.user = d.user /\ x.at >= d.at
    BY <2>2, WithExportKeeps
  <2>6. ASSUME NEW d \in Of(k + 1)
        PROVE  \E x \in ToSet(longer) : x.user = d.user /\ x.at >= d.at
    <3>1. CASE d = es[k + 1]
      BY <2>5, <3>1
    <3>2. CASE d \in Of(k)
      <4>1. PICK y \in ToSet(g[k]) : y.user = d.user /\ y.at >= d.at
        BY <2>2, <3>2
      <4>2. PICK x \in ToSet(longer) : x.user = y.user /\ x.at >= y.at
        BY <2>5
      <4>3. d \in Export
        BY <1>2, <2>1, <3>2 DEF Of
      <4> HIDE DEF longer
      <4>4. ToSet(longer) \subseteq Export /\ ToSet(g[k]) \subseteq Export
        BY <2>2, <2>5, ElementsOfSeq
      <4> QED
        BY <4>1, <4>2, <4>3, <4>4, TimesAreNumbers
    <3> QED
      BY <2>4, <3>1, <3>2
  <2> QED
    BY <2>2, <2>3, <2>4, <2>5, <2>6
<1> HIDE DEF T
<1>5. n \in T
  BY <1>2, <1>3, <1>4, Induction
<1>6. Good(n)
  <2> HIDE DEF Good
  <2>1. n \in Nat /\ n <= n
    BY <1>2
  <2> QED
    BY <1>5, <2>1 DEF T
<1> QED
  BY <1>1, <1>2, <1>6

LEMMA MergeMetricsTyped == \A es \in Seq(Export) : MergeMetrics(es) \in Nat
<1> SUFFICES ASSUME NEW es \in Seq(Export) PROVE MergeMetrics(es) \in Nat
  OBVIOUS
<1>1. PICK g \in [0..Len(es) -> Nat] : MergeMetrics(es) = g[Len(es)]
  BY MergeMetricsFold
<1>2. Len(es) \in 0..Len(es)
  OBVIOUS
<1> QED
  BY <1>1, <1>2

-----------------------------------------------------------------------------
(* Type correctness. *)

\* The payloads a push has loaded, and not yet written.
Mine(p) == payload[p] \cup {e.payload : e \in draft[p]}

Single(s) == \A x, y \in s : x = y

\* Each push has one payload at most, of a LoadEvents of its own.
PushInv ==
  /\ \A p \in Pusher :
       /\ Single(payload[p]) /\ Single(draft[p])
       /\ pc[p] # "loaded" => payload[p] = {}
       /\ pc[p] \in {"idle", "loaded"} => draft[p] = {}
       /\ draft[p] \subseteq issued
       /\ \A x \in Mine(p) : x.load <= pushes
  /\ \A p, q \in Pusher : \A x \in Mine(p), y \in Mine(q) : x.load = y.load => p = q

\* A file holds the export it is named for, of a push that is done with it.
FolderInv ==
  \A f \in DOMAIN folder : \A d \in folder[f] :
    /\ d \in issued
    /\ NameOf(d) = f
    /\ d.payload.load <= pushes
    /\ \A p \in Pusher : \A x \in Mine(p) : x.load # d.payload.load

FolderTyped(files) ==
  /\ DOMAIN files \subseteq FileName
  /\ \A f \in DOMAIN files : files[f] = {} \/ \E e \in Export : files[f] = {e}

TypeInv ==
  /\ TypeOK
  /\ payload \in [Pusher -> SUBSET Payload]
  /\ draft \in [Pusher -> SUBSET Export]
  /\ ToSet(paths) \subseteq DOMAIN folder

LEMMA NameLemma ==
  /\ \A e \in Export : NameOf(e) \in FileName
  /\ \A d, e : NameOf(d) = NameOf(e) <=> d.user = e.user /\ d.at = e.at
BY DEF NameOf, ExportFilename, Export, FileName

\* What is in a folder is of a set.
LEMMA FolderExports ==
  ASSUME TypeInv, NEW f \in DOMAIN folder
  PROVE  folder[f] \subseteq Export
BY DEF TypeInv, TypeOK

LEMMA LoadEventsType ==
  ASSUME TypeInv, NEW p \in Pusher, LoadEvents(p)
  PROVE  TypeInv'
<1>1. pushes \in 0..MaxPushes /\ pushes' = pushes + 1 /\ pushes < MaxPushes
  BY DEF LoadEvents, TypeInv, TypeOK
<1>2. pushes + 1 \in 1..MaxPushes /\ pushes' \in 0..MaxPushes
  BY <1>1, BoundAssumption
<1>3. [load |-> pushes + 1, spend |-> SpendAt[pushes + 1]] \in Payload
  BY <1>2 DEF Payload
<1>4. payload' \in [Pusher -> SUBSET Payload]
  BY <1>3 DEF LoadEvents, TypeInv
<1>5. pc' \in [Pusher -> {"idle", "loaded", "built", "opened"}]
  BY DEF LoadEvents, TypeInv, TypeOK
<1>6. UNCHANGED <<now, folder, draft, issued, mergeVars>>
  BY DEF LoadEvents
<1> QED
  BY <1>2, <1>4, <1>5, <1>6 DEF TypeInv, TypeOK, mergeVars

\* What a push makes of a payload is an export.
LEMMA SignedByTyped ==
  ASSUME now \in Time, NEW p \in Pusher, NEW data \in Payload
  PROVE  SignedBy(p, data) \in Export /\ SignedBy(p, data).payload = data
<1>1. UserOf[p] \in User /\ KeyOf[p] \in Key
  BY PusherAssumption DEF Key
<1> QED
  BY <1>1 DEF SignedBy, Export

LEMMA BuildType ==
  ASSUME TypeInv, NEW p \in Pusher, Build(p)
  PROVE  TypeInv'
<1>1. now \in Time /\ payload[p] \subseteq Payload
  BY DEF TypeInv, TypeOK
<1>2. {SignedBy(p, data) : data \in payload[p]} \subseteq Export
  BY <1>1, SignedByTyped
<1>3. draft' \in [Pusher -> SUBSET Export]
  BY <1>2 DEF Build, TypeInv
<1>4. issued' \subseteq Export
  BY <1>3 DEF Build, TypeInv, TypeOK
<1>5. payload' \in [Pusher -> SUBSET Payload]
  BY DEF Build, TypeInv
<1>6. pc' \in [Pusher -> {"idle", "loaded", "built", "opened"}]
  BY DEF Build, TypeInv, TypeOK
<1>7. UNCHANGED <<now, folder, pushes, mergeVars>>
  BY DEF Build
<1> QED
  BY <1>3, <1>4, <1>5, <1>6, <1>7 DEF TypeInv, TypeOK, mergeVars

LEMMA OpenExportType ==
  ASSUME TypeInv, NEW p \in Pusher, OpenExport(p)
  PROVE  TypeInv'
<1>1. PICK e \in draft[p] :
        folder' = [f \in {NameOf(e)} \cup DOMAIN folder |->
                     IF f = NameOf(e) THEN {} ELSE folder[f]]
  BY DEF OpenExport
<1>2. e \in Export /\ NameOf(e) \in FileName
  BY NameLemma DEF TypeInv
<1>3. /\ DOMAIN folder' = DOMAIN folder \cup {NameOf(e)}
      /\ folder'[NameOf(e)] = {}
      /\ \A f \in DOMAIN folder : f # NameOf(e) => folder'[f] = folder[f]
  BY <1>1
<1>4. FolderTyped(folder')
  <2>1. FolderTyped(folder)
    BY DEF FolderTyped, TypeInv, TypeOK
  <2>2. DOMAIN folder' \subseteq FileName
    BY <1>2, <1>3, <2>1 DEF FolderTyped
  <2>3. ASSUME NEW f \in DOMAIN folder'
        PROVE  folder'[f] = {} \/ \E d \in Export : folder'[f] = {d}
    BY <1>3, <2>1 DEF FolderTyped
  <2> QED
    BY <2>2, <2>3 DEF FolderTyped
<1>5. pc' \in [Pusher -> {"idle", "loaded", "built", "opened"}]
  BY DEF OpenExport, TypeInv, TypeOK
<1>6. UNCHANGED <<now, payload, draft, pushes, issued, mergeVars>>
  BY DEF OpenExport
<1> QED
  BY <1>3, <1>4, <1>5, <1>6 DEF FolderTyped, TypeInv, TypeOK, mergeVars

\* What a push leaves in the folder is its export, or the file as damaged.
LEMMA WrittenFolder ==
  ASSUME TypeInv, PushInv, NEW p \in Pusher, WriteExport(p)
  PROVE  \E e \in draft[p], contents \in {draft[p], {}} :
           /\ contents = {e} \/ contents = {}
           /\ draft[p] = {e}
           /\ DOMAIN folder' = DOMAIN folder
           /\ \A f \in DOMAIN folder :
                folder'[f] = IF f = NameOf(e) THEN contents ELSE folder[f]
<1>1. PICK e \in draft[p], contents \in {draft[p], {}} :
        folder' = [folder EXCEPT ![NameOf(e)] = contents]
  BY DEF WriteExport
<1>2. draft[p] = {e}
  BY DEF PushInv, Single
<1> QED
  BY <1>1, <1>2

LEMMA WriteExportType ==
  ASSUME TypeInv, PushInv, NEW p \in Pusher, WriteExport(p)
  PROVE  TypeInv'
<1>1. PICK e \in draft[p], contents \in {draft[p], {}} :
           /\ contents = {e} \/ contents = {}
           /\ draft[p] = {e}
           /\ DOMAIN folder' = DOMAIN folder
           /\ \A f \in DOMAIN folder :
                folder'[f] = IF f = NameOf(e) THEN contents ELSE folder[f]
  BY WrittenFolder
<1>2. e \in Export
  BY DEF TypeInv
<1>3. FolderTyped(folder')
  BY <1>1, <1>2 DEF FolderTyped, TypeInv, TypeOK
<1>4. draft' \in [Pusher -> SUBSET Export]
  BY DEF WriteExport, TypeInv
<1>5. pc' \in [Pusher -> {"idle", "loaded", "built", "opened"}]
  BY DEF WriteExport, TypeInv, TypeOK
<1>6. UNCHANGED <<now, payload, pushes, issued, mergeVars>>
  BY DEF WriteExport
<1> QED
  BY <1>1, <1>3, <1>4, <1>5, <1>6 DEF FolderTyped, TypeInv, TypeOK, mergeVars

LEMMA FailType ==
  ASSUME TypeInv, NEW p \in Pusher, Fail(p)
  PROVE  TypeInv'
<1>1. draft' \in [Pusher -> SUBSET Export] /\ payload' \in [Pusher -> SUBSET Payload]
  BY DEF Fail, TypeInv
<1>2. pc' \in [Pusher -> {"idle", "loaded", "built", "opened"}]
  BY DEF Fail, TypeInv, TypeOK
<1>3. UNCHANGED <<now, folder, pushes, issued, mergeVars>>
  BY DEF Fail
<1> QED
  BY <1>1, <1>2, <1>3 DEF TypeInv, TypeOK, mergeVars

\* The files that are given are in the folder.
LEMMA StartMergeType ==
  ASSUME TypeInv, NEW files \in SeqOf(DOMAIN folder, MaxFiles), NEW verifying \in BOOLEAN,
         StartMerge(files, verifying)
  PROVE  TypeInv'
<1>1. files \in Seq(DOMAIN folder)
  BY DEF SeqOf
<1>2. ToSet(files) \subseteq DOMAIN folder
  BY <1>1, ElementsOfSeq
<1>3. files \in Seq(FileName)
  <2>1. DOMAIN folder \subseteq FileName
    BY DEF TypeInv, TypeOK
  <2> QED
    BY <1>1, <2>1
<1>4. published' \subseteq Export
  BY <1>2, FolderExports DEF StartMerge
<1>5. UNCHANGED <<now, folder, pushVars, exports, kept, rollups>>
  BY DEF StartMerge
<1>6. lead' = "reading" /\ verify' \in BOOLEAN /\ paths' = files
  BY DEF StartMerge
<1> QED
  BY <1>2, <1>3, <1>4, <1>5, <1>6 DEF TypeInv, TypeOK, pushVars

LEMMA ReadExportType ==
  ASSUME TypeInv, ReadExport
  PROVE  TypeInv'
<1>0. paths \in Seq(FileName) /\ exports \in Seq(Export)
  BY DEF TypeInv, TypeOK
<1>1. UNCHANGED <<now, folder, pushVars, verify, published, kept, rollups>>
  BY DEF ReadExport
<1>2. CASE UNCHANGED <<paths, exports>>
  <2>1. lead' \in {"idle", "reading", "read", "verified", "rejected", "failed", "ok"}
    BY <1>2 DEF ReadExport, TypeInv, TypeOK
  <2> QED
    BY <1>1, <1>2, <2>1 DEF TypeInv, TypeOK, pushVars
<1>3. CASE paths # <<>> /\ folder[Head(paths)] # {}
  <2>1. /\ paths' = Tail(paths) /\ lead' = lead
        /\ \E e \in folder[Head(paths)] : exports' = Append(exports, e)
    BY <1>3 DEF ReadExport
  <2>2. /\ Head(paths) \in ToSet(paths) /\ ToSet(Tail(paths)) \subseteq ToSet(paths)
        /\ Tail(paths) \in Seq(FileName)
    BY <1>0, <1>3, HeadAndTail
  <2>3. folder[Head(paths)] \subseteq Export
    BY <2>2, FolderExports DEF TypeInv
  <2>4. exports' \in Seq(Export)
    BY <1>0, <2>1, <2>3
  <2> QED
    BY <1>1, <2>1, <2>2, <2>4 DEF TypeInv, TypeOK, pushVars
<1> QED
  BY <1>2, <1>3 DEF ReadExport

\* A merge ends with exports, and with one rollup.
LEMMA MergeExportsType ==
  ASSUME TypeInv, MergeExports
  PROVE  TypeInv' /\ rollups' = {[label |-> "all", spend |-> MergeMetrics(kept')]}
<1>1. kept' \in Seq(Export)
  BY DedupeLemma DEF MergeExports, TypeInv, TypeOK
<1>2. MergeMetrics(kept') \in Nat
  BY <1>1, MergeMetricsTyped
<1>3. DOMAIN << >> = {}
  OBVIOUS
<1>4. rollups' = {[label |-> "all", spend |-> MergeMetrics(kept')]}
  BY <1>3 DEF MergeExports, Rollup
<1>5. UNCHANGED <<now, folder, pushVars, verify, paths, exports, published>> /\ lead' = "ok"
  BY DEF MergeExports
<1> QED
  BY <1>1, <1>2, <1>4, <1>5 DEF TypeInv, TypeOK, pushVars

LEMMA TypeStep == TypeInv /\ PushInv /\ [Next]_vars => TypeInv'
<1> SUFFICES ASSUME TypeInv, PushInv, [Next]_vars PROVE TypeInv'
  OBVIOUS
<1>1. CASE VerifyExports
  <2>1. UNCHANGED <<now, folder, pushVars, verify, paths, exports, published, kept, rollups>>
    BY <1>1 DEF VerifyExports
  <2>2. lead' \in {"rejected", "verified"}
    BY <1>1 DEF VerifyExports
  <2> QED
    BY <2>1, <2>2 DEF TypeInv, TypeOK, pushVars
<1>2. CASE Tick
  <2>1. now' \in Time
    BY <1>2, BoundAssumption DEF Tick, TypeInv, TypeOK, Time
  <2>2. UNCHANGED <<folder, pushVars, mergeVars>>
    BY <1>2 DEF Tick
  <2> QED
    BY <2>1, <2>2 DEF TypeInv, TypeOK, pushVars, mergeVars
<1>3. CASE UNCHANGED vars
  BY <1>3 DEF vars, TypeInv, TypeOK, pushVars, mergeVars
<1> QED
  BY <1>1, <1>2, <1>3, LoadEventsType, BuildType, OpenExportType, WriteExportType, FailType,
     StartMergeType, ReadExportType, MergeExportsType DEF Next, Push, Merge

-----------------------------------------------------------------------------
(* Pushes, and the folder. *)

\* A step after which every push has what it had, or nothing, or the export of
\* the payload it had, keeps both invariants if the folder keeps to the exports.
LEMMA PushKept ==
  ASSUME PushInv, NEW p \in Pusher, \A q \in Pusher : Mine(q)' \subseteq Mine(q),
         UNCHANGED pushes, issued \subseteq issued',
         \A q \in Pusher : q # p => UNCHANGED <<pc[q], payload[q], draft[q]>>,
         /\ Single(payload'[p]) /\ Single(draft'[p])
         /\ pc'[p] # "loaded" => payload'[p] = {}
         /\ pc'[p] \in {"idle", "loaded"} => draft'[p] = {}
         /\ draft'[p] \subseteq issued'
  PROVE  PushInv'
<1>1. ASSUME NEW q \in Pusher
      PROVE  /\ Single(payload'[q]) /\ Single(draft'[q])
             /\ pc'[q] # "loaded" => payload'[q] = {}
             /\ pc'[q] \in {"idle", "loaded"} => draft'[q] = {}
             /\ draft'[q] \subseteq issued'
  BY DEF PushInv
<1>2. \A q \in Pusher : \A x \in Mine(q)' : x.load <= pushes'
  BY DEF PushInv
<1>3. \A q, r \in Pusher : \A x \in Mine(q)', y \in Mine(r)' : x.load = y.load => q = r
  BY DEF PushInv
<1> QED
  BY <1>1, <1>2, <1>3 DEF PushInv

LEMMA FolderKept ==
  ASSUME FolderInv, \A q \in Pusher : Mine(q)' \subseteq Mine(q),
         UNCHANGED pushes, issued \subseteq issued',
         \A f \in DOMAIN folder' :
           folder'[f] = {} \/ (f \in DOMAIN folder /\ folder'[f] = folder[f])
  PROVE  FolderInv'
<1> SUFFICES ASSUME NEW f \in DOMAIN folder', NEW d \in folder'[f]
             PROVE  /\ d \in issued' /\ NameOf(d) = f /\ d.payload.load <= pushes'
                    /\ \A p \in Pusher : \A x \in Mine(p)' : x.load # d.payload.load
  BY DEF FolderInv, NameOf, ExportFilename
<1>1. f \in DOMAIN folder /\ d \in folder[f]
  OBVIOUS
<1> QED
  BY <1>1 DEF FolderInv

\* The payload of a LoadEvents is told from all others by its number.
LEMMA PushLoadEvents ==
  ASSUME TypeInv, PushInv, FolderInv, NEW p \in Pusher, LoadEvents(p)
  PROVE  PushInv' /\ FolderInv'
<1> DEFINE new == [load |-> pushes + 1, spend |-> SpendAt[pushes + 1]]
<1>1. pushes \in 0..MaxPushes
  BY DEF TypeInv, TypeOK
<1>2. pushes \in Nat
  BY <1>1, BoundAssumption
<1>3. /\ pushes' = pushes + 1 /\ pc[p] = "idle" /\ UNCHANGED <<folder, draft, issued>>
      /\ payload'[p] = {new} /\ pc'[p] = "loaded"
      /\ \A q \in Pusher : q # p => UNCHANGED <<pc[q], payload[q], draft[q]>>
  BY DEF LoadEvents, TypeInv, TypeOK
<1>4. draft[p] = {} /\ draft'[p] = {}
  BY <1>3 DEF PushInv
<1>5. Mine(p)' = {new} /\ new.load = pushes + 1 /\ \A q \in Pusher : q # p => Mine(q)' = Mine(q)
  BY <1>3, <1>4 DEF Mine
<1>6. \A q \in Pusher : \A x \in Mine(q) : x.load \in Nat /\ x.load <= pushes
  <2>1. \A q \in Pusher : Mine(q) \subseteq Payload
    BY DEF Mine, TypeInv, Export
  <2>2. \A x \in Payload : x.load \in Nat
    BY DEF Payload
  <2> QED
    BY <2>1, <2>2 DEF PushInv
<1> HIDE DEF new
<1>7. PushInv'
  <2>1. ASSUME NEW q \in Pusher
        PROVE  /\ Single(payload'[q]) /\ Single(draft'[q])
               /\ pc'[q] # "loaded" => payload'[q] = {}
               /\ pc'[q] \in {"idle", "loaded"} => draft'[q] = {}
               /\ draft'[q] \subseteq issued'
    BY <1>3, <1>4 DEF PushInv, Single
  <2>2. \A q \in Pusher : \A x \in Mine(q)' : x.load <= pushes'
    BY <1>2, <1>3, <1>5, <1>6
  <2>3. \A q, r \in Pusher : \A x \in Mine(q)', y \in Mine(r)' : x.load = y.load => q = r
    BY <1>2, <1>5, <1>6 DEF PushInv
  <2> QED
    BY <2>1, <2>2, <2>3 DEF PushInv
<1>8. FolderInv'
  <2> SUFFICES ASSUME NEW f \in DOMAIN folder, NEW d \in folder[f]
               PROVE  /\ d \in issued' /\ NameOf(d) = f /\ d.payload.load <= pushes'
                      /\ \A q \in Pusher : \A x \in Mine(q)' : x.load # d.payload.load
    BY <1>3 DEF FolderInv, NameOf, ExportFilename
  <2>1. /\ d \in issued /\ NameOf(d) = f /\ d.payload.load <= pushes
        /\ \A q \in Pusher : \A x \in Mine(q) : x.load # d.payload.load
    BY DEF FolderInv
  <2>2. d.payload.load \in Nat
    BY <2>1 DEF TypeInv, TypeOK, Export, Payload
  <2> QED
    BY <1>2, <1>3, <1>5, <2>1, <2>2
<1> QED
  BY <1>7, <1>8

LEMMA PushBuild ==
  ASSUME TypeInv, PushInv, FolderInv, NEW p \in Pusher, Build(p)
  PROVE  PushInv' /\ FolderInv'
<1>1. now \in Time /\ payload[p] \subseteq Payload
  BY DEF TypeInv, TypeOK
<1>2. /\ UNCHANGED <<folder, pushes>> /\ issued' = issued \cup draft'[p]
      /\ payload'[p] = {} /\ pc'[p] = "built" /\ pc[p] = "loaded"
      /\ draft'[p] = {SignedBy(p, data) : data \in payload[p]}
      /\ \A q \in Pusher : q # p => UNCHANGED <<pc[q], payload[q], draft[q]>>
  BY DEF Build, TypeInv, TypeOK
<1>3. Mine(p)' \subseteq Mine(p) /\ Single(draft'[p])
  BY <1>1, <1>2, SignedByTyped DEF Mine, PushInv, Single
<1>4. \A q \in Pusher : Mine(q)' \subseteq Mine(q)
  BY <1>2, <1>3 DEF Mine
<1>5. PushInv'
  BY <1>2, <1>3, <1>4, PushKept DEF Single
<1>6. FolderInv'
  BY <1>2, <1>4, FolderKept
<1> QED
  BY <1>5, <1>6

LEMMA PushOpen ==
  ASSUME TypeInv, PushInv, FolderInv, NEW p \in Pusher, OpenExport(p)
  PROVE  PushInv' /\ FolderInv'
<1>1. /\ UNCHANGED <<payload, draft, pushes, issued>> /\ pc[p] = "built" /\ pc'[p] = "opened"
      /\ \A q \in Pusher : q # p => UNCHANGED pc[q]
  BY DEF OpenExport, TypeInv, TypeOK
<1>2. \A q \in Pusher : Mine(q)' \subseteq Mine(q)
  BY <1>1 DEF Mine
<1>3. PushInv'
  BY <1>1, <1>2, PushKept DEF PushInv
<1>4. \A f \in DOMAIN folder' :
        folder'[f] = {} \/ (f \in DOMAIN folder /\ folder'[f] = folder[f])
  BY DEF OpenExport
<1>5. FolderInv'
  BY <1>1, <1>2, <1>4, FolderKept
<1> QED
  BY <1>3, <1>5

\* The export that is written is no longer one of a push.
LEMMA PushWrite ==
  ASSUME TypeInv, PushInv, FolderInv, NEW p \in Pusher, WriteExport(p)
  PROVE  PushInv' /\ FolderInv'
<1>1. /\ UNCHANGED <<payload, pushes, issued>> /\ pc[p] = "opened" /\ pc'[p] = "idle"
      /\ draft'[p] = {}
      /\ \A q \in Pusher : q # p => UNCHANGED <<pc[q], draft[q]>>
  BY DEF WriteExport, TypeInv, TypeOK
<1>2. payload[p] = {} /\ Mine(p)' = {} /\ \A q \in Pusher : q # p => Mine(q)' = Mine(q)
  BY <1>1 DEF Mine, PushInv
<1>3. PushInv'
  BY <1>1, <1>2, PushKept DEF PushInv, Single
<1>4. PICK e \in draft[p], contents \in {draft[p], {}} :
           /\ contents = {e} \/ contents = {}
           /\ draft[p] = {e}
           /\ DOMAIN folder' = DOMAIN folder
           /\ \A f \in DOMAIN folder :
                folder'[f] = IF f = NameOf(e) THEN contents ELSE folder[f]
  BY WrittenFolder
<1>5. ASSUME NEW f \in DOMAIN folder, NEW d \in folder'[f]
      PROVE  /\ d \in issued' /\ NameOf(d) = f /\ d.payload.load <= pushes'
             /\ \A q \in Pusher : \A x \in Mine(q)' : x.load # d.payload.load
  <2>1. CASE d \in folder[f]
    BY <1>1, <1>2, <2>1 DEF FolderInv
  <2>2. CASE d = e /\ f = NameOf(e)
    <3>1. e.payload \in Mine(p) /\ e \in issued
      BY DEF Mine, PushInv
    <3>2. \A q \in Pusher : q # p => \A x \in Mine(q) : x.load # e.payload.load
      BY <3>1 DEF PushInv
    <3>3. e.payload.load <= pushes
      BY <3>1 DEF PushInv
    <3> QED
      BY <1>1, <1>2, <2>2, <3>1, <3>2, <3>3
  <2> QED
    BY <1>4, <1>5, <2>1, <2>2
<1>6. FolderInv'
  BY <1>4, <1>5 DEF FolderInv, NameOf, ExportFilename
<1> QED
  BY <1>3, <1>6

LEMMA PushFail ==
  ASSUME TypeInv, PushInv, FolderInv, NEW p \in Pusher, Fail(p)
  PROVE  PushInv' /\ FolderInv'
<1>1. /\ UNCHANGED <<folder, pushes, issued>> /\ pc'[p] = "idle"
      /\ payload'[p] = {} /\ draft'[p] = {}
      /\ \A q \in Pusher : q # p => UNCHANGED <<pc[q], payload[q], draft[q]>>
  BY DEF Fail, TypeInv, TypeOK
<1>2. \A q \in Pusher : Mine(q)' \subseteq Mine(q)
  BY <1>1 DEF Mine
<1>3. PushInv'
  BY <1>1, <1>2, PushKept DEF Single
<1>4. FolderInv'
  BY <1>1, <1>2, FolderKept
<1> QED
  BY <1>3, <1>4

LEMMA PushStep == TypeInv /\ PushInv /\ FolderInv /\ [Next]_vars => PushInv' /\ FolderInv'
<1> SUFFICES ASSUME TypeInv, PushInv, FolderInv, [Next]_vars PROVE PushInv' /\ FolderInv'
  OBVIOUS
<1>1. CASE UNCHANGED <<pushVars, folder>>
  BY <1>1 DEF pushVars, PushInv, FolderInv, Mine, NameOf, ExportFilename, Single
<1>2. Merge => UNCHANGED <<pushVars, folder>>
  BY DEF Merge, StartMerge, ReadExport, VerifyExports, MergeExports
<1>3. Tick => UNCHANGED <<pushVars, folder>>
  BY DEF Tick
<1>4. UNCHANGED vars => UNCHANGED <<pushVars, folder>>
  BY DEF vars
<1>5. ASSUME NEW p \in Pusher, Push(p) PROVE PushInv' /\ FolderInv'
  BY <1>5, PushLoadEvents, PushBuild, PushOpen, PushWrite, PushFail DEF Push
<1> QED
  BY <1>1, <1>2, <1>3, <1>4, <1>5 DEF Next

LEMMA PushInvariant == Spec => [](TypeInv /\ PushInv /\ FolderInv)
<1>1. Init => TypeInv /\ PushInv /\ FolderInv
  <2> SUFFICES ASSUME Init PROVE TypeInv /\ PushInv /\ FolderInv
    OBVIOUS
  <2>1. DOMAIN << >> = {} /\ ToSet(<< >>) = {}
    <3>1. DOMAIN << >> = {}
      OBVIOUS
    <3> QED
      BY <3>1 DEF ToSet
  <2>2. 0 \in Time /\ 0 \in 0..MaxPushes
    BY BoundAssumption DEF Time
  <2>3. << >> \in Seq(FileName)
    OBVIOUS
  <2>4. << >> \in Seq(Export)
    OBVIOUS
  <2>5. TypeOK
    BY <2>1, <2>2, <2>3, <2>4 DEF Init, TypeOK
  <2>6. /\ payload \in [Pusher -> SUBSET Payload] /\ draft \in [Pusher -> SUBSET Export]
        /\ \A p \in Pusher : payload[p] = {} /\ draft[p] = {}
    BY DEF Init
  <2>7. \A p \in Pusher : Mine(p) = {}
    BY <2>6 DEF Mine
  <2>8. PushInv
    BY <2>6, <2>7 DEF PushInv, Single
  <2>9. FolderInv
    BY <2>1 DEF Init, FolderInv
  <2> QED
    BY <2>1, <2>5, <2>6, <2>8, <2>9 DEF Init, TypeInv
<1> QED
  BY <1>1, TypeStep, PushStep, PTL DEF Spec

\* Team exports are type-correct: among others, a file holds one export or none,
\* and a merge makes one rollup, of numbers.
THEOREM TypeCorrect == Spec => []TypeOK
<1>1. TypeInv => TypeOK
  BY DEF TypeInv
<1> QED
  BY <1>1, PushInvariant, PTL

\* A push that opens or writes the file of a published export would have an
\* export of the same user and second, and another one than that.
LEMMA PublishedStep ==
  ASSUME TypeInv, PushInv, FolderInv, [Next]_vars, ~Collision',
         NEW f \in DOMAIN folder, folder[f] # {}
  PROVE  f \in DOMAIN folder' /\ folder'[f] = folder[f]
<1>1. ASSUME NEW p \in Pusher, NEW e \in draft[p], f = NameOf(e), UNCHANGED issued
      PROVE  FALSE
  <2>1. PICK d \in folder[f] : TRUE
    OBVIOUS
  <2>2. /\ d \in issued /\ NameOf(d) = NameOf(e)
        /\ \A x \in Mine(p) : x.load # d.payload.load
    BY <1>1, <2>1 DEF FolderInv
  <2>3. e \in issued /\ e.payload \in Mine(p)
    BY <1>1 DEF PushInv, Mine
  <2>4. d # e
    BY <2>2, <2>3
  <2>5. d.user = e.user /\ d.at = e.at
    BY <2>2, NameLemma
  <2> QED
    BY <1>1, <2>2, <2>3, <2>4, <2>5 DEF Collision
<1>2. ASSUME NEW p \in Pusher, OpenExport(p)
      PROVE  f \in DOMAIN folder' /\ folder'[f] = folder[f]
  <2>1. PICK e \in draft[p] :
          folder' = [g \in {NameOf(e)} \cup DOMAIN folder |->
                       IF g = NameOf(e) THEN {} ELSE folder[g]]
    BY <1>2 DEF OpenExport
  <2>2. f # NameOf(e)
    BY <1>1, <1>2 DEF OpenExport
  <2> QED
    BY <2>1, <2>2
<1>3. ASSUME NEW p \in Pusher, WriteExport(p)
      PROVE  f \in DOMAIN folder' /\ folder'[f] = folder[f]
  <2>1. PICK e \in draft[p], contents \in {draft[p], {}} :
           /\ DOMAIN folder' = DOMAIN folder
           /\ \A g \in DOMAIN folder :
                folder'[g] = IF g = NameOf(e) THEN contents ELSE folder[g]
    BY <1>3, WrittenFolder
  <2>2. f # NameOf(e)
    BY <1>1, <1>3 DEF WriteExport
  <2> QED
    BY <2>1, <2>2
<1>4. CASE UNCHANGED folder
  BY <1>4
<1>5. Merge => UNCHANGED folder
  BY DEF Merge, StartMerge, ReadExport, VerifyExports, MergeExports
<1>6. ASSUME NEW p \in Pusher, LoadEvents(p) \/ Build(p) \/ Fail(p) PROVE UNCHANGED folder
  BY <1>6 DEF LoadEvents, Build, Fail
<1> QED
  BY <1>2, <1>3, <1>4, <1>5, <1>6 DEF Next, Push, Tick, vars

\* What is published is neither damaged nor replaced, whatever pushes overlap
\* and wherever they fail, unless a user has two exports of the same second.
THEOREM PublishedIsKeptHolds == Spec => PublishedIsKept
<1>1. TypeInv /\ PushInv /\ FolderInv /\ [Next]_vars =>
        [~Collision' => \A f \in DOMAIN folder : folder[f] # {} =>
                          f \in DOMAIN folder' /\ folder'[f] = folder[f]]_vars
  BY PublishedStep
<1> QED
  BY <1>1, PushInvariant, PTL DEF Spec, PublishedIsKept

-----------------------------------------------------------------------------
(* The merge. *)

\* Every export that was there when the merge started has been read, or one of
\* the same user and second, or its file is still to be read.
ReadInv ==
  /\ lead = "idle" => exports = <<>> /\ published = {}
  /\ ToSet(exports) \subseteq issued
  /\ lead # "failed" =>
       \A e \in published :
         \/ \E k \in ToSet(exports) : k.user = e.user /\ k.at = e.at
         \/ lead = "reading" /\ NameOf(e) \in ToSet(paths)

\* A merge that has succeeded has counted what it has read.
CountInv ==
  lead = "ok" =>
    /\ kept = Dedupe(exports)
    /\ rollups = {[label |-> "all", spend |-> MergeMetrics(kept)]}

LEMMA ReadInvStart ==
  ASSUME TypeInv, FolderInv, ReadInv, NEW files \in SeqOf(DOMAIN folder, MaxFiles),
         NEW verifying \in BOOLEAN, StartMerge(files, verifying)
  PROVE  ReadInv'
<1>1. files \in Seq(DOMAIN folder)
  BY DEF SeqOf
<1>2. ToSet(files) \subseteq DOMAIN folder
  BY <1>1, ElementsOfSeq
<1>3. /\ exports = <<>> /\ paths' = files /\ lead' = "reading" /\ UNCHANGED <<exports, issued>>
      /\ published' = UNION {folder[f] : f \in ToSet(files)}
  BY DEF StartMerge, ReadInv, pushVars
<1>4. \A e \in published' : NameOf(e) \in ToSet(files)
  BY <1>2, <1>3 DEF FolderInv
<1> QED
  BY <1>3, <1>4 DEF ReadInv, NameOf, ExportFilename

LEMMA ReadInvRead ==
  ASSUME TypeInv, FolderInv, ReadInv, ReadExport
  PROVE  ReadInv'
<1>0. paths \in Seq(FileName) /\ exports \in Seq(Export)
  BY DEF TypeInv, TypeOK
<1>1. UNCHANGED <<issued, published>> /\ lead = "reading"
  BY DEF ReadExport, pushVars
<1>2. CASE paths = <<>>
  <2>1. UNCHANGED exports /\ lead' = "read"
    BY <1>2 DEF ReadExport
  <2>2. ToSet(paths) = {}
    <3>1. DOMAIN << >> = {}
      OBVIOUS
    <3> QED
      BY <1>2, <3>1 DEF ToSet
  <2> QED
    BY <1>1, <2>1, <2>2 DEF ReadInv
<1>3. CASE paths # <<>> /\ folder[Head(paths)] = {}
  <2>1. UNCHANGED exports /\ lead' = "failed"
    BY <1>3 DEF ReadExport
  <2> QED
    BY <1>1, <2>1 DEF ReadInv
<1>4. CASE paths # <<>> /\ folder[Head(paths)] # {}
  <2>1. PICK e \in folder[Head(paths)] : exports' = Append(exports, e)
    BY <1>4 DEF ReadExport
  <2>2. paths' = Tail(paths) /\ lead' = lead
    BY <1>4 DEF ReadExport
  <2>3. /\ ToSet(paths) = {Head(paths)} \cup ToSet(Tail(paths))
        /\ Head(paths) \in ToSet(paths)
    BY <1>0, <1>4, HeadAndTail
  <2>4. Head(paths) \in DOMAIN folder
    BY <2>3 DEF TypeInv
  <2>5. e \in Export /\ e \in issued /\ NameOf(e) = Head(paths)
    BY <2>1, <2>4, FolderExports DEF FolderInv
  <2>6. ToSet(Append(exports, e)) = ToSet(exports) \cup {e}
    BY <1>0, <2>5, AppendedElement
  <2>7. ASSUME NEW d \in published
        PROVE  \/ \E k \in ToSet(exports') : k.user = d.user /\ k.at = d.at
               \/ NameOf(d) \in ToSet(paths')
    <3>1. CASE \E k \in ToSet(exports) : k.user = d.user /\ k.at = d.at
      BY <2>1, <2>6, <3>1
    <3>2. CASE NameOf(d) \in ToSet(Tail(paths))
      BY <2>2, <3>2
    <3>3. CASE NameOf(d) = Head(paths)
      <4>1. e.user = d.user /\ e.at = d.at
        BY <2>5, <3>3, NameLemma
      <4> QED
        BY <2>1, <2>6, <4>1
    <3> QED
      BY <1>1, <2>3, <2>7, <3>1, <3>2, <3>3 DEF ReadInv
  <2>8. ToSet(exports') \subseteq issued'
    BY <1>1, <2>1, <2>5, <2>6 DEF ReadInv
  <2> QED
    BY <1>1, <2>2, <2>7, <2>8 DEF ReadInv, NameOf, ExportFilename
<1> QED
  BY <1>2, <1>3, <1>4

LEMMA ReadStep ==
  TypeInv /\ FolderInv /\ ReadInv /\ CountInv /\ [Next]_vars => ReadInv' /\ CountInv'
<1> SUFFICES ASSUME TypeInv, FolderInv, ReadInv, CountInv, [Next]_vars
             PROVE  ReadInv' /\ CountInv'
  OBVIOUS
<1>1. ASSUME NEW files \in SeqOf(DOMAIN folder, MaxFiles), NEW verifying \in BOOLEAN,
             StartMerge(files, verifying)
      PROVE  ReadInv' /\ CountInv'
  <2>1. lead' = "reading"
    BY <1>1 DEF StartMerge
  <2> QED
    BY <1>1, <2>1, ReadInvStart DEF CountInv
<1>2. CASE ReadExport
  <2>1. lead' \in {"reading", "read", "failed"}
    BY <1>2 DEF ReadExport
  <2> QED
    BY <1>2, <2>1, ReadInvRead DEF CountInv
<1>3. CASE VerifyExports
  <2>1. lead = "read" /\ lead' \in {"rejected", "verified"}
    BY <1>3 DEF VerifyExports
  <2>2. UNCHANGED <<issued, paths, exports, published>>
    BY <1>3 DEF VerifyExports, pushVars
  <2> QED
    BY <2>1, <2>2 DEF ReadInv, CountInv
<1>4. CASE MergeExports
  <2>1. /\ lead = "verified" /\ lead' = "ok" /\ kept' = Dedupe(exports)
        /\ UNCHANGED <<issued, paths, exports, published>>
    BY <1>4 DEF MergeExports, pushVars
  <2>2. rollups' = {[label |-> "all", spend |-> MergeMetrics(kept')]}
    BY <1>4, MergeExportsType
  <2>3. ReadInv'
    BY <2>1 DEF ReadInv
  <2>4. CountInv'
    BY <2>1, <2>2 DEF CountInv
  <2> QED
    BY <2>3, <2>4
<1>5. CASE UNCHANGED mergeVars /\ issued \subseteq issued'
  <2>1. ReadInv'
    BY <1>5 DEF mergeVars, ReadInv, NameOf, ExportFilename
  <2>2. CountInv'
    BY <1>5 DEF mergeVars, CountInv
  <2> QED
    BY <2>1, <2>2
<1>6. ASSUME NEW p \in Pusher, Push(p) PROVE UNCHANGED mergeVars /\ issued \subseteq issued'
  BY <1>6 DEF Push, LoadEvents, Build, OpenExport, WriteExport, Fail
<1>7. Tick \/ UNCHANGED vars => UNCHANGED mergeVars /\ issued \subseteq issued'
  BY DEF Tick, vars, pushVars
<1> QED
  BY <1>1, <1>2, <1>3, <1>4, <1>5, <1>6, <1>7 DEF Next, Merge

LEMMA ReadInvariant == Spec => [](ReadInv /\ CountInv)
<1>1. Init => ReadInv /\ CountInv
  <2>1. DOMAIN << >> = {}
    OBVIOUS
  <2> QED
    BY <2>1 DEF Init, ReadInv, CountInv, ToSet
<1> QED
  BY <1>1, ReadStep, PushInvariant, PTL DEF Spec

\* Whatever is pushed while the files are read, a merge counts for each user the
\* newest export there was when it started, or a newer one.
THEOREM MergeIsCurrentHolds == Spec => []MergeIsCurrent
<1>1. TypeInv /\ ReadInv /\ CountInv => MergeIsCurrent
  <2> SUFFICES ASSUME TypeInv, ReadInv, CountInv, lead = "ok", NEW e \in published
               PROVE  \E k \in ToSet(kept) : k.user = e.user /\ k.at >= e.at
    BY DEF MergeIsCurrent
  <2>1. exports \in Seq(Export) /\ published \subseteq Export
    BY DEF TypeInv, TypeOK
  <2>2. PICK d \in ToSet(exports) : d.user = e.user /\ d.at = e.at
    BY DEF ReadInv
  <2>3. kept = Dedupe(exports)
    BY DEF CountInv
  <2>4. PICK k \in ToSet(kept) : k.user = d.user /\ k.at >= d.at
    BY <2>1, <2>3, DedupeLemma
  <2> QED
    BY <2>2, <2>4
<1> QED
  BY <1>1, ReadInvariant, PushInvariant, PTL

-----------------------------------------------------------------------------
(* What the rollups add up to. *)

\* What the exports of a set spend.
SpendOfSet(es) == MapThenSumSet(LAMBDA e : e.payload.spend, es)

Spends(es) == [e \in es |-> e.payload.spend]

\* It is a sum, whatever the order.
LEMMA SpendIsSum ==
  ASSUME NEW es, IsFiniteSet(es), es \subseteq Export
  PROVE  \E f : Additive(f, es, Spends(es)) /\ SpendOfSet(es) = f[es]
<1> DEFINE F(f) == [s \in SUBSET es |->
                      IF s = {} THEN 0
                      ELSE (CHOOSE x \in s : TRUE).payload.spend + f[s \ {CHOOSE x \in s : TRUE}]]
           it == CHOOSE f : f = F(f)
<1>1. SpendOfSet(es) = it[es]
  BY DEF SpendOfSet, MapThenSumSet, MapThenFoldSet
<1>2. IsWeight(Spends(es), es)
  BY SpendTyped DEF IsWeight, Spends
<1>c. ASSUME NEW s \in SUBSET es, s # {}
      PROVE  Spends(es)[CHOOSE x \in s : TRUE] = (CHOOSE x \in s : TRUE).payload.spend
  <2>1. (CHOOSE x \in s : TRUE) \in es
    BY <1>c
  <2> QED
    BY <2>1 DEF Spends
<1>3. ASSUME NEW f, Sums(f, es, Spends(es)) PROVE f = F(f)
  BY <1>3, <1>c DEF Sums
<1>4. ASSUME NEW f, f = F(f) PROVE Sums(f, es, Spends(es))
  BY <1>4, <1>c DEF Sums
<1>5. it = F(it)
  <2>1. PICK f : Sums(f, es, Spends(es))
    BY <1>2, SumsExist
  <2>2. f = F(f)
    BY <1>3, <2>1
  <2> HIDE DEF F
  <2> QED
    BY <2>2
<1> HIDE DEF it
<1>6. Additive(it, es, Spends(es))
  BY <1>2, <1>4, <1>5, SumsAreAdditive
<1> QED
  BY <1>1, <1>6

\* The elements of a sequence are finitely many.
LEMMA FiniteSequence ==
  ASSUME NEW T, NEW s \in Seq(T)
  PROVE  IsFiniteSet(ToSet(s))
<1>1. s \in [1..Len(s) -> ToSet(s)] /\ \A x \in ToSet(s) : \E i \in 1..Len(s) : s[i] = x
  BY SetOfSeq
<1>2. s \in Surjection(1..Len(s), ToSet(s))
  BY <1>1 DEF Surjection
<1>3. Len(s) \in Nat
  OBVIOUS
<1>4. IsFiniteSet(1..Len(s))
  BY <1>3, FS_Interval
<1> QED
  BY <1>2, <1>4, FS_Surjection

\* MergeMetrics of exports of different users is what the set of them spends.
LEMMA SpendOfSequence ==
  ASSUME NEW es \in Seq(Export), OnePerUser(es)
  PROVE  MergeMetrics(es) = SpendOfSet(ToSet(es))
<1> DEFINE n == Len(es)
           X == ToSet(es)
           Of(k) == {es[i] : i \in 1..k}
<1>1. PICK g \in [0..n -> Nat] :
        /\ g[0] = 0
        /\ \A k \in 0..(n - 1) : g[k + 1] = g[k] + es[k + 1].payload.spend
        /\ MergeMetrics(es) = g[n]
  BY MergeMetricsFold
<1>2. n \in Nat /\ X = Of(n) /\ DOMAIN es = 1..n
  BY SetOfSeq
<1>3. IsFiniteSet(X) /\ X \subseteq Export
  BY FiniteSequence, ElementsOfSeq
<1>4. PICK f : Additive(f, X, Spends(X)) /\ SpendOfSet(X) = f[X]
  BY <1>3, SpendIsSum
<1> HIDE DEF n
<1> DEFINE T == {k \in Nat : k <= n => g[k] = f[Of(k)]}
<1>5. 0 \in T
  <2>1. Of(0) = {}
    OBVIOUS
  <2> QED
    BY <1>1, <1>4, <2>1 DEF Additive
<1>6. ASSUME NEW k \in Nat, k \in T PROVE k + 1 \in T
  <2> SUFFICES ASSUME k + 1 <= n PROVE g[k + 1] = f[Of(k + 1)]
    OBVIOUS
  <2>1. k \in 0..(n - 1) /\ k + 1 \in 1..n /\ k <= n
    BY <1>2
  <2> DEFINE e == es[k + 1]
  <2>2. g[k + 1] = f[Of(k)] + e.payload.spend
    BY <1>1, <1>6, <2>1
  <2>3. \A i \in 1..k : i \in 1..n /\ i \in 1..(k + 1) /\ i # k + 1
    BY <1>2
  <2>4. \A i \in 1..(k + 1) : i \in 1..k \/ i = k + 1
    OBVIOUS
  <2>5. k + 1 \in 1..(k + 1)
    OBVIOUS
  <2>6. \A i \in 1..k : es[i] # e
    BY <1>2, <2>1, <2>3 DEF OnePerUser
  <2>7. Of(k + 1) \ {e} = Of(k) /\ e \in Of(k + 1) /\ Of(k + 1) \subseteq X
    <3>1. Of(k + 1) \ {e} \subseteq Of(k)
      BY <2>4
    <3>2. Of(k) \subseteq Of(k + 1) \ {e}
      BY <2>3, <2>6
    <3>3. Of(k + 1) \subseteq Of(n)
      BY <2>1, <2>3, <2>4
    <3> QED
      BY <1>2, <2>5, <3>1, <3>2, <3>3
  <2>8. e \in X
    BY <2>7
  <2> HIDE DEF Of, X, e
  <2>9. f[Of(k + 1)] = Spends(X)[e] + f[Of(k + 1) \ {e}]
    BY <1>4, <2>7 DEF Additive
  <2>10. Spends(X)[e] = e.payload.spend
    BY <2>8 DEF Spends
  <2>11. f[Of(k)] \in Nat /\ e.payload.spend \in Nat
    <3>1. Of(k) \subseteq X
      BY <2>7
    <3>2. f[Of(k)] \in Nat
      BY <1>4, <3>1 DEF Additive
    <3>3. e \in Export
      BY <1>3, <2>8
    <3>4. e.payload.spend \in Nat
      BY <3>3, SpendTyped
    <3> QED
      BY <3>2, <3>4
  <2>12. f[Of(k + 1)] = e.payload.spend + f[Of(k)]
    BY <2>7, <2>9, <2>10
  <2> QED
    BY <2>2, <2>11, <2>12
<1> HIDE DEF T
<1>7. n \in T
  BY <1>2, <1>5, <1>6, Induction
<1>8. g[n] = f[Of(n)]
  <2>1. n <= n
    BY <1>2
  <2> QED
    BY <1>7, <2>1 DEF T
<1> QED
  BY <1>1, <1>2, <1>4, <1>8

\* The exports of a group are those of its users.
LEMMA ExportsOfLemma ==
  ASSUME NEW es \in Seq(Export), OnePerUser(es), NEW users
  PROVE  /\ ExportsOf(users, es) \in Seq(Export)
         /\ OnePerUser(ExportsOf(users, es))
         /\ ToSet(ExportsOf(users, es)) = {e \in ToSet(es) : e.user \in users}
<1> DEFINE n == Len(es)
           Of(k) == {e \in {es[i] : i \in 1..k} : e.user \in users}
<1>1. PICK g \in [0..n -> Seq(Export)] :
        /\ g[0] = <<>>
        /\ \A k \in 0..(n - 1) :
             g[k + 1] = IF es[k + 1].user \in users THEN Append(g[k], es[k + 1]) ELSE g[k]
        /\ ExportsOf(users, es) = g[n]
  BY ExportsOfFold
<1>2. /\ n \in Nat /\ ToSet(es) = {es[i] : i \in 1..n} /\ DOMAIN es = 1..n
      /\ \A i \in 1..n : es[i] \in Export
  BY SetOfSeq
<1> HIDE DEF n
<1> DEFINE Good(k) == OnePerUser(g[k]) /\ ToSet(g[k]) = Of(k)
           T == {k \in Nat : k <= n => Good(k)}
<1>3. 0 \in T
  <2>1. DOMAIN <<>> = {} /\ Of(0) = {}
    OBVIOUS
  <2> QED
    BY <1>1, <2>1 DEF OnePerUser, ToSet
<1>4. ASSUME NEW k \in Nat, k \in T PROVE k + 1 \in T
  <2> SUFFICES ASSUME k + 1 <= n PROVE Good(k + 1)
    OBVIOUS
  <2> DEFINE e == es[k + 1]
  <2>1. k \in 0..(n - 1) /\ k \in 0..n /\ k + 1 \in 1..n /\ k <= n
    BY <1>2
  <2>2. g[k] \in Seq(Export) /\ e \in Export /\ Good(k)
    BY <1>2, <1>4, <2>1
  <2>3. g[k + 1] = IF e.user \in users THEN Append(g[k], e) ELSE g[k]
    BY <1>1, <2>1
  <2>4. {es[i] : i \in 1..(k + 1)} = {es[i] : i \in 1..k} \cup {e}
    <3>1. \A i \in 1..(k + 1) : i \in 1..k \/ i = k + 1
      OBVIOUS
    <3>2. \A i \in 1..k : i \in 1..(k + 1)
      OBVIOUS
    <3>3. k + 1 \in 1..(k + 1)
      OBVIOUS
    <3> QED
      BY <3>1, <3>2, <3>3
  <2>5. \A d \in Of(k) : d.user # e.user
    <3>1. \A i \in 1..k : i \in 1..n /\ i # k + 1
      BY <1>2
    <3> QED
      BY <1>2, <2>1, <3>1 DEF OnePerUser
  <2>6. Of(k + 1) = IF e.user \in users THEN Of(k) \cup {e} ELSE Of(k)
    BY <2>4
  <2> HIDE DEF e, Of
  <2>7. CASE e.user \in users
    <3>1. ToSet(g[k + 1]) = ToSet(g[k]) \cup {e}
      BY <2>2, <2>3, <2>7, AppendedElement
    <3>2. OnePerUser(Append(g[k], e))
      <4> DEFINE longer == Append(g[k], e)
                 m == Len(g[k])
      <4>1. /\ Len(longer) = m + 1 /\ longer[m + 1] = e /\ longer \in Seq(Export)
            /\ \A i \in 1..m : longer[i] = g[k][i]
        BY <2>2
      <4>2. /\ m \in Nat /\ DOMAIN g[k] = 1..m /\ DOMAIN longer = 1..(m + 1)
            /\ ToSet(g[k]) = {g[k][i] : i \in 1..m}
        BY <2>2, <4>1, SetOfSeq
      <4> HIDE DEF longer, m
      <4>3. \A i \in 1..(m + 1) : i \in 1..m \/ i = m + 1
        BY <4>2
      <4>4. \A i, j \in 1..m : longer[i].user = longer[j].user => i = j
        BY <2>2, <4>1, <4>2 DEF OnePerUser
      <4>5. \A i \in 1..m : longer[i].user # longer[m + 1].user
        BY <2>2, <2>5, <4>1, <4>2
      <4> QED
        BY <4>2, <4>3, <4>4, <4>5 DEF OnePerUser, longer
    <3> QED
      BY <2>2, <2>3, <2>6, <2>7, <3>1, <3>2
  <2>8. CASE e.user \notin users
    BY <2>2, <2>3, <2>6, <2>8
  <2> QED
    BY <2>7, <2>8
<1> HIDE DEF T
<1>5. n \in T
  BY <1>2, <1>3, <1>4, Induction
<1>6. Good(n)
  <2>1. n <= n
    BY <1>2
  <2> QED
    BY <1>5, <2>1 DEF T
<1>7. n \in 0..n
  BY <1>2
<1> QED
  BY <1>1, <1>2, <1>6, <1>7

\* What Dedupe leaves are the newest exports, if no user has two of one second.
LEMMA DedupeIsNewest ==
  ASSUME NEW es \in Seq(Export),
         \A d, e \in ToSet(es) : d.user = e.user /\ d.at = e.at => d = e
  PROVE  ToSet(Dedupe(es)) = Newest(ToSet(es))
<1>1. /\ Dedupe(es) \in Seq(Export) /\ OnePerUser(Dedupe(es))
      /\ ToSet(Dedupe(es)) \subseteq ToSet(es)
      /\ \A d \in ToSet(es) : \E x \in ToSet(Dedupe(es)) : x.user = d.user /\ x.at >= d.at
  BY DedupeLemma
<1>2. \A x, y \in ToSet(Dedupe(es)) : x.user = y.user => x = y
  BY <1>1 DEF OnePerUser, ToSet
<1>3. ToSet(es) \subseteq Export
  BY ElementsOfSeq
<1>4. ASSUME NEW k \in ToSet(Dedupe(es)) PROVE k \in Newest(ToSet(es))
  <2>1. ASSUME NEW d \in ToSet(es), d.user = k.user PROVE d.at <= k.at
    <3>1. PICK x \in ToSet(Dedupe(es)) : x.user = d.user /\ x.at >= d.at
      BY <1>1
    <3>2. x = k
      BY <1>2, <2>1, <3>1
    <3>3. d.at \in Int /\ x.at \in Int
      BY <1>1, <1>3, TimesAreNumbers
    <3> QED
      BY <3>1, <3>2, <3>3
  <2> QED
    BY <1>1, <2>1 DEF Newest
<1>5. ASSUME NEW e \in Newest(ToSet(es)) PROVE e \in ToSet(Dedupe(es))
  <2>1. e \in ToSet(es) /\ \A d \in ToSet(es) : d.user = e.user => d.at <= e.at
    BY DEF Newest
  <2>2. PICK x \in ToSet(Dedupe(es)) : x.user = e.user /\ x.at >= e.at
    BY <1>1, <2>1
  <2>3. x \in ToSet(es) /\ x.at <= e.at
    BY <1>1, <2>1, <2>2
  <2>4. x.at \in Int /\ e.at \in Int
    BY <1>3, <2>1, <2>3, TimesAreNumbers
  <2>5. x = e
    BY <2>1, <2>2, <2>3, <2>4
  <2> QED
    BY <2>5
<1> QED
  BY <1>4, <1>5

\* The rollup adds up the newest export of every user once, whatever the order
\* of the files and however often each is named, and so do those of groups.
THEOREM RollupCountsEachOnceHolds == Spec => []RollupCountsEachOnce
<1>1. TypeInv /\ ReadInv /\ CountInv => RollupCountsEachOnce
  <2> SUFFICES ASSUME TypeInv, ReadInv, CountInv, lead = "ok", ~Collision
               PROVE  LET newest == Newest(ToSet(exports))
                          SpendOf(users) == SpendOfSet({e \in newest : e.user \in users})
                      IN  /\ rollups = {[label |-> "all", spend |-> SpendOf(User)]}
                          /\ \A group \in SUBSET User :
                               \A r \in Rollup(kept, [g \in {"group"} |-> group]) :
                                 r.label = "group" => r.spend = SpendOf(group)
    BY DEF RollupCountsEachOnce, SpendOfSet
  <2> DEFINE newest == Newest(ToSet(exports))
             SpendOf(users) == SpendOfSet({e \in newest : e.user \in users})
  <2>1. exports \in Seq(Export) /\ ToSet(exports) \subseteq issued
    BY DEF TypeInv, TypeOK, ReadInv
  <2>2. \A d, e \in ToSet(exports) : d.user = e.user /\ d.at = e.at => d = e
    BY <2>1 DEF Collision
  <2>3. kept = Dedupe(exports)
    BY DEF CountInv
  <2>4. ToSet(kept) = newest /\ kept \in Seq(Export) /\ OnePerUser(kept)
    BY <2>1, <2>2, <2>3, DedupeIsNewest, DedupeLemma
  <2>5. newest \subseteq Export
    BY <2>4, ElementsOfSeq
  <2>6. {e \in newest : e.user \in User} = newest
    BY <2>5, TimesAreNumbers
  <2>7. rollups = {[label |-> "all", spend |-> SpendOf(User)]}
    <3>1. MergeMetrics(kept) = SpendOfSet(ToSet(kept))
      BY <2>4, SpendOfSequence
    <3>2. rollups = {[label |-> "all", spend |-> MergeMetrics(kept)]}
      BY DEF CountInv
    <3> QED
      BY <2>4, <2>6, <3>1, <3>2
  <2>8. ASSUME NEW group \in SUBSET User,
               NEW r \in Rollup(kept, [g \in {"group"} |-> group]), r.label = "group"
        PROVE  r.spend = SpendOf(group)
    <3> DEFINE of == ExportsOf(group, kept)
    <3>1. /\ of \in Seq(Export) /\ OnePerUser(of)
          /\ ToSet(of) = {e \in newest : e.user \in group}
      BY <2>4, ExportsOfLemma
    <3>2. MergeMetrics(of) = SpendOf(group)
      BY <3>1, SpendOfSequence
    <3>3. \/ r = [label |-> "all", spend |-> MergeMetrics(kept)]
          \/ r = [label |-> "group", spend |-> MergeMetrics(of)]
      BY DEF Rollup
    <3> HIDE DEF of, SpendOf
    <3>4. r.spend = MergeMetrics(of)
      BY <2>8, <3>3
    <3> QED
      BY <3>2, <3>4
  <2> QED
    BY <2>7, <2>8
<1> QED
  BY <1>1, ReadInvariant, PushInvariant, PTL

=============================================================================

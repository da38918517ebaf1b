------------------------ MODULE ReconciliationProofs ------------------------
(***************************************************************************)
(* The reconciliation, for any models, days, pages and growth of the       *)
(* report while it is fetched.                                             *)
(***************************************************************************)
EXTENDS Reconciliation, FiniteSetTheorems, FoldLemmas, TLAPS

-----------------------------------------------------------------------------
(* What is billed on some of the days. *)

BilledOn(b, m, days) == MapThenSumSet(LAMBDA d : TotalTokens(b[d][m]), days)

Tokens(b, m) == [d \in Days |-> TotalTokens(b[d][m])]

IsReport(b) == b \in [Days -> [Models -> UsageTokens]]

LEMMA UsagesAreTyped ==
  /\ \A u \in UsageTokens : u.fresh \in Nat /\ u.cached \in Nat /\ TotalTokens(u) \in Nat
  /\ \A u, v \in UsageTokens :
       Plus(u, v) \in UsageTokens /\ TotalTokens(Plus(u, v)) = TotalTokens(u) + TotalTokens(v)
  /\ NoUsage \in UsageTokens /\ TotalTokens(NoUsage) = 0
  /\ \A u \in UsageTokens : u # NoUsage => TotalTokens(u) > 0
<1>1. \A u \in UsageTokens : u.fresh \in Nat /\ u.cached \in Nat
  BY DEF UsageTokens
<1>2. \A u \in UsageTokens : TotalTokens(u) \in Nat
  BY <1>1 DEF TotalTokens
<1>3. ASSUME NEW u \in UsageTokens, NEW v \in UsageTokens
      PROVE  Plus(u, v) \in UsageTokens /\ TotalTokens(Plus(u, v)) = TotalTokens(u) + TotalTokens(v)
  <2>1. /\ Plus(u, v).fresh = u.fresh + v.fresh /\ Plus(u, v).cached = u.cached + v.cached
        /\ u.fresh \in Nat /\ u.cached \in Nat /\ v.fresh \in Nat /\ v.cached \in Nat
    BY <1>1 DEF Plus
  <2>2. u.fresh + v.fresh \in Nat /\ u.cached + v.cached \in Nat
    BY <2>1
  <2>3. Plus(u, v) \in UsageTokens
    BY <2>2 DEF Plus, UsageTokens
  <2> QED
    BY <2>1, <2>3 DEF TotalTokens
<1>4. NoUsage \in UsageTokens /\ TotalTokens(NoUsage) = 0
  BY DEF NoUsage, UsageTokens, TotalTokens
<1>5. ASSUME NEW u \in UsageTokens, u # NoUsage PROVE TotalTokens(u) > 0
  <2>1. u.fresh # 0 \/ u.cached # 0
    BY <1>5 DEF UsageTokens, NoUsage
  <2> QED
    BY <1>1, <2>1 DEF TotalTokens
<1> QED
  BY <1>1, <1>2, <1>3, <1>4, <1>5

LEMMA DaysAreFinite == IsFiniteSet(Days) /\ Days \subseteq Nat
BY FS_Interval, PagesAssumption DEF Days

LEMMA TokensAreWeights ==
  ASSUME NEW b, IsReport(b), NEW m \in Models
  PROVE  IsWeight(Tokens(b, m), Days)
BY UsagesAreTyped DEF IsWeight, Tokens, IsReport

\* BilledOn is the sum of the tokens of the days.
LEMMA BilledOnIsSum ==
  ASSUME NEW b, IsReport(b), NEW m \in Models
  PROVE  \E f : /\ Additive(f, Days, Tokens(b, m))
                /\ \A days \in SUBSET Days : BilledOn(b, m, days) = f[days]
<1>1. PICK f : Additive(f, Days, Tokens(b, m))
  BY DaysAreFinite, TokensAreWeights, SumsExist, SumsAreAdditive
<1>2. ASSUME NEW days \in SUBSET Days PROVE BilledOn(b, m, days) = f[days]
  <2> DEFINE w == [d \in days |-> TotalTokens(b[d][m])]
             F(g) == [s \in SUBSET days |->
                        IF s = {} THEN 0
                        ELSE TotalTokens(b[CHOOSE x \in s : TRUE][m])
                               + g[s \ {CHOOSE x \in s : TRUE}]]
             it == CHOOSE g : g = F(g)
  <2>1. BilledOn(b, m, days) = it[days]
    BY DEF BilledOn, MapThenSumSet, MapThenFoldSet
  <2>2. IsFiniteSet(days)
    BY DaysAreFinite, FS_Subset
  <2>3. IsWeight(w, days)
    BY UsagesAreTyped DEF IsWeight, IsReport
  <2>4. ASSUME NEW s \in SUBSET days, s # {}
        PROVE  w[CHOOSE x \in s : TRUE] = TotalTokens(b[CHOOSE x \in s : TRUE][m])
    <3>1. (CHOOSE x \in s : TRUE) \in days
      BY <2>4
    <3> QED
      BY <3>1
  <2>5. \A d \in days : Tokens(b, m)[d] = w[d]
    BY DEF Tokens
  <2> HIDE DEF w
  <2>6. ASSUME NEW g, Sums(g, days, w) PROVE g = F(g)
    BY <2>6, <2>4 DEF Sums
  <2>7. ASSUME NEW g, g = F(g) PROVE Sums(g, days, w)
    BY <2>7, <2>4 DEF Sums
  <2>8. it = F(it)
    <3>1. PICK g : Sums(g, days, w)
      BY <2>2, <2>3, SumsExist
    <3>2. g = F(g)
      BY <2>6, <3>1
    <3> HIDE DEF F
    <3> QED
      BY <3>2
  <2> HIDE DEF it
  <2>9. Additive(it, days, w)
    BY <2>2, <2>3, <2>7, <2>8, SumsAreAdditive
  <2> DEFINE h == [d \in days |-> d]
  <2>10. \A d \in days : h[d] \in Days /\ Tokens(b, m)[h[d]] = w[d]
    BY <2>5
  <2>11. \A d, e \in days : h[d] = h[e] => d = e
    OBVIOUS
  <2>12. {h[d] : d \in days} = days
    OBVIOUS
  <2> HIDE DEF h
  <2>13. \A s \in SUBSET days : it[s] = f[{h[d] : d \in s}]
    BY <1>1, <2>2, <2>3, <2>9, <2>10, <2>11, SumOfImage
  <2>14. it[days] = f[{h[d] : d \in days}]
    BY <2>13
  <2> QED
    BY <2>1, <2>12, <2>14
<1> QED
  BY <1>1, <1>2

\* What is billed on some days is what is billed on part of them and on the rest.
LEMMA BilledOnParts ==
  ASSUME NEW b, IsReport(b), NEW m \in Models,
         NEW days \in SUBSET Days, NEW part, NEW rest, Parts(days, part, rest)
  PROVE  BilledOn(b, m, days) = BilledOn(b, m, part) + BilledOn(b, m, rest)
<1>1. PICK f : /\ Additive(f, Days, Tokens(b, m))
               /\ \A ds \in SUBSET Days : BilledOn(b, m, ds) = f[ds]
  BY BilledOnIsSum
<1>2. part \in SUBSET Days /\ rest \in SUBSET Days
  BY DEF Parts
<1>3. f[days] = f[part] + f[rest]
  <2>1. IsWeight(Tokens(b, m), Days) /\ IsFiniteSet(Days) /\ Additive(f, Days, Tokens(b, m))
    BY <1>1, DaysAreFinite, TokensAreWeights
  <2> QED
    BY <2>1, SumOfParts
<1> QED
  BY <1>1, <1>2, <1>3

LEMMA BilledOnTyped ==
  ASSUME NEW b, IsReport(b), NEW m \in Models, NEW s \in SUBSET Days
  PROVE  BilledOn(b, m, s) \in Nat
<1>1. PICK f : /\ Additive(f, Days, Tokens(b, m))
               /\ \A ds \in SUBSET Days : BilledOn(b, m, ds) = f[ds]
  BY BilledOnIsSum
<1>2. f[s] \in Nat
  BY <1>1 DEF Additive
<1> QED
  BY <1>1, <1>2

LEMMA NoDayNothing ==
  ASSUME NEW b, IsReport(b), NEW m \in Models
  PROVE  BilledOn(b, m, {}) = 0
BY BilledOnIsSum DEF Additive

\* A report that grows has more on any days.
LEMMA BilledOnGrows ==
  ASSUME NEW b, IsReport(b), NEW c, IsReport(c), NEW m \in Models,
         \A d \in Days : TotalTokens(b[d][m]) <= TotalTokens(c[d][m]),
         NEW s \in SUBSET Days
  PROVE  BilledOn(b, m, s) <= BilledOn(c, m, s)
<1>1. PICK f : /\ Additive(f, Days, Tokens(b, m))
               /\ \A days \in SUBSET Days : BilledOn(b, m, days) = f[days]
  BY BilledOnIsSum
<1>2. PICK g : /\ Additive(g, Days, Tokens(c, m))
               /\ \A days \in SUBSET Days : BilledOn(c, m, days) = g[days]
  BY BilledOnIsSum
<1>3. \A d \in Days : Tokens(b, m)[d] <= Tokens(c, m)[d]
  BY DEF Tokens
<1>4. \A t \in SUBSET Days : f[t] <= g[t]
  <2> DEFINE w == Tokens(b, m)
             v == Tokens(c, m)
  <2>1. IsWeight(w, Days) /\ IsWeight(v, Days)
    BY TokensAreWeights
  <2>2. Additive(f, Days, w) /\ Additive(g, Days, v) /\ \A d \in Days : w[d] <= v[d]
    BY <1>1, <1>2, <1>3
  <2> HIDE DEF w, v
  <2>3. IsFiniteSet(Days)
    BY DaysAreFinite
  <2>4. ASSUME NEW F, Additive(F, Days, w), NEW G, Additive(G, Days, v)
        PROVE  \A t \in SUBSET Days : F[t] <= G[t]
    <3>1. \A d \in Days : w[d] <= v[d]
      BY <2>2
    <3> HIDE <2>2
    <3> QED
      BY <2>1, <2>3, <2>4, <3>1, SumIsMonotone
  <2> QED
    BY <2>2, <2>4
<1> QED
  BY <1>1, <1>2, <1>4

-----------------------------------------------------------------------------
(* The pages. *)

\* The days of the pages before this one.
DaysBefore(page) == {d \in Days : (d - 1) \div BucketsPerPage < page - 1}

LEMMA DivBounds ==
  ASSUME NEW a \in Nat, NEW b \in Nat \ {0}
  PROVE  a \div b \in Nat /\ b * (a \div b) <= a /\ a < b * (a \div b) + b
OBVIOUS

\* The first page comes after no day, each page after the days of those
\* before it, and after the last page no day is left out.
LEMMA PagesCoverTheDays ==
  /\ LastPage \in Nat /\ LastPage >= 1
  /\ DaysBefore(1) = {}
  /\ DaysBefore(LastPage + 1) = Days
  /\ \A page \in Nat :
       /\ DaysOfPage(page) \subseteq Days /\ DaysBefore(page) \subseteq Days
       /\ DaysBefore(page) \cap DaysOfPage(page) = {}
       /\ DaysBefore(page + 1) = DaysBefore(page) \cup DaysOfPage(page)
<1> DEFINE B == BucketsPerPage
           N == Buckets
           dayPage(d) == (d - 1) \div B
<1>1. N \in Nat \ {0} /\ B \in Nat \ {0}
  BY PagesAssumption
<1>2. \A d \in Days : d \in Nat /\ d - 1 \in Nat /\ 1 <= d /\ d <= N
  BY <1>1 DEF Days
<1>3. \A d \in Days : dayPage(d) \in Nat
  <2> SUFFICES ASSUME NEW d \in Days PROVE dayPage(d) \in Nat
    OBVIOUS
  <2>1. d - 1 \in Nat
    BY <1>2
  <2> QED
    BY <1>1, <2>1, DivBounds
<1> DEFINE a == N + B - 1
           q == a \div B
<1>4. a \in Nat /\ LastPage = q
  BY <1>1 DEF LastPage
<1>5. q \in Nat /\ B * q <= a /\ a < B * q + B
  <2> HIDE DEF a
  <2> QED
    BY <1>1, <1>4, DivBounds
<1>6. q >= 1
  <2>1. B * 0 = 0
    BY <1>1
  <2>2. q # 0
    BY <1>1, <1>5, <2>1
  <2> HIDE DEF q
  <2> QED
    BY <1>5, <2>2
<1>7. \A d \in Days : dayPage(d) < q
  <2> SUFFICES ASSUME NEW d \in Days, ~ (dayPage(d) < q) PROVE FALSE
    OBVIOUS
  <2> DEFINE p == dayPage(d)
  <2>1. d - 1 \in Nat /\ d <= N /\ d \in Nat
    BY <1>2
  <2>2. p \in Nat /\ B * p <= d - 1
    BY <1>1, <2>1, DivBounds
  <2>3. p >= q
    BY <1>3, <1>5
  <2> HIDE DEF p, q, a
  <2>4. B * q <= B * p
    BY <1>1, <1>5, <2>2, <2>3
  <2>5. a = N + B - 1
    BY DEF a
  <2>6. B * p \in Nat /\ B * q \in Nat
    BY <1>1, <1>5, <2>2
  <2> QED
    BY <1>1, <1>5, <2>1, <2>2, <2>4, <2>5, <2>6
<1> HIDE DEF dayPage, q, a
<1>8. DaysBefore(1) = {}
  BY <1>3 DEF DaysBefore, dayPage
<1>9. DaysBefore(LastPage + 1) = Days
  <2>1. \A d \in Days : dayPage(d) < (LastPage + 1) - 1
    BY <1>4, <1>5, <1>7
  <2> QED
    BY <2>1 DEF DaysBefore, dayPage
<1>10. ASSUME NEW page \in Nat
       PROVE  /\ DaysOfPage(page) \subseteq Days /\ DaysBefore(page) \subseteq Days
              /\ DaysBefore(page) \cap DaysOfPage(page) = {}
              /\ DaysBefore(page + 1) = DaysBefore(page) \cup DaysOfPage(page)
  <2>1. DaysOfPage(page) = {d \in Days : dayPage(d) = page - 1}
    BY DEF DaysOfPage, dayPage
  <2>2. /\ DaysBefore(page) = {d \in Days : dayPage(d) < page - 1}
        /\ DaysBefore(page + 1) = {d \in Days : dayPage(d) < page + 1 - 1}
    BY DEF DaysBefore, dayPage
  <2>3. \A d \in Days : dayPage(d) < page + 1 - 1 <=> (dayPage(d) < page - 1 \/ dayPage(d) = page - 1)
    BY <1>3
  <2>4. \A d \in Days : ~ (dayPage(d) < page - 1 /\ dayPage(d) = page - 1)
    BY <1>3
  <2> QED
    BY <2>1, <2>2, <2>3, <2>4
<1> QED
  BY <1>4, <1>5, <1>6, <1>8, <1>9, <1>10

-----------------------------------------------------------------------------
(* The rows of a page. *)

FreshOf(rows) == [row \in rows |-> UsageOfRow(row).fresh]

\* The fresh tokens of rows are their sum.
LEMMA FreshIsSum ==
  ASSUME NEW rows, IsFiniteSet(rows), \A row \in rows : UsageOfRow(row) \in UsageTokens
  PROVE  \E f : Additive(f, rows, FreshOf(rows)) /\ SumOfRows(rows).fresh = f[rows]
<1> DEFINE F(f) == [s \in SUBSET rows |->
                      IF s = {} THEN 0
                      ELSE UsageOfRow(CHOOSE x \in s : TRUE).fresh
                             + f[s \ {CHOOSE x \in s : TRUE}]]
           it == CHOOSE f : f = F(f)
<1>1. SumOfRows(rows).fresh = it[rows]
  BY DEF SumOfRows, MapThenSumSet, MapThenFoldSet
<1>2. IsWeight(FreshOf(rows), rows)
  BY UsagesAreTyped DEF IsWeight, FreshOf
<1>3. ASSUME NEW s \in SUBSET rows, s # {}
      PROVE  FreshOf(rows)[CHOOSE x \in s : TRUE] = UsageOfRow(CHOOSE x \in s : TRUE).fresh
  <2>1. (CHOOSE x \in s : TRUE) \in rows
    BY <1>3
  <2> QED
    BY <2>1 DEF FreshOf
<1>4. ASSUME NEW f, Sums(f, rows, FreshOf(rows)) PROVE f = F(f)
  BY <1>4, <1>3 DEF Sums
<1>5. ASSUME NEW f, f = F(f) PROVE Sums(f, rows, FreshOf(rows))
  <2>1. F(f) = [s \in SUBSET rows |->
                  IF s = {} THEN 0
                  ELSE FreshOf(rows)[CHOOSE x \in s : TRUE] + f[s \ {CHOOSE x \in s : TRUE}]]
    BY <1>3
  <2> HIDE DEF F
  <2> QED
    BY <1>5, <2>1 DEF Sums
<1>6. it = F(it)
  <2>1. PICK f : Sums(f, rows, FreshOf(rows))
    BY <1>2, SumsExist
  <2>2. f = F(f)
    BY <1>4, <2>1
  <2> HIDE DEF F
  <2> QED
    BY <2>2
<1> HIDE DEF it
<1>7. Additive(it, rows, FreshOf(rows))
  BY <1>2, <1>5, <1>6, SumsAreAdditive
<1> QED
  BY <1>1, <1>7

CachedOf(rows) == [row \in rows |-> UsageOfRow(row).cached]

\* The cached tokens of rows are their sum.
LEMMA CachedIsSum ==
  ASSUME NEW rows, IsFiniteSet(rows), \A row \in rows : UsageOfRow(row) \in UsageTokens
  PROVE  \E f : Additive(f, rows, CachedOf(rows)) /\ SumOfRows(rows).cached = f[rows]
<1> DEFINE F(f) == [s \in SUBSET rows |->
                      IF s = {} THEN 0
                      ELSE UsageOfRow(CHOOSE x \in s : TRUE).cached
                             + f[s \ {CHOOSE x \in s : TRUE}]]
           it == CHOOSE f : f = F(f)
<1>1. SumOfRows(rows).cached = it[rows]
  BY DEF SumOfRows, MapThenSumSet, MapThenFoldSet
<1>2. IsWeight(CachedOf(rows), rows)
  BY UsagesAreTyped DEF IsWeight, CachedOf
<1>3. ASSUME NEW s \in SUBSET rows, s # {}
      PROVE  CachedOf(rows)[CHOOSE x \in s : TRUE] = UsageOfRow(CHOOSE x \in s : TRUE).cached
  <2>1. (CHOOSE x \in s : TRUE) \in rows
    BY <1>3
  <2> QED
    BY <2>1 DEF CachedOf
<1>4. ASSUME NEW f, Sums(f, rows, CachedOf(rows)) PROVE f = F(f)
  BY <1>4, <1>3 DEF Sums
<1>5. ASSUME NEW f, f = F(f) PROVE Sums(f, rows, CachedOf(rows))
  <2>1. F(f) = [s \in SUBSET rows |->
                  IF s = {} THEN 0
                  ELSE CachedOf(rows)[CHOOSE x \in s : TRUE] + f[s \ {CHOOSE x \in s : TRUE}]]
    BY <1>3
  <2> HIDE DEF F
  <2> QED
    BY <1>5, <2>1 DEF Sums
<1>6. it = F(it)
  <2>1. PICK f : Sums(f, rows, CachedOf(rows))
    BY <1>2, SumsExist
  <2>2. f = F(f)
    BY <1>4, <2>1
  <2> HIDE DEF F
  <2> QED
    BY <2>2
<1> HIDE DEF it
<1>7. Additive(it, rows, CachedOf(rows))
  BY <1>2, <1>5, <1>6, SumsAreAdditive
<1> QED
  BY <1>1, <1>7

RowsOf(page, m) == {row \in PageRows(page) : row.model = m}

DaysWithRow(page, m) == {d \in DaysOfPage(page) : billed[d][m] # NoUsage}

\* A model has a row for each day of the page it was used on, and what the
\* row adds to the model is what was billed, with either provider's rows.
LEMMA RowsOfModel ==
  ASSUME OwnerAssumption, IsReport(billed), provider \in ProviderRegistry,
         NEW page \in Nat, NEW m \in Models, Owner[m] = provider
  PROVE  /\ RowsOf(page, m) = {Row(d, m) : d \in DaysWithRow(page, m)}
         /\ \A d \in DaysWithRow(page, m) :
              /\ d \in Days /\ Row(d, m).day = d
              /\ UsageOfRow(Row(d, m)) = billed[d][m]
              /\ billed[d][m] \in UsageTokens
<1> DEFINE HasRow(d, n) == Owner[n] = provider /\ billed[d][n] # NoUsage
           keys == {k \in DaysOfPage(page) \X Models : HasRow(k[1], k[2])}
<1>1. PageRows(page) = {Row(k[1], k[2]) : k \in keys}
  BY DEF PageRows
<1>2. \A d, n : Row(d, n).day = d /\ Row(d, n).model = n
  BY DEF Row
<1>3. ASSUME NEW d \in DaysWithRow(page, m)
      PROVE  Row(d, m) \in RowsOf(page, m)
  <2>1. <<d, m>> \in keys
    BY DEF DaysWithRow
  <2> HIDE DEF keys
  <2>2. Row(d, m) \in PageRows(page)
    BY <1>1, <2>1
  <2> QED
    BY <1>2, <2>2 DEF RowsOf
<1>4. ASSUME NEW row \in RowsOf(page, m)
      PROVE  \E d \in DaysWithRow(page, m) : row = Row(d, m)
  <2>1. row \in PageRows(page) /\ row.model = m
    BY DEF RowsOf
  <2>2. PICK k \in keys : row = Row(k[1], k[2])
    <3> HIDE DEF keys
    <3> QED
      BY <1>1, <2>1
  <2>3. k[2] = m
    BY <1>2, <2>1, <2>2
  <2>4. k[1] \in DaysWithRow(page, m)
    BY <2>2, <2>3 DEF DaysWithRow
  <2> QED
    BY <2>2, <2>3, <2>4
<1>5. ASSUME NEW d \in DaysWithRow(page, m)
      PROVE  /\ d \in Days
             /\ UsageOfRow(Row(d, m)) = billed[d][m]
             /\ billed[d][m] \in UsageTokens
  <2>1. d \in Days
    BY DEF DaysWithRow, DaysOfPage
  <2>2. billed[d][m] \in UsageTokens
    BY <2>1 DEF IsReport
  <2> DEFINE u == billed[d][m]
  <2>3. u.fresh \in Nat /\ u.cached \in Nat /\ u = [fresh |-> u.fresh, cached |-> u.cached]
    BY <2>2 DEF UsageTokens
  <2>4. /\ Row(d, m).cached = u.cached
        /\ Row(d, m).input = IF provider = "openai" THEN u.fresh + u.cached ELSE u.fresh
    BY DEF Row
  <2> DEFINE row == Row(d, m)
  <2>5. UsageOfRow(row) = [fresh |-> u.fresh, cached |-> u.cached]
    <3>1. CASE provider = "openai"
      <4>1. (u.fresh + u.cached) - u.cached = u.fresh
        BY <2>3
      <4>2. row.input - row.cached = u.fresh
        BY <2>4, <3>1, <4>1
      <4> QED
        BY <2>4, <3>1, <4>2 DEF UsageOfRow
    <3>2. CASE provider # "openai"
      BY <2>4, <3>2 DEF UsageOfRow
    <3> QED
      BY <3>1, <3>2
  <2> QED
    BY <2>1, <2>2, <2>3, <2>5
<1> QED
  BY <1>2, <1>3, <1>4, <1>5

\* What a page adds to a model is what was billed for it on the page's days.
LEMMA PageAddsUp ==
  ASSUME OwnerAssumption, IsReport(billed), provider \in ProviderRegistry,
         NEW page \in Nat, NEW m \in Models, Owner[m] = provider
  PROVE  /\ SumOfRows(RowsOf(page, m)) \in UsageTokens
         /\ TotalTokens(SumOfRows(RowsOf(page, m))) = BilledOn(billed, m, DaysOfPage(page))
         /\ RowsOf(page, m) # {} => TotalTokens(SumOfRows(RowsOf(page, m))) > 0
<1> DEFINE rows == RowsOf(page, m)
           days == DaysWithRow(page, m)
           all == DaysOfPage(page)
<1>1. /\ rows = {Row(d, m) : d \in days}
      /\ \A d \in days : /\ d \in Days /\ Row(d, m).day = d
                         /\ UsageOfRow(Row(d, m)) = billed[d][m]
                         /\ billed[d][m] \in UsageTokens
  BY RowsOfModel
<1>2. /\ days \subseteq all /\ all \subseteq Days /\ days \subseteq Days
      /\ \A d \in all : d \notin days => billed[d][m] = NoUsage
  BY DEF DaysWithRow, DaysOfPage
<1> HIDE DEF rows, days, all
<1>3. \A row \in rows : /\ row.day \in days /\ row = Row(row.day, m)
                        /\ UsageOfRow(row) = billed[row.day][m]
                        /\ UsageOfRow(row) \in UsageTokens
  BY <1>1
<1>4. {row.day : row \in rows} = days
  BY <1>1
<1>5. IsFiniteSet(rows)
  <2>1. IsFiniteSet(days)
    BY <1>2, DaysAreFinite, FS_Subset
  <2> DEFINE rowOf == [d \in days |-> Row(d, m)]
  <2>2. \A d \in days : rowOf[d] \in rows
    BY <1>1
  <2>3. \A row \in rows : \E d \in days : rowOf[d] = row
    BY <1>1
  <2>4. rowOf \in [days -> rows]
    BY <2>2
  <2> HIDE DEF rowOf
  <2>5. rowOf \in Surjection(days, rows)
    BY <2>3, <2>4 DEF Surjection
  <2> QED
    BY <2>1, <2>5, FS_Surjection
<1>6. PICK f : Additive(f, rows, FreshOf(rows)) /\ SumOfRows(rows).fresh = f[rows]
  BY <1>3, <1>5, FreshIsSum
<1>7. PICK c : Additive(c, rows, CachedOf(rows)) /\ SumOfRows(rows).cached = c[rows]
  BY <1>3, <1>5, CachedIsSum
<1>8. SumOfRows(rows) \in UsageTokens
  <2>1. rows \in SUBSET rows
    OBVIOUS
  <2>2. f[rows] \in Nat /\ c[rows] \in Nat
    BY <1>6, <1>7, <2>1 DEF Additive
  <2>3. SumOfRows(rows) = [fresh |-> SumOfRows(rows).fresh, cached |-> SumOfRows(rows).cached]
    BY DEF SumOfRows
  <2> QED
    BY <1>6, <1>7, <2>2, <2>3 DEF UsageTokens
<1> DEFINE w == [row \in rows |-> TotalTokens(UsageOfRow(row))]
<1>9. /\ IsWeight(FreshOf(rows), rows) /\ IsWeight(CachedOf(rows), rows) /\ IsWeight(w, rows)
      /\ \A row \in rows : /\ w[row] = FreshOf(rows)[row] + CachedOf(rows)[row]
                           /\ w[row] = TotalTokens(billed[row.day][m])
  <2>1. IsWeight(FreshOf(rows), rows) /\ IsWeight(CachedOf(rows), rows) /\ IsWeight(w, rows)
    BY <1>3, UsagesAreTyped DEF IsWeight, FreshOf, CachedOf
  <2>2. \A row \in rows : w[row] = FreshOf(rows)[row] + CachedOf(rows)[row]
    BY DEF FreshOf, CachedOf, TotalTokens
  <2>3. \A row \in rows : w[row] = TotalTokens(billed[row.day][m])
    BY <1>3
  <2> QED
    BY <2>1, <2>2, <2>3
<1>10. PICK h : Additive(h, rows, w)
  <2> HIDE DEF w
  <2> QED
    BY <1>5, <1>9, SumsExist, SumsAreAdditive
<1>11. h[rows] = f[rows] + c[rows]
  <2> DEFINE v == FreshOf(rows)
             x == CachedOf(rows)
  <2>1. IsWeight(v, rows) /\ IsWeight(x, rows) /\ IsWeight(w, rows)
    BY <1>9
  <2>2. \A row \in rows : w[row] = v[row] + x[row]
    BY <1>9
  <2>3. Additive(f, rows, v) /\ Additive(c, rows, x)
    BY <1>6, <1>7
  <2> HIDE DEF v, x, w
  <2>4. \A s \in SUBSET rows : h[s] = f[s] + c[s]
    BY <1>5, <1>10, <2>1, <2>2, <2>3, SumOfSums
  <2> QED
    BY <2>4
<1>12. TotalTokens(SumOfRows(rows)) = h[rows]
  BY <1>6, <1>7, <1>11 DEF TotalTokens
<1>13. PICK g : /\ Additive(g, Days, Tokens(billed, m))
                /\ \A s \in SUBSET Days : BilledOn(billed, m, s) = g[s]
  BY BilledOnIsSum
<1> DEFINE dayOf == [row \in rows |-> row.day]
           v == Tokens(billed, m)
<1>14. h[rows] = g[days]
  <2>1. \A row \in rows : dayOf[row] \in Days /\ v[dayOf[row]] = w[row]
    BY <1>2, <1>3, <1>9 DEF Tokens
  <2>2. \A x, y \in rows : dayOf[x] = dayOf[y] => x = y
    BY <1>3
  <2>3. {dayOf[row] : row \in rows} = days
    BY <1>4
  <2>4. IsWeight(w, rows) /\ Additive(g, Days, v)
    BY <1>9, <1>13
  <2> HIDE DEF dayOf, v, w
  <2>5. \A s \in SUBSET rows : h[s] = g[{dayOf[row] : row \in s}]
    BY <1>5, <1>10, <2>1, <2>2, <2>4, SumOfImage
  <2>6. h[rows] = g[{dayOf[row] : row \in rows}]
    BY <2>5
  <2> QED
    BY <2>3, <2>6
<1>15. g[all \ days] = 0
  <2>1. \A d \in all \ days : v[d] = 0
    BY <1>2, UsagesAreTyped DEF Tokens
  <2>2. Additive(g, Days, v)
    BY <1>13
  <2> HIDE DEF v
  <2>3. all \ days \in SUBSET Days
    BY <1>2
  <2> QED
    BY <2>1, <2>2, <2>3, DaysAreFinite, SumOfZeros
<1>16. g[all] = g[days]
  <2>1. days \in SUBSET all /\ all \in SUBSET Days /\ all \ days \in SUBSET Days /\ days \in SUBSET Days
    BY <1>2
  <2>2. BilledOn(billed, m, all) = BilledOn(billed, m, days) + BilledOn(billed, m, all \ days)
    <3>1. Parts(all, days, all \ days) /\ all \in SUBSET Days
      BY <2>1 DEF Parts
    <3> HIDE DEF days, all
    <3> QED
      BY <3>1, BilledOnParts
  <2>3. g[all] = g[days] + g[all \ days]
    BY <1>13, <2>1, <2>2
  <2>4. g[days] \in Nat
    BY <1>13, <2>1 DEF Additive
  <2> QED
    BY <1>15, <2>3, <2>4
<1>17. TotalTokens(SumOfRows(rows)) = BilledOn(billed, m, all)
  <2>1. all \in SUBSET Days
    BY <1>2
  <2> QED
    BY <1>12, <1>13, <1>14, <1>16, <2>1
<1>18. rows # {} => TotalTokens(SumOfRows(rows)) > 0
  <2> SUFFICES ASSUME NEW row \in rows PROVE h[rows] > 0
    BY <1>12
  <2>1. w[row] > 0
    <3>1. billed[row.day][m] # NoUsage
      <4>1. row.day \in days
        BY <1>3
      <4> QED
        BY <4>1 DEF days, DaysWithRow
    <3> QED
      BY <1>3, <3>1, UsagesAreTyped
  <2> HIDE DEF w
  <2>2. h[rows] = w[row] + h[rows \ {row}] /\ h[rows \ {row}] \in Nat
    BY <1>10 DEF Additive
  <2>3. w[row] \in Nat
    BY <1>9 DEF IsWeight
  <2> QED
    BY <2>1, <2>2, <2>3
<1> QED
  BY <1>8, <1>17, <1>18 DEF rows, all

\* What the pages so far add up to for a model.
Fetched(m) == IF m \in DOMAIN totals THEN TotalTokens(totals[m]) ELSE 0

TotalsOK ==
  /\ DOMAIN totals \subseteq Models
  /\ \A m \in DOMAIN totals : totals[m] \in UsageTokens /\ Owner[m] = provider

\* No model is in the totals with nothing.
TotalsInv == \A m \in DOMAIN totals : TotalTokens(totals[m]) > 0

LEMMA PageRowsAreOwned ==
  ASSUME NEW page \in Nat, NEW row \in PageRows(page)
  PROVE  row.model \in Models /\ Owner[row.model] = provider /\ RowsOf(page, row.model) # {}
<1> DEFINE HasRow(d, n) == Owner[n] = provider /\ billed[d][n] # NoUsage
           keys == {k \in DaysOfPage(page) \X Models : HasRow(k[1], k[2])}
<1>1. PageRows(page) = {Row(k[1], k[2]) : k \in keys}
  BY DEF PageRows
<1>2. \A d, n : Row(d, n).model = n
  BY DEF Row
<1>3. PICK k \in keys : row = Row(k[1], k[2])
  <2> HIDE DEF keys
  <2> QED
    BY <1>1
<1>4. k[2] \in Models /\ Owner[k[2]] = provider
  OBVIOUS
<1>5. row.model = k[2]
  BY <1>2, <1>3
<1> QED
  BY <1>4, <1>5 DEF RowsOf

\* FetchPage adds to the total of each model what was billed for it on the
\* days of the page, as far as it has been billed.
LEMMA PageIsAccumulated ==
  ASSUME OwnerAssumption, IsReport(billed), provider \in ProviderRegistry,
         TotalsOK, TotalsInv, NEW page \in Nat, totals' = Accumulated(PageRows(page)),
         provider' = provider
  PROVE  /\ TotalsOK' /\ TotalsInv'
         /\ \A m \in Models : Owner[m] = provider =>
              Fetched(m)' = Fetched(m) + BilledOn(billed, m, DaysOfPage(page))
<1> DEFINE keys == DOMAIN totals \cup {row.model : row \in PageRows(page)}
           Before(m) == IF m \in DOMAIN totals THEN totals[m] ELSE NoUsage
           After(m) == Plus(Before(m), SumOfRows(RowsOf(page, m)))
<1>1. totals' = [m \in keys |-> After(m)]
  BY DEF Accumulated, RowsOf
<1>2. keys \subseteq Models /\ \A m \in keys : Owner[m] = provider
  BY PageRowsAreOwned DEF TotalsOK
<1>3. ASSUME NEW m \in Models, Owner[m] = provider
      PROVE  /\ After(m) \in UsageTokens
             /\ TotalTokens(After(m)) = Fetched(m) + BilledOn(billed, m, DaysOfPage(page))
             /\ m \in keys => TotalTokens(After(m)) > 0
             /\ m \notin keys => TotalTokens(After(m)) = 0
  <2> DEFINE sum == SumOfRows(RowsOf(page, m))
             before == Before(m)
  <2>1. /\ sum \in UsageTokens
        /\ TotalTokens(sum) = BilledOn(billed, m, DaysOfPage(page))
        /\ RowsOf(page, m) # {} => TotalTokens(sum) > 0
    BY <1>3, PageAddsUp
  <2>2. before \in UsageTokens /\ TotalTokens(before) = Fetched(m)
    BY UsagesAreTyped DEF TotalsOK, Fetched
  <2>3. m \in DOMAIN totals => TotalTokens(before) > 0
    BY DEF TotalsInv
  <2>4. m \notin keys => RowsOf(page, m) = {} /\ before = NoUsage
    BY DEF RowsOf
  <2>5. RowsOf(page, m) = {} => TotalTokens(sum) = 0
    <3> SUFFICES ASSUME RowsOf(page, m) = {} PROVE BilledOn(billed, m, DaysOfPage(page)) = 0
      BY <2>1
    <3>1. /\ RowsOf(page, m) = {Row(d, m) : d \in DaysWithRow(page, m)}
      BY <1>3, RowsOfModel
    <3>2. DaysWithRow(page, m) = {}
      BY <3>1
    <3>3. \A d \in DaysOfPage(page) : billed[d][m] = NoUsage
      BY <3>2 DEF DaysWithRow
    <3>4. PICK g : /\ Additive(g, Days, Tokens(billed, m))
                   /\ \A s \in SUBSET Days : BilledOn(billed, m, s) = g[s]
      BY BilledOnIsSum
    <3>5. DaysOfPage(page) \in SUBSET Days
      BY DEF DaysOfPage
    <3> DEFINE w == Tokens(billed, m)
    <3>6. \A d \in DaysOfPage(page) : w[d] = 0
      BY <3>3, <3>5, UsagesAreTyped DEF Tokens
    <3>7. Additive(g, Days, w)
      BY <3>4
    <3> HIDE DEF w
    <3>8. g[DaysOfPage(page)] = 0
      BY <3>5, <3>6, <3>7, DaysAreFinite, SumOfZeros
    <3> QED
      BY <3>4, <3>5, <3>8
  <2>6. m \in keys => m \in DOMAIN totals \/ RowsOf(page, m) # {}
    BY PageRowsAreOwned DEF RowsOf
  <2> HIDE DEF sum, before
  <2>7. /\ Plus(before, sum) \in UsageTokens
        /\ TotalTokens(Plus(before, sum)) = TotalTokens(before) + TotalTokens(sum)
        /\ TotalTokens(before) \in Nat /\ TotalTokens(sum) \in Nat
    BY <2>1, <2>2, UsagesAreTyped
  <2>8. After(m) = Plus(before, sum)
    BY DEF sum, before
  <2>9. m \notin keys => TotalTokens(before) = 0
    BY <2>4, UsagesAreTyped
  <2> HIDE DEF After, keys
  <2> QED
    BY <2>1, <2>2, <2>3, <2>4, <2>5, <2>6, <2>7, <2>8, <2>9
<1> HIDE DEF keys, After
<1>4. DOMAIN totals' = keys /\ \A m \in keys : totals'[m] = After(m)
  BY <1>1
<1>5. TotalsOK'
  BY <1>2, <1>3, <1>4 DEF TotalsOK
<1>6. TotalsInv'
  BY <1>2, <1>3, <1>4 DEF TotalsInv
<1>7. ASSUME NEW m \in Models, Owner[m] = provider
      PROVE  Fetched(m)' = Fetched(m) + BilledOn(billed, m, DaysOfPage(page))
  <2>1. Fetched(m)' = IF m \in keys THEN TotalTokens(After(m)) ELSE 0
    BY <1>4 DEF Fetched
  <2> QED
    BY <1>3, <1>7, <2>1
<1> QED
  BY <1>5, <1>6, <1>7

-----------------------------------------------------------------------------
(* Type correctness. *)

\* A bill adds to its day and model and leaves the others as they are.
LEMMA BillLemma ==
  ASSUME IsReport(billed), NEW d \in Days, NEW m \in Models, NEW u \in UsageTokens,
         billed' = [billed EXCEPT ![d][m] = Plus(@, u)]
  PROVE  /\ IsReport(billed)'
         /\ \A e \in Days, n \in Models :
              TotalTokens(billed[e][n]) <= TotalTokens(billed'[e][n])
<1> DEFINE of == billed[d]
<1>1. of \in [Models -> UsageTokens] /\ of[m] \in UsageTokens
  BY DEF IsReport
<1>2. Plus(of[m], u) \in UsageTokens /\ TotalTokens(Plus(of[m], u)) = TotalTokens(of[m]) + TotalTokens(u)
  BY <1>1, UsagesAreTyped
<1>3. billed' = [billed EXCEPT ![d] = [of EXCEPT ![m] = Plus(of[m], u)]]
  OBVIOUS
<1> DEFINE new == [of EXCEPT ![m] = Plus(of[m], u)]
<1>4. /\ new \in [Models -> UsageTokens] /\ new[m] = Plus(of[m], u)
      /\ \A n \in Models : n # m => new[n] = of[n]
  BY <1>1, <1>2
<1>5. billed' = [billed EXCEPT ![d] = new]
  BY <1>3
<1> HIDE DEF new
<1>6. /\ IsReport(billed)' /\ billed'[d] = new
      /\ \A e \in Days : e # d => billed'[e] = billed[e]
  BY <1>4, <1>5 DEF IsReport
<1>7. ASSUME NEW e \in Days, NEW n \in Models
      PROVE  TotalTokens(billed[e][n]) <= TotalTokens(billed'[e][n])
  <2>1. TotalTokens(billed[e][n]) \in Nat /\ TotalTokens(u) \in Nat
    BY UsagesAreTyped DEF IsReport
  <2>2. CASE e = d /\ n = m
    <3>1. TotalTokens(billed'[e][n]) = TotalTokens(billed[e][n]) + TotalTokens(u)
      BY <1>2, <1>4, <1>6, <2>2
    <3> QED
      BY <2>1, <3>1
  <2>3. CASE ~ (e = d /\ n = m)
    <3>1. billed'[e][n] = billed[e][n]
      BY <1>4, <1>6, <2>3
    <3> QED
      BY <2>1, <3>1
  <2> QED
    BY <2>2, <2>3
<1> QED
  BY <1>6, <1>7

LEMMA BilledIsOnAllDays ==
  ASSUME NEW m
  PROVE  Billed(m) = BilledOn(billed, m, Days)
BY DEF Billed, BilledOn

LEMMA BilledIsNumber ==
  ASSUME IsReport(billed), NEW m \in Models
  PROVE  Billed(m) \in Nat
<1>1. Days \in SUBSET Days
  OBVIOUS
<1>2. BilledOn(billed, m, Days) \in Nat
  BY <1>1, BilledOnTyped
<1> QED
  BY <1>2, BilledIsOnAllDays

TypeInv == TypeOK /\ TotalsInv

LEMMA UsagesAreTokens == \A u \in Usages : u \in UsageTokens
BY UsagesAssumption

LEMMA TypeParts ==
  TypeOK <=> /\ IsReport(billed)
             /\ stored \in [Models -> UsageTokens]
             /\ turns \in [billed : 0 .. MaxBilled, stored : 0 .. MaxStored]
             /\ pc \in {"idle", "fetching", "fetched", "done", "failed"}
             /\ provider \in ProviderRegistry
             /\ nextPage \in NoPage .. LastPage
             /\ TotalsOK
             /\ result.breach \in BOOLEAN
             /\ DOMAIN result.rows \subseteq Models
             /\ billedAtStart \in [Models -> Nat]
BY DEF TypeOK, IsReport, TotalsOK

LEMMA EmptyTotals ==
  ASSUME totals = <<>>
  PROVE  DOMAIN totals = {} /\ TotalsOK /\ TotalsInv
<1>1. DOMAIN totals = {}
  OBVIOUS
<1> QED
  BY <1>1 DEF TotalsOK, TotalsInv

LEMMA TypeInit == Init => TypeInv
<1> SUFFICES ASSUME Init PROVE TypeInv
  OBVIOUS
<1>1. IsReport(billed) /\ stored \in [Models -> UsageTokens]
  BY UsagesAreTyped DEF Init, IsReport
<1>2. turns \in [billed : 0 .. MaxBilled, stored : 0 .. MaxStored]
  <2>1. 0 \in 0 .. MaxBilled /\ 0 \in 0 .. MaxStored
    BY BoundAssumption
  <2> QED
    BY <2>1 DEF Init
<1>3. nextPage \in NoPage .. LastPage
  BY PagesCoverTheDays DEF Init, NoPage
<1>4. TotalsOK /\ TotalsInv
  BY EmptyTotals DEF Init
<1>5. result.breach \in BOOLEAN /\ DOMAIN result.rows \subseteq Models
  <2>1. result.rows = <<>> /\ result.breach = FALSE
    BY DEF Init, NoResult
  <2>2. DOMAIN result.rows = {}
    BY <2>1
  <2>3. FALSE \in BOOLEAN
    OBVIOUS
  <2> QED
    BY <2>1, <2>2, <2>3
<1>6. pc = "idle" /\ provider \in ProviderRegistry /\ billedAtStart \in [Models -> Nat]
  BY DEF Init
<1> QED
  BY <1>1, <1>2, <1>3, <1>4, <1>5, <1>6, TypeParts DEF TypeInv

\* The page that is fetched while there is one to fetch.
LEMMA PageLemma ==
  ASSUME TypeOK
  PROVE  /\ PageOf(nextPage) \in Nat /\ PageOf(nextPage) \in 1 .. LastPage
         /\ HasMore(PageOf(nextPage)) =>
              NextPage(PageOf(nextPage)) \in 1 .. LastPage
                /\ PageOf(NextPage(PageOf(nextPage))) = PageOf(nextPage) + 1
         /\ ~ HasMore(PageOf(nextPage)) => PageOf(nextPage) = LastPage
<1>1. LastPage \in Nat /\ LastPage >= 1
  BY PagesCoverTheDays
<1>2. nextPage \in 0 .. LastPage
  BY DEF TypeOK, NoPage
<1> DEFINE page == PageOf(nextPage)
<1>3. page \in Nat /\ page \in 1 .. LastPage
  BY <1>1, <1>2 DEF PageOf, NoPage
<1> HIDE DEF page
<1>4. HasMore(page) <=> page < LastPage
  BY DEF HasMore
<1>5. NextPage(page) = page + 1 /\ page + 1 # NoPage
  BY <1>3 DEF NextPage, NoPage
<1>6. PageOf(page + 1) = page + 1
  BY <1>5 DEF PageOf
<1>7. HasMore(page) => page + 1 \in 1 .. LastPage
  BY <1>1, <1>3, <1>4
<1>8. ~ HasMore(page) => page = LastPage
  BY <1>1, <1>3, <1>4
<1> QED
  BY <1>3, <1>5, <1>6, <1>7, <1>8 DEF page

LEMMA CompareTyped ==
  ASSUME stored \in [Models -> UsageTokens], NEW res, res = Compare(LocalTotals)
  PROVE  /\ res.breach \in BOOLEAN
         /\ DOMAIN res.rows \subseteq Models
         /\ \A m \in DOMAIN res.rows : /\ res.rows[m].localTokens \in Nat
                                       /\ res.rows[m].verdict = Verdict(m, res.rows[m].localTokens)
         /\ res.breach <=> \E m \in DOMAIN res.rows :
                             res.rows[m].verdict = VerdictLocalExceedsAPI
<1> DEFINE used == {m \in Models : stored[m] # NoUsage}
           rows == [m \in used |-> [localTokens |-> LocalTotals[m],
                                    verdict |-> Verdict(m, LocalTotals[m])]]
           breach == \E m \in DOMAIN rows : rows[m].verdict = VerdictLocalExceedsAPI
<1>1. DOMAIN LocalTotals = used /\ \A m \in used : LocalTotals[m] = TotalTokens(stored[m])
  BY DEF LocalTotals
<1>2. \A m \in used : LocalTotals[m] \in Nat
  BY <1>1, UsagesAreTyped
<1>3. res = [rows |-> rows, breach |-> breach]
  BY <1>1 DEF Compare
<1>4. res.rows = rows
  BY <1>3
<1>5. breach \in BOOLEAN
  OBVIOUS
<1>6. /\ DOMAIN rows = used
      /\ \A m \in used : rows[m].localTokens = LocalTotals[m] /\ rows[m].verdict = Verdict(m, LocalTotals[m])
  OBVIOUS
<1>7. res.breach = breach
  BY <1>3
<1>8. res.breach \in BOOLEAN
  BY <1>5, <1>7
<1>9. res.breach <=> \E m \in DOMAIN res.rows : res.rows[m].verdict = VerdictLocalExceedsAPI
  BY <1>4, <1>7
<1>10. used \subseteq Models
  OBVIOUS
<1> HIDE DEF rows, used, breach
<1> QED
  BY <1>2, <1>4, <1>6, <1>8, <1>9, <1>10

LEMMA TypeNext == TypeInv /\ [Next]_vars => TypeInv'
<1> SUFFICES ASSUME TypeInv, [Next]_vars PROVE TypeInv'
  OBVIOUS
<1>1. TypeOK /\ TotalsInv
  BY DEF TypeInv
<1>2. /\ IsReport(billed)
      /\ stored \in [Models -> UsageTokens]
      /\ turns \in [billed : 0 .. MaxBilled, stored : 0 .. MaxStored]
      /\ pc \in {"idle", "fetching", "fetched", "done", "failed"}
      /\ provider \in ProviderRegistry
      /\ nextPage \in NoPage .. LastPage
      /\ TotalsOK
      /\ result.breach \in BOOLEAN
      /\ DOMAIN result.rows \subseteq Models
      /\ billedAtStart \in [Models -> Nat]
  BY <1>1, TypeParts
<1>3. ASSUME NEW d \in Days, NEW m \in Models, NEW u \in Usages, Bill(d, m, u) PROVE TypeInv'
  <2>1. IsReport(billed)'
    BY <1>2, <1>3, BillLemma, UsagesAreTokens DEF Bill
  <2>2. turns' \in [billed : 0 .. MaxBilled, stored : 0 .. MaxStored]
    <3>1. turns.billed \in 0 .. MaxBilled /\ turns.billed < MaxBilled
      BY <1>2, <1>3 DEF Bill
    <3>2. turns.billed + 1 \in 0 .. MaxBilled
      BY <3>1, BoundAssumption
    <3> QED
      BY <1>2, <1>3, <3>2 DEF Bill
  <2>3. TotalsOK' /\ TotalsInv'
    BY <1>1, <1>2, <1>3 DEF Bill, command, TotalsOK, TotalsInv
  <2> QED
    BY <1>2, <1>3, <2>1, <2>2, <2>3, TypeParts DEF TypeInv, Bill, command, TypeOK, IsReport, TotalsOK
<1>4. ASSUME NEW m \in Models, NEW u \in Usages, Store(m, u) PROVE TypeInv'
  <2>1. stored' \in [Models -> UsageTokens]
    <3>1. Plus(stored[m], u) \in UsageTokens
      BY <1>2, UsagesAreTokens, UsagesAreTyped
    <3> QED
      BY <1>2, <1>4, <3>1 DEF Store
  <2>2. turns' \in [billed : 0 .. MaxBilled, stored : 0 .. MaxStored]
    <3>1. turns.stored \in 0 .. MaxStored /\ turns.stored < MaxStored
      BY <1>2, <1>4 DEF Store
    <3>2. turns.stored + 1 \in 0 .. MaxStored
      BY <3>1, BoundAssumption
    <3> QED
      BY <1>2, <1>4, <3>2 DEF Store
  <2>3. TotalsOK' /\ TotalsInv'
    BY <1>1, <1>2, <1>4 DEF Store, command, TotalsOK, TotalsInv
  <2> QED
    BY <1>2, <1>4, <2>1, <2>2, <2>3 DEF TypeInv, Store, command, TypeOK, IsReport, TotalsOK
<1>5. ASSUME NEW p \in ProviderRegistry, Start(p) PROVE TypeInv'
  <2>1. billedAtStart' \in [Models -> Nat]
    BY <1>2, <1>5, BilledIsNumber DEF Start
  <2>2. nextPage' \in NoPage .. LastPage
    BY <1>5, PagesCoverTheDays DEF Start, NoPage
  <2>3. TotalsOK' /\ TotalsInv'
    <3>1. totals' = <<>>
      BY <1>5 DEF Start
    <3>2. DOMAIN totals' = {}
      BY <3>1
    <3> QED
      BY <3>2 DEF TotalsOK, TotalsInv
  <2>4. result'.breach \in BOOLEAN /\ DOMAIN result'.rows \subseteq Models
    <3>1. result'.rows = <<>> /\ result'.breach = FALSE
      BY <1>5 DEF Start, NoResult
    <3>2. DOMAIN result'.rows = {}
      BY <3>1
    <3>3. FALSE \in BOOLEAN
      OBVIOUS
    <3> QED
      BY <3>1, <3>2, <3>3
  <2>5. pc' = "fetching" /\ provider' \in ProviderRegistry /\ UNCHANGED world
    BY <1>5 DEF Start
  <2> QED
    BY <1>2, <2>1, <2>2, <2>3, <2>4, <2>5 DEF TypeInv, world, TypeOK, IsReport, TotalsOK
<1>6. CASE FetchPage
  <2>1. PageOf(nextPage) \in Nat /\ totals' = Accumulated(PageRows(PageOf(nextPage))) /\ provider' = provider
    BY <1>1, <1>6, PageLemma DEF FetchPage
  <2>2. TotalsOK' /\ TotalsInv'
    BY <1>1, <1>2, <2>1, OwnerAssumption, PageIsAccumulated
  <2>3. nextPage' \in NoPage .. LastPage
    <3>1. CASE HasMore(PageOf(nextPage))
      <4>1. nextPage' = NextPage(PageOf(nextPage))
        BY <1>6, <3>1 DEF FetchPage
      <4>2. nextPage' \in 1 .. LastPage /\ LastPage \in Nat
        BY <1>1, <3>1, <4>1, PageLemma, PagesCoverTheDays
      <4> QED
        BY <4>2 DEF NoPage
    <3>2. CASE ~ HasMore(PageOf(nextPage))
      BY <1>2, <1>6, <3>2 DEF FetchPage
    <3> QED
      BY <3>1, <3>2
  <2>4. pc' \in {"idle", "fetching", "fetched", "done", "failed"}
    BY <1>2, <1>6 DEF FetchPage
  <2>5. UNCHANGED <<world, provider, result, billedAtStart>>
    BY <1>6 DEF FetchPage
  <2> QED
    BY <1>2, <2>2, <2>3, <2>4, <2>5 DEF TypeInv, world, TypeOK, IsReport, TotalsOK
<1>7. CASE LoadAndCompare
  <2>1. result'.breach \in BOOLEAN /\ DOMAIN result'.rows \subseteq Models
    BY <1>2, <1>7, CompareTyped DEF LoadAndCompare
  <2>2. pc' = "done" /\ UNCHANGED <<world, provider, nextPage, totals, billedAtStart>>
    BY <1>7 DEF LoadAndCompare
  <2>3. TotalsOK' /\ TotalsInv'
    BY <1>1, <1>2, <2>2 DEF TotalsOK, TotalsInv
  <2> QED
    BY <1>2, <2>1, <2>2, <2>3 DEF TypeInv, world, TypeOK, IsReport, TotalsOK
<1>8. CASE Fail
  <2>1. pc' = "failed" /\ UNCHANGED <<world, provider, nextPage, totals, result, billedAtStart>>
    BY <1>8 DEF Fail
  <2> QED
    BY <1>1, <1>2, <2>1 DEF TypeInv, world, TypeOK, IsReport, TotalsOK, TotalsInv
<1>9. CASE UNCHANGED vars
  BY <1>1, <1>9 DEF TypeInv, vars, TypeOK, TotalsInv
<1> QED
  BY <1>3, <1>4, <1>5, <1>6, <1>7, <1>8, <1>9 DEF Next

(***************************************************************************)
(* Type correctness: whatever is billed and stored, the totals are of      *)
(* models of the provider, the cursor is on a page of the report and a     *)
(* result is of the models stored (FetchUsage, Compare).                   *)
(***************************************************************************)
THEOREM TypeCorrect == Spec => []TypeOK
<1>1. TypeInv => TypeOK
  BY DEF TypeInv
<1> QED
  BY <1>1, TypeInit, TypeNext, PTL DEF Spec

-----------------------------------------------------------------------------
(* What is fetched, between what was billed at the start and what has been *)
(* billed since. *)

\* The days whose pages have been fetched.
FetchedDays == IF pc = "fetching" THEN DaysBefore(PageOf(nextPage)) ELSE Days

InReport == pc \in {"fetching", "fetched", "done"}

(***************************************************************************)
(* FetchIsBracketed says nothing of the totals while pages are missing.    *)
(* They are at most what is billed by now on the days fetched, and lack at *)
(* most what is billed by now on the others.                               *)
(***************************************************************************)
Bracketed(m) ==
  /\ Fetched(m) <= BilledOn(billed, m, FetchedDays)
  /\ billedAtStart[m] <= Fetched(m) + BilledOn(billed, m, Days \ FetchedDays)

FetchInv == InReport => \A m \in Models : Owner[m] = provider => Bracketed(m)

LEMMA FetchedIsNumber ==
  ASSUME TypeOK, NEW m \in Models
  PROVE  Fetched(m) \in Nat /\ billedAtStart[m] \in Nat
BY UsagesAreTyped DEF TypeOK, Fetched

LEMMA FetchedDaysLemma ==
  ASSUME TypeOK
  PROVE  FetchedDays \in SUBSET Days /\ Days \ FetchedDays \in SUBSET Days
BY DEF FetchedDays, DaysBefore

\* A report that grows leaves what was fetched between its bounds.
LEMMA BracketGrows ==
  ASSUME TypeOK, FetchInv, IsReport(billed)',
         \A d \in Days, m \in Models : TotalTokens(billed[d][m]) <= TotalTokens(billed'[d][m]),
         UNCHANGED command
  PROVE  FetchInv'
<1>1. /\ pc' = pc /\ provider' = provider /\ nextPage' = nextPage
      /\ totals' = totals /\ billedAtStart' = billedAtStart
  BY DEF command
<1> SUFFICES ASSUME InReport, NEW m \in Models, Owner[m] = provider
             PROVE  Bracketed(m)'
  BY <1>1 DEF FetchInv, InReport
<1> DEFINE s == FetchedDays
           t == Days \ FetchedDays
<1>2. s \in SUBSET Days /\ t \in SUBSET Days
  BY FetchedDaysLemma
<1>3. Bracketed(m)
  BY DEF FetchInv
<1>4. FetchedDays' = s /\ Fetched(m)' = Fetched(m)
  BY <1>1 DEF FetchedDays, Fetched
<1>5. Fetched(m) <= BilledOn(billed, m, s) /\ billedAtStart[m] <= Fetched(m) + BilledOn(billed, m, t)
  BY <1>3 DEF Bracketed
<1>6. Bracketed(m)' <=> /\ Fetched(m) <= BilledOn(billed', m, s)
                        /\ billedAtStart[m] <= Fetched(m) + BilledOn(billed', m, t)
  BY <1>1, <1>4 DEF Bracketed
<1> HIDE DEF s, t
<1>7. IsReport(billed) /\ IsReport(billed')
  BY TypeParts DEF IsReport
<1>8. /\ BilledOn(billed, m, s) <= BilledOn(billed', m, s)
      /\ BilledOn(billed, m, t) <= BilledOn(billed', m, t)
  BY <1>2, <1>7, BilledOnGrows
<1>9. /\ BilledOn(billed, m, s) \in Nat /\ BilledOn(billed', m, s) \in Nat
      /\ BilledOn(billed, m, t) \in Nat /\ BilledOn(billed', m, t) \in Nat
  BY <1>2, <1>7, BilledOnTyped
<1>10. Fetched(m) \in Nat /\ billedAtStart[m] \in Nat
  BY FetchedIsNumber
<1> QED
  BY <1>5, <1>6, <1>8, <1>9, <1>10

LEMMA FetchStep == TypeInv /\ FetchInv /\ FetchPage => FetchInv'
<1> SUFFICES ASSUME TypeInv, FetchInv, FetchPage PROVE FetchInv'
  OBVIOUS
<1> DEFINE page == PageOf(nextPage)
<1>1. TypeOK /\ IsReport(billed) /\ provider \in ProviderRegistry /\ TotalsOK /\ TotalsInv
  BY TypeParts DEF TypeInv
<1>2. /\ pc = "fetching" /\ totals' = Accumulated(PageRows(page))
      /\ billed' = billed /\ provider' = provider /\ billedAtStart' = billedAtStart
  BY DEF FetchPage, world
<1>3. page \in Nat
  BY <1>1, PageLemma
<1>4. \A m \in Models : Owner[m] = provider =>
        Fetched(m)' = Fetched(m) + BilledOn(billed, m, DaysOfPage(page))
  BY <1>1, <1>2, <1>3, OwnerAssumption, PageIsAccumulated
<1>5. FetchedDays = DaysBefore(page)
  BY <1>2 DEF FetchedDays
<1>6. FetchedDays' = DaysBefore(page + 1)
  <2>1. CASE HasMore(page)
    <3>1. nextPage' = NextPage(page) /\ pc' = "fetching"
      BY <1>2, <2>1 DEF FetchPage
    <3>2. PageOf(nextPage') = page + 1
      BY <1>1, <2>1, <3>1, PageLemma
    <3> QED
      BY <3>1, <3>2 DEF FetchedDays
  <2>2. CASE ~ HasMore(page)
    <3>1. pc' = "fetched"
      BY <2>2 DEF FetchPage
    <3>2. page = LastPage
      BY <1>1, <2>2, PageLemma
    <3> QED
      BY <3>1, <3>2, PagesCoverTheDays DEF FetchedDays
  <2> QED
    BY <2>1, <2>2
<1> DEFINE before == DaysBefore(page)
           now == DaysOfPage(page)
           after == DaysBefore(page + 1)
<1>7. /\ before \in SUBSET Days /\ now \in SUBSET Days /\ before \cap now = {}
      /\ after = before \cup now
  BY <1>3, PagesCoverTheDays
<1> HIDE DEF page, before, now, after
<1> SUFFICES ASSUME NEW m \in Models, Owner[m] = provider PROVE Bracketed(m)'
  BY <1>2 DEF FetchInv
<1>8. Bracketed(m)
  BY <1>2 DEF FetchInv, InReport
<1>9. /\ Fetched(m) <= BilledOn(billed, m, before)
      /\ billedAtStart[m] <= Fetched(m) + BilledOn(billed, m, Days \ before)
  BY <1>5, <1>8 DEF Bracketed, before
<1>10. Fetched(m)' = Fetched(m) + BilledOn(billed, m, now)
  BY <1>4 DEF now
<1>11. /\ after \in SUBSET Days /\ Days \ after \in SUBSET Days
  BY <1>7
<1>12. BilledOn(billed, m, after) = BilledOn(billed, m, before) + BilledOn(billed, m, now)
  <2>1. Parts(after, before, now)
    BY <1>7 DEF Parts
  <2> QED
    BY <1>1, <1>11, <2>1, BilledOnParts
<1>13. Parts(Days \ before, now, Days \ after) /\ Days \ before \in SUBSET Days
  BY <1>7 DEF Parts
<1>14. BilledOn(billed, m, Days \ before) =
         BilledOn(billed, m, now) + BilledOn(billed, m, Days \ after)
  BY <1>1, <1>13, BilledOnParts
<1>15. /\ BilledOn(billed, m, before) \in Nat /\ BilledOn(billed, m, now) \in Nat
       /\ BilledOn(billed, m, Days \ after) \in Nat
  BY <1>1, <1>7, <1>11, BilledOnTyped
<1>16. Fetched(m) \in Nat /\ billedAtStart[m] \in Nat
  BY <1>1, FetchedIsNumber
<1>17. Bracketed(m)' <=> /\ Fetched(m)' <= BilledOn(billed, m, after)
                         /\ billedAtStart[m] <= Fetched(m)' + BilledOn(billed, m, Days \ after)
  BY <1>2, <1>6 DEF Bracketed, after
<1> QED
  BY <1>9, <1>10, <1>12, <1>14, <1>15, <1>16, <1>17

LEMMA StartStep == ASSUME TypeInv, NEW p \in ProviderRegistry, Start(p) PROVE FetchInv'
<1>1. /\ pc' = "fetching" /\ nextPage' = NoPage /\ totals' = <<>>
      /\ billedAtStart' = [m \in Models |-> Billed(m)] /\ billed' = billed
  BY DEF Start, world
<1>2. IsReport(billed)
  BY TypeParts DEF TypeInv
<1>3. FetchedDays' = {}
  <2>1. PageOf(nextPage') = 1
    BY <1>1 DEF PageOf
  <2> QED
    BY <1>1, <2>1, PagesCoverTheDays DEF FetchedDays
<1> SUFFICES ASSUME NEW m \in Models PROVE Bracketed(m)'
  BY DEF FetchInv
<1>4. DOMAIN totals' = {}
  BY <1>1
<1>5. Fetched(m)' = 0
  BY <1>4 DEF Fetched
<1>6. billedAtStart'[m] = BilledOn(billed, m, Days)
  BY <1>1, BilledIsOnAllDays
<1>7. BilledOn(billed, m, {}) = 0 /\ BilledOn(billed, m, Days) \in Nat
  BY <1>2, NoDayNothing, BilledOnTyped
<1>8. Days \ {} = Days
  OBVIOUS
<1>9. Bracketed(m)' <=> /\ Fetched(m)' <= BilledOn(billed, m, {})
                        /\ billedAtStart'[m] <= Fetched(m)' + BilledOn(billed, m, Days)
  BY <1>1, <1>3, <1>8 DEF Bracketed
<1> QED
  BY <1>5, <1>6, <1>7, <1>9

LEMMA FetchNext == TypeInv /\ FetchInv /\ [Next]_vars => FetchInv'
<1> SUFFICES ASSUME TypeInv, FetchInv, [Next]_vars PROVE FetchInv'
  OBVIOUS
<1>1. TypeOK /\ IsReport(billed)
  BY TypeParts DEF TypeInv
<1>2. ASSUME NEW d \in Days, NEW m \in Models, NEW u \in Usages, Bill(d, m, u) PROVE FetchInv'
  BY <1>1, <1>2, BillLemma, UsagesAreTokens, BracketGrows DEF Bill
<1>3. ASSUME UNCHANGED billed, UNCHANGED command PROVE FetchInv'
  <2>1. IsReport(billed)'
    BY <1>1, <1>3 DEF IsReport
  <2>2. \A d \in Days, m \in Models : TotalTokens(billed[d][m]) \in Nat
    BY <1>1, UsagesAreTyped DEF IsReport
  <2>3. \A d \in Days, m \in Models : TotalTokens(billed[d][m]) <= TotalTokens(billed'[d][m])
    BY <1>3, <2>2
  <2> QED
    BY <1>1, <1>3, <2>1, <2>3, BracketGrows
<1>4. ASSUME NEW m \in Models, NEW u \in Usages, Store(m, u) PROVE FetchInv'
  BY <1>3, <1>4 DEF Store
<1>5. ASSUME NEW p \in ProviderRegistry, Start(p) PROVE FetchInv'
  BY <1>5, StartStep
<1>6. CASE FetchPage
  BY <1>6, FetchStep
<1>7. CASE LoadAndCompare
  <2>1. /\ pc = "fetched" /\ pc' = "done" /\ billed' = billed
        /\ provider' = provider /\ totals' = totals /\ billedAtStart' = billedAtStart
    BY <1>7 DEF LoadAndCompare, world
  <2>2. FetchedDays = Days /\ FetchedDays' = Days
    BY <2>1 DEF FetchedDays
  <2>3. \A m \in Models : Bracketed(m) => Bracketed(m)'
    BY <2>1, <2>2 DEF Bracketed, Fetched
  <2> QED
    BY <2>1, <2>3 DEF FetchInv, InReport
<1>8. CASE Fail
  BY <1>8 DEF Fail, FetchInv, InReport
<1>9. CASE UNCHANGED vars
  BY <1>3, <1>9 DEF vars, command
<1> QED
  BY <1>2, <1>4, <1>5, <1>6, <1>7, <1>8, <1>9 DEF Next

LEMMA BracketIsTheProperty == TypeInv /\ FetchInv => FetchIsBracketed
<1> SUFFICES ASSUME TypeInv, FetchInv, pc \in {"fetched", "done"},
                    NEW m \in Models, Owner[m] = provider
             PROVE  billedAtStart[m] <= Fetched(m) /\ Fetched(m) <= Billed(m)
  BY DEF FetchIsBracketed, Fetched
<1>1. TypeOK /\ IsReport(billed)
  BY TypeParts DEF TypeInv
<1>2. FetchedDays = Days /\ Days \ Days = {}
  BY DEF FetchedDays
<1>3. Bracketed(m)
  BY DEF FetchInv, InReport
<1>4. /\ Fetched(m) <= BilledOn(billed, m, Days)
      /\ billedAtStart[m] <= Fetched(m) + BilledOn(billed, m, {})
  BY <1>2, <1>3 DEF Bracketed
<1>5. BilledOn(billed, m, {}) = 0 /\ Billed(m) = BilledOn(billed, m, Days)
  BY <1>1, NoDayNothing, BilledIsOnAllDays
<1>6. Fetched(m) \in Nat /\ billedAtStart[m] \in Nat
  BY <1>1, FetchedIsNumber
<1> QED
  BY <1>4, <1>5, <1>6

(***************************************************************************)
(* Although the report grows between two pages, what the pages add up to  *)
(* is, for each model of the provider, a total that the model went through *)
(* since the command was started, for any number of days and pages         *)
(* (FetchUsage).                                                           *)
(***************************************************************************)
THEOREM FetchIsBracketedHolds == Spec => []FetchIsBracketed
<1>1. Init => FetchInv
  BY DEF Init, FetchInv, InReport
<1> QED
  BY <1>1, TypeInit, TypeNext, FetchNext, BracketIsTheProperty, PTL DEF Spec

-----------------------------------------------------------------------------
(* The verdicts. *)

\* What was printed is what Compare makes of the totals, which no later step
\* of the world changes.
ResultInv ==
  pc = "done" =>
    /\ \A m \in DOMAIN result.rows :
         /\ result.rows[m].localTokens \in Nat
         /\ result.rows[m].verdict = Verdict(m, result.rows[m].localTokens)
    /\ result.breach <=> \E m \in DOMAIN result.rows :
                            result.rows[m].verdict = VerdictLocalExceedsAPI

LEMMA ResultNext == TypeInv /\ ResultInv /\ [Next]_vars => ResultInv'
<1> SUFFICES ASSUME TypeInv, ResultInv, [Next]_vars, pc' = "done" PROVE ResultInv'
  BY DEF ResultInv
<1>1. CASE LoadAndCompare
  <2>1. totals' = totals /\ result' = Compare(LocalTotals) /\ stored \in [Models -> UsageTokens]
    BY <1>1 DEF LoadAndCompare, TypeInv, TypeOK
  <2>2. \A m, n : Verdict(m, n)' = Verdict(m, n)
    BY <2>1 DEF Verdict
  <2> QED
    BY <2>1, <2>2, CompareTyped DEF ResultInv
<1>2. CASE UNCHANGED <<pc, totals, result>>
  <2>1. \A m, n : Verdict(m, n)' = Verdict(m, n)
    BY <1>2 DEF Verdict
  <2> QED
    BY <1>2, <2>1 DEF ResultInv
<1>3. ASSUME NEW d \in Days, NEW m \in Models, NEW u \in Usages, Bill(d, m, u) PROVE ResultInv'
  BY <1>2, <1>3 DEF Bill, command
<1>4. ASSUME NEW m \in Models, NEW u \in Usages, Store(m, u) PROVE ResultInv'
  BY <1>2, <1>4 DEF Store, command
<1>5. ASSUME NEW p \in ProviderRegistry, Start(p) PROVE FALSE
  BY <1>5 DEF Start
<1>6. CASE FetchPage
  BY <1>6 DEF FetchPage
<1>7. CASE Fail
  BY <1>7 DEF Fail
<1>8. CASE UNCHANGED vars
  BY <1>2, <1>8 DEF vars
<1> QED
  BY <1>1, <1>3, <1>4, <1>5, <1>6, <1>7, <1>8 DEF Next

\* The two ways to state the tolerance agree, and one that is exceeded is
\* exceeded by what is less.
LEMMA ToleranceLemma ==
  ASSUME NEW l \in Nat, NEW a \in Nat, NEW b \in Nat, a <= b
  PROVE  /\ Exceeds(l, a) <=> IsFivePercentAbove(l, a)
         /\ IsFivePercentAbove(l, b) => IsFivePercentAbove(l, a)
BY DEF Exceeds, IsFivePercentAbove

LEMMA VerdictsFollow == TypeInv /\ FetchInv /\ ResultInv => VerdictsAreJustified
<1> SUFFICES ASSUME TypeInv, FetchInv, ResultInv, pc = "done" PROVE VerdictsAreJustified
  BY DEF VerdictsAreJustified
<1>1. TypeOK /\ TotalsInv /\ IsReport(billed) /\ TotalsOK /\ DOMAIN result.rows \subseteq Models
  BY TypeParts DEF TypeInv
<1>2. FetchIsBracketed
  BY BracketIsTheProperty
<1>3. ASSUME NEW m \in DOMAIN result.rows
      PROVE  /\ result.rows[m].verdict = VerdictLocalExceedsAPI =>
                  /\ Owner[m] = provider
                  /\ IsFivePercentAbove(result.rows[m].localTokens, billedAtStart[m])
             /\ (Owner[m] = provider /\ billedAtStart[m] > 0
                   /\ IsFivePercentAbove(result.rows[m].localTokens, Billed(m))) =>
                  result.rows[m].verdict = VerdictLocalExceedsAPI
             /\ (Owner[m] # provider \/ Billed(m) = 0) =>
                  result.rows[m].verdict = VerdictLocalOnly
  <2> DEFINE l == result.rows[m].localTokens
             v == result.rows[m].verdict
  <2>1. l \in Nat /\ v = Verdict(m, l) /\ m \in Models
    BY <1>1, <1>3 DEF ResultInv
  <2>2. /\ Fetched(m) \in Nat /\ billedAtStart[m] \in Nat /\ Billed(m) \in Nat
    BY <1>1, <2>1, FetchedIsNumber, BilledIsNumber
  <2>3. m \in DOMAIN totals => Owner[m] = provider /\ Fetched(m) = TotalTokens(totals[m]) /\ Fetched(m) > 0
    BY <1>1 DEF TotalsOK, TotalsInv, Fetched
  <2>4. m \notin DOMAIN totals => Fetched(m) = 0
    BY DEF Fetched
  <2>5. Owner[m] = provider => billedAtStart[m] <= Fetched(m) /\ Fetched(m) <= Billed(m)
    BY <1>2, <2>1 DEF FetchIsBracketed, Fetched
  <2> HIDE DEF l, v
  <2>6. CASE m \notin DOMAIN totals
    <3>1. v = VerdictLocalOnly /\ VerdictLocalOnly # VerdictLocalExceedsAPI
      BY <2>1, <2>6 DEF Verdict, VerdictLocalOnly, VerdictLocalExceedsAPI
    <3>2. ~ (Owner[m] = provider /\ billedAtStart[m] > 0)
      BY <2>2, <2>4, <2>5, <2>6
    <3> QED
      BY <3>1, <3>2 DEF v
  <2>7. CASE m \in DOMAIN totals
    <3>1. v = IF Exceeds(l, Fetched(m)) THEN VerdictLocalExceedsAPI ELSE VerdictOk
      BY <2>1, <2>3, <2>7 DEF Verdict
    <3>2. VerdictOk # VerdictLocalExceedsAPI
      BY DEF VerdictOk, VerdictLocalExceedsAPI
    <3>3. Owner[m] = provider /\ Billed(m) # 0
      BY <2>2, <2>3, <2>5, <2>7
    <3>4. Exceeds(l, Fetched(m)) => IsFivePercentAbove(l, billedAtStart[m])
      <4>1. billedAtStart[m] <= Fetched(m)
        BY <2>5, <3>3
      <4> DEFINE a == billedAtStart[m]
                 f == Fetched(m)
      <4>2. a \in Nat /\ f \in Nat /\ a <= f /\ l \in Nat
        BY <2>1, <2>2, <4>1
      <4> HIDE DEF a, f
      <4>3. Exceeds(l, f) => IsFivePercentAbove(l, a)
        BY <4>2, ToleranceLemma
      <4> QED
        BY <4>3 DEF a, f
    <3>5. IsFivePercentAbove(l, Billed(m)) => Exceeds(l, Fetched(m))
      <4> DEFINE b == Billed(m)
                 f == Fetched(m)
      <4>1. b \in Nat /\ f \in Nat /\ f <= b /\ l \in Nat
        BY <2>1, <2>2, <2>5, <3>3
      <4> HIDE DEF b, f
      <4>2. IsFivePercentAbove(l, b) => Exceeds(l, f)
        BY <4>1, ToleranceLemma
      <4> QED
        BY <4>2 DEF b, f
    <3> QED
      BY <3>1, <3>2, <3>3, <3>4, <3>5 DEF v, l
  <2> QED
    BY <2>6, <2>7
<1>4. result.breach <=> \E m \in DOMAIN result.rows :
                           result.rows[m].verdict = VerdictLocalExceedsAPI
  BY DEF ResultInv
<1> QED
  BY <1>3, <1>4 DEF VerdictsAreJustified

(***************************************************************************)
(* The comparison of totals that grew over several requests with rows that *)
(* were loaded later errs on neither side, whatever is billed and stored   *)
(* before, between and after them (Compare).                               *)
(***************************************************************************)
THEOREM VerdictsAreJustifiedHolds == Spec => []VerdictsAreJustified
<1>1. Init => FetchInv /\ ResultInv
  BY DEF Init, FetchInv, InReport, ResultInv
<1> QED
  BY <1>1, TypeInit, TypeNext, FetchNext, ResultNext, VerdictsFollow, PTL DEF Spec
=============================================================================

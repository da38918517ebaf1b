------------------------ MODULE AgentAdaptersProofs ------------------------
(***************************************************************************)
(* What the adapters make of the logs, for any number of files, sessions   *)
(* and tokens, of every agent but gemini (of which the run adapter_gemini  *)
(* shows that it is not true).                                             *)
(*                                                                         *)
(* First, of each adapter, the SET of events that its nested folds give    *)
(* out: ByEntryIdLemma, ByCounterLemma, BySessionLemma.  Then how that set *)
(* grows when the agent writes: RowsGrow, DeltasGrow, LogIsResumed.  A     *)
(* codex session goes from file to file: TotalsUpto carries its totals.    *)
(* The invariant IInv relates the events to the table (RowInv) and, by the *)
(* lemmas on sums of FoldLemmas, to what was spent (SpentInv, SessionInv). *)
(* BoundInv is what the bounds of the model add for the type invariant.    *)
(***************************************************************************)
EXTENDS AgentAdapters, FiniteSetTheorems, FoldLemmas, TLAPS

Id == (File \cup Session) \X Nat
Entry == [id : Id, session : Session, in : Nat, out : Nat]
Row == [key : Id, turn : Id, in : Nat, out : Nat]

UniqueKeys(rows) == \A r, q \in rows : r.key = q.key => r = q

-----------------------------------------------------------------------------
(* What a run stores. *)

\* The events are stored one after the other.
LEMMA InsertFold ==
  ASSUME NEW es, NEW n \in Nat, es \in [1..n -> Row], NEW rows0 \in SUBSET Row
  PROVE  \E g \in [0..n -> SUBSET Row] :
           /\ g[0] = rows0
           /\ \A k \in 0..(n - 1) : g[k + 1] = InsertOrIgnore(g[k], es[k + 1])
           /\ FoldLeft(InsertOrIgnore, rows0, es) = g[n]
<1> DEFINE S == SUBSET Row
           step == [k \in 1..n |-> [s \in S |-> InsertOrIgnore(s, es[k])]]
           F(f) == [s \in SUBSET (1..n) |->
                      IF s = {} THEN rows0
                      ELSE InsertOrIgnore(f[s \ {Max(s)}], es[Max(s)])]
           it == CHOOSE f : f = F(f)
<1>1. FoldLeft(InsertOrIgnore, rows0, es) = it[1..n]
  BY DOMAIN es = 1..n DEF InsertOrIgnore, FoldLeft, MapThenFoldSet
<1>2. rows0 \in S /\ \A s \in S, e \in Row : InsertOrIgnore(s, e) \in S
  BY DEF InsertOrIgnore
<1>3. \A k \in 1..n, s \in S : step[k][s] = InsertOrIgnore(s, es[k])
  OBVIOUS
<1>4. IsStep(step, n, S)
  BY <1>2 DEF IsStep
<1> HIDE DEF S, step
<1>5. PICK f \in [SUBSET (1..n) -> S] : Folds(f, n, rows0, step)
  BY <1>2, <1>4, FoldLemma
<1>6. f = F(f)
  <2>1. \A s \in SUBSET (1..n) : s # {} =>
          Max(s) \in 1..n /\ s \ {Max(s)} \in SUBSET (1..n)
    BY MaxInInterval
  <2> QED
    BY <1>3, <1>5, <2>1 DEF Folds
<1>7. it = F(it)
  <2> HIDE DEF F
  <2> QED
    BY <1>6
<1>8. it[{}] = rows0
  <2>1. {} \in SUBSET (1..n)
    OBVIOUS
  <2> HIDE DEF it
  <2> QED
    BY <1>7, <2>1
<1>9. ASSUME NEW s \in SUBSET (1..n), s # {}, it[s \ {Max(s)}] \in S
      PROVE  it[s] = step[Max(s)][it[s \ {Max(s)}]]
  <2>1. Max(s) \in 1..n
    BY <1>9, MaxInInterval
  <2> HIDE DEF it
  <2>2. it[s] = InsertOrIgnore(it[s \ {Max(s)}], es[Max(s)])
    BY <1>7, <1>9
  <2> QED
    BY <1>3, <1>9, <2>1, <2>2
<1> HIDE DEF it, F
<1>10. PICK g \in [0..n -> S] : TakesSteps(g, n, rows0, step) /\ it[1..n] = g[n]
  <2> DEFINE base == rows0
  <2>1. base \in S
    BY <1>2
  <2>2. LargestLast(it, n, base, step, S)
    BY <1>8, <1>9 DEF LargestLast
  <2> HIDE DEF base
  <2>3. \E g \in [0..n -> S] : TakesSteps(g, n, base, step) /\ it[1..n] = g[n]
    BY <2>1, <2>2, <1>4, FoldTakesSteps
  <2> QED
    BY <2>3 DEF base
<1>11. ASSUME NEW k \in 0..(n - 1) PROVE g[k + 1] = InsertOrIgnore(g[k], es[k + 1])
  <2>1. k + 1 \in 1..n /\ g[k] \in S
    OBVIOUS
  <2> QED
    BY <1>3, <1>10, <2>1 DEF TakesSteps
<1> QED
  BY <1>1, <1>10, <1>11 DEF TakesSteps, S

\* After a run there is a row for each key of its events, and no row but its
\* events and those there were.
LEMMA StoreLemma ==
  ASSUME NEW es \in Seq(Row), NEW rows \in SUBSET Row
  PROVE  LET after == FoldLeft(InsertOrIgnore, rows, es)
         IN  /\ after \in SUBSET Row
             /\ rows \subseteq after /\ after \subseteq rows \cup ToSet(es)
             /\ \A e \in ToSet(es) : \E r \in after : r.key = e.key
             /\ UniqueKeys(rows) => UniqueKeys(after)
<1> DEFINE n == Len(es)
<1>1. n \in Nat /\ es \in [1..n -> Row] /\ ToSet(es) = {es[i] : i \in 1..n}
  BY SetOfSeq
<1> HIDE DEF n
<1>2. PICK g \in [0..n -> SUBSET Row] :
           /\ g[0] = rows
           /\ \A k \in 0..(n - 1) : g[k + 1] = InsertOrIgnore(g[k], es[k + 1])
           /\ FoldLeft(InsertOrIgnore, rows, es) = g[n]
  BY <1>1, InsertFold, ZenonT(60)
<1> DEFINE P(k) == /\ rows \subseteq g[k] /\ g[k] \subseteq rows \cup ToSet(es)
                   /\ \A i \in 1..k : \E r \in g[k] : r.key = es[i].key
                   /\ UniqueKeys(rows) => UniqueKeys(g[k])
           T == {k \in Nat : k <= n => P(k)}
<1>3. 0 \in T
  BY <1>1, <1>2
<1>4. ASSUME NEW k \in Nat, k \in T PROVE k + 1 \in T
  <2> SUFFICES ASSUME k + 1 <= n PROVE P(k + 1)
    OBVIOUS
  <2>1. /\ k \in 0..(n - 1) /\ k + 1 \in 1..n /\ k <= n
        /\ \A i \in 1..(k + 1) : i \in 1..k \/ i = k + 1
    BY <1>1
  <2>2. P(k)
    BY <1>4, <2>1
  <2>3. g[k + 1] = InsertOrIgnore(g[k], es[k + 1]) /\ es[k + 1] \in ToSet(es)
    BY <1>1, <1>2, <2>1
  <2> DEFINE e == es[k + 1]
             old == g[k]
             new == g[k + 1]
  <2>4. new = IF \E r \in old : r.key = e.key THEN old ELSE old \cup {e}
    BY <2>3 DEF InsertOrIgnore
  <2>5. rows \subseteq new /\ new \subseteq rows \cup ToSet(es)
    BY <2>2, <2>3, <2>4
  <2>6. \E r \in new : r.key = e.key
    BY <2>4
  <2>7. UniqueKeys(rows) => UniqueKeys(new)
    BY <2>2, <2>4 DEF UniqueKeys
  <2>8. \A i \in 1..(k + 1) : \E r \in new : r.key = es[i].key
    <3> TAKE i \in 1..(k + 1)
    <3>1. CASE i = k + 1
      BY <2>6, <3>1
    <3>2. CASE i \in 1..k
      BY <2>2, <2>4, <3>2
    <3> QED
      BY <2>1, <3>1, <3>2
  <2> QED
    BY <2>5, <2>7, <2>8
<1> HIDE DEF T
<1>5. Nat \subseteq T
  BY <1>3, <1>4, Induction
<1>6. P(n)
  BY <1>1, <1>5 DEF T
<1>7. g[n] \in SUBSET Row
  BY <1>1, <1>2
<1> QED
  BY <1>1, <1>2, <1>6, <1>7

-----------------------------------------------------------------------------
(* The adapters that keep the ids of the entries. *)

Files == [File -> Seq(Entry)]

RowOf(e) == Event(e.id, e.id, e.in, e.out)

LEMMA RowsOfEntries == \A e \in Entry : RowOf(e) \in Row /\ RowOf(e).key = e.id
BY DEF Entry, Row, RowOf, Event

\* Among rows with unique keys an entry that is new adds its row, and no entry
\* does away with one.
LEMMA EntryByIdLemma ==
  ASSUME NEW events \in Seq(Row), NEW e \in Entry
  PROVE  /\ EntryById(events, e) \in Seq(Row)
         /\ \A all \in SUBSET Row :
              UniqueKeys(all) /\ ToSet(events) \subseteq all
                /\ (SpendsTokens(e) => RowOf(e) \in all) =>
                ToSet(EntryById(events, e)) =
                  ToSet(events) \cup (IF SpendsTokens(e) THEN {RowOf(e)} ELSE {})
<1> DEFINE after == EntryById(events, e)
           row == RowOf(e)
<1>1. row \in Row
  BY RowsOfEntries
<1>2. after = IF SpendsTokens(e) /\ ~ HasKey(events, row.key)
              THEN Append(events, row) ELSE events
  BY DEF EntryById, AppendUnseen, RowOf
<1>3. Append(events, row) \in Seq(Row) /\ ToSet(Append(events, row)) = ToSet(events) \cup {row}
  BY <1>1, AppendedElement
<1>4. HasKey(events, row.key) => \E r \in ToSet(events) : r.key = row.key
  BY SetOfSeq DEF HasKey
<1>5. ASSUME NEW all \in SUBSET Row, UniqueKeys(all), ToSet(events) \subseteq all,
             SpendsTokens(e) => row \in all
      PROVE  ToSet(after) = ToSet(events) \cup (IF SpendsTokens(e) THEN {row} ELSE {})
  <2>1. SpendsTokens(e) /\ HasKey(events, row.key) => row \in ToSet(events)
    BY <1>4, <1>5 DEF UniqueKeys
  <2> HIDE DEF after, row
  <2> QED
    BY <1>2, <1>3, <2>1
<1> HIDE DEF after, row
<1>6. after \in Seq(Row)
  BY <1>2, <1>3
<1> QED
  BY <1>5, <1>6 DEF after, row

\* The entries of a file are taken one after the other.
LEMMA EntriesFold ==
  ASSUME NEW es, NEW n \in Nat, es \in [1..n -> Entry], NEW seen \in Seq(Row)
  PROVE  \E g \in [0..n -> Seq(Row)] :
           /\ g[0] = seen
           /\ \A k \in 0..(n - 1) : g[k + 1] = EntryById(g[k], es[k + 1])
           /\ FileById(seen, es) = g[n]
<1> DEFINE S == Seq(Row)
           step == [k \in 1..n |-> [s \in S |-> EntryById(s, es[k])]]
           F(f) == [s \in SUBSET (1..n) |->
                      IF s = {} THEN seen
                      ELSE EntryById(f[s \ {Max(s)}], es[Max(s)])]
           it == CHOOSE f : f = F(f)
<1>1. FileById(seen, es) = it[1..n]
  BY DOMAIN es = 1..n DEF FileById, FoldLeft, MapThenFoldSet
<1>2. seen \in S /\ \A s \in S, e \in Entry : EntryById(s, e) \in S
  BY EntryByIdLemma
<1>3. \A k \in 1..n, s \in S : step[k][s] = EntryById(s, es[k])
  OBVIOUS
<1>4. IsStep(step, n, S)
  BY <1>2 DEF IsStep
<1> HIDE DEF S, step
<1>5. PICK f \in [SUBSET (1..n) -> S] : Folds(f, n, seen, step)
  BY <1>2, <1>4, FoldLemma
<1>6. f = F(f)
  <2>1. \A s \in SUBSET (1..n) : s # {} =>
          Max(s) \in 1..n /\ s \ {Max(s)} \in SUBSET (1..n)
    BY MaxInInterval
  <2> QED
    BY <1>3, <1>5, <2>1 DEF Folds
<1>7. it = F(it)
  <2> HIDE DEF F
  <2> QED
    BY <1>6
<1>8. it[{}] = seen
  <2>1. {} \in SUBSET (1..n)
    OBVIOUS
  <2> HIDE DEF it
  <2> QED
    BY <1>7, <2>1
<1>9. ASSUME NEW s \in SUBSET (1..n), s # {}, it[s \ {Max(s)}] \in S
      PROVE  it[s] = step[Max(s)][it[s \ {Max(s)}]]
  <2>1. Max(s) \in 1..n
    BY <1>9, MaxInInterval
  <2> HIDE DEF it
  <2>2. it[s] = EntryById(it[s \ {Max(s)}], es[Max(s)])
    BY <1>7, <1>9
  <2> QED
    BY <1>3, <1>9, <2>1, <2>2
<1> HIDE DEF it, F
<1>10. PICK g \in [0..n -> S] : TakesSteps(g, n, seen, step) /\ it[1..n] = g[n]
  <2> DEFINE base == seen
  <2>1. base \in S
    BY <1>2
  <2>2. LargestLast(it, n, base, step, S)
    BY <1>8, <1>9 DEF LargestLast
  <2> HIDE DEF base
  <2>3. \E g \in [0..n -> S] : TakesSteps(g, n, base, step) /\ it[1..n] = g[n]
    BY <2>1, <2>2, <1>4, FoldTakesSteps
  <2> QED
    BY <2>3 DEF base
<1>11. ASSUME NEW k \in 0..(n - 1) PROVE g[k + 1] = EntryById(g[k], es[k + 1])
  <2>1. k + 1 \in 1..n /\ g[k] \in S
    OBVIOUS
  <2> QED
    BY <1>3, <1>10, <2>1 DEF TakesSteps
<1> QED
  BY <1>1, <1>10, <1>11 DEF TakesSteps, S

\* The rows of the entries of a file that spend tokens.
RowsOfFile(es) == {RowOf(es[i]) : i \in {i \in DOMAIN es : SpendsTokens(es[i])}}

LEMMA FileByIdLemma ==
  ASSUME NEW seen \in Seq(Row), NEW es \in Seq(Entry)
  PROVE  /\ FileById(seen, es) \in Seq(Row)
         /\ \A all \in SUBSET Row :
              UniqueKeys(all) /\ ToSet(seen) \subseteq all /\ RowsOfFile(es) \subseteq all =>
                ToSet(FileById(seen, es)) = ToSet(seen) \cup RowsOfFile(es)
<1> DEFINE n == Len(es)
           Upto(k) == {RowOf(es[i]) : i \in {i \in 1..k : SpendsTokens(es[i])}}
<1>1. n \in Nat /\ es \in [1..n -> Entry] /\ DOMAIN es = 1..n
  OBVIOUS
<1> HIDE DEF n
<1>2. PICK g \in [0..n -> Seq(Row)] :
           /\ g[0] = seen
           /\ \A k \in 0..(n - 1) : g[k + 1] = EntryById(g[k], es[k + 1])
           /\ FileById(seen, es) = g[n]
  BY <1>1, EntriesFold, ZenonT(60)
<1>3. RowsOfFile(es) = Upto(n)
  BY <1>1 DEF RowsOfFile
<1>4. g[n] \in Seq(Row)
  BY <1>1, <1>2
<1>5. ASSUME NEW all \in SUBSET Row, UniqueKeys(all),
             ToSet(seen) \subseteq all, Upto(n) \subseteq all
      PROVE  ToSet(g[n]) = ToSet(seen) \cup Upto(n)
  <2> DEFINE P(k) == ToSet(g[k]) = ToSet(seen) \cup Upto(k)
             T == {k \in Nat : k <= n => P(k)}
  <2>1. 0 \in T
    <3>1. Upto(0) = {}
      OBVIOUS
    <3> QED
      BY <1>2, <3>1
  <2>2. ASSUME NEW k \in Nat, k \in T PROVE k + 1 \in T
    <3> SUFFICES ASSUME k + 1 <= n PROVE P(k + 1)
      OBVIOUS
    <3>1. /\ k \in 0..(n - 1) /\ k \in 0..n /\ k + 1 \in 1..n /\ k <= n
          /\ \A i \in 1..k : i \in 1..n
          /\ \A i \in 1..(k + 1) : i \in 1..k \/ i = k + 1
          /\ \A i \in 1..k : i \in 1..(k + 1)
          /\ k + 1 \in 1..(k + 1)
      BY <1>1
    <3> DEFINE e == es[k + 1]
               more == IF SpendsTokens(e) THEN {RowOf(e)} ELSE {}
    <3>2. P(k)
      BY <2>2, <3>1
    <3>3. e \in Entry /\ g[k] \in Seq(Row) /\ g[k + 1] = EntryById(g[k], e)
      BY <1>1, <1>2, <3>1
    <3>4. Upto(k) \subseteq Upto(n) /\ more \subseteq Upto(n)
      BY <3>1
    <3>5. Upto(k + 1) = Upto(k) \cup more
      <4>1. Upto(k) \subseteq Upto(k + 1) /\ more \subseteq Upto(k + 1)
        BY <3>1
      <4>2. Upto(k + 1) \subseteq Upto(k) \cup more
        BY <3>1
      <4> QED
        BY <4>1, <4>2
    <3> HIDE DEF Upto, e
    <3>6. ToSet(g[k]) \subseteq all /\ (SpendsTokens(e) => RowOf(e) \in all)
      BY <1>5, <3>2, <3>4
    <3>7. ToSet(EntryById(g[k], e)) = ToSet(g[k]) \cup more
      BY <1>5, <3>3, <3>6, EntryByIdLemma
    <3> QED
      BY <3>2, <3>3, <3>5, <3>7
  <2> HIDE DEF T
  <2>3. n \in T
    BY <1>1, <2>1, <2>2, Induction
  <2>4. P(n)
    BY <1>1, <2>3 DEF T
  <2> QED
    BY <2>4
<1> HIDE DEF Upto
<1> QED
  BY <1>2, <1>3, <1>4, <1>5

\* The files are taken one after the other.
LEMMA FilesFold ==
  ASSUME NEW es, NEW n \in Nat, es \in [1..n -> Seq(Entry)]
  PROVE  \E g \in [0..n -> Seq(Row)] :
           /\ g[0] = <<>>
           /\ \A k \in 0..(n - 1) : g[k + 1] = FileById(g[k], es[k + 1])
           /\ ByEntryId(es) = g[n]
<1> DEFINE S == Seq(Row)
           step == [k \in 1..n |-> [s \in S |-> FileById(s, es[k])]]
           F(f) == [s \in SUBSET (1..n) |->
                      IF s = {} THEN <<>>
                      ELSE FileById(f[s \ {Max(s)}], es[Max(s)])]
           it == CHOOSE f : f = F(f)
<1>1. ByEntryId(es) = it[1..n]
  BY DOMAIN es = 1..n DEF ByEntryId, FoldLeft, MapThenFoldSet
<1>2. <<>> \in S /\ \A s \in S, e \in Seq(Entry) : FileById(s, e) \in S
  BY FileByIdLemma
<1>3. \A k \in 1..n, s \in S : step[k][s] = FileById(s, es[k])
  OBVIOUS
<1>4. IsStep(step, n, S)
  BY <1>2 DEF IsStep
<1> HIDE DEF S, step
<1>5. PICK f \in [SUBSET (1..n) -> S] : Folds(f, n, <<>>, step)
  BY <1>2, <1>4, FoldLemma
<1>6. f = F(f)
  <2>1. \A s \in SUBSET (1..n) : s # {} =>
          Max(s) \in 1..n /\ s \ {Max(s)} \in SUBSET (1..n)
    BY MaxInInterval
  <2> QED
    BY <1>3, <1>5, <2>1 DEF Folds
<1>7. it = F(it)
  <2> HIDE DEF F
  <2> QED
    BY <1>6
<1>8. it[{}] = <<>>
  <2>1. {} \in SUBSET (1..n)
    OBVIOUS
  <2> HIDE DEF it
  <2> QED
    BY <1>7, <2>1
<1>9. ASSUME NEW s \in SUBSET (1..n), s # {}, it[s \ {Max(s)}] \in S
      PROVE  it[s] = step[Max(s)][it[s \ {Max(s)}]]
  <2>1. Max(s) \in 1..n
    BY <1>9, MaxInInterval
  <2> HIDE DEF it
  <2>2. it[s] = FileById(it[s \ {Max(s)}], es[Max(s)])
    BY <1>7, <1>9
  <2> QED
    BY <1>3, <1>9, <2>1, <2>2
<1> HIDE DEF it, F
<1>10. PICK g \in [0..n -> S] : TakesSteps(g, n, <<>>, step) /\ it[1..n] = g[n]
  <2> DEFINE base == <<>>
  <2>1. base \in S
    BY <1>2
  <2>2. LargestLast(it, n, base, step, S)
    BY <1>8, <1>9 DEF LargestLast
  <2> HIDE DEF base
  <2>3. \E g \in [0..n -> S] : TakesSteps(g, n, base, step) /\ it[1..n] = g[n]
    BY <2>1, <2>2, <1>4, FoldTakesSteps
  <2> QED
    BY <2>3 DEF base
<1>11. ASSUME NEW k \in 0..(n - 1) PROVE g[k + 1] = FileById(g[k], es[k + 1])
  <2>1. k + 1 \in 1..n /\ g[k] \in S
    OBVIOUS
  <2> QED
    BY <1>3, <1>10, <2>1 DEF TakesSteps
<1> QED
  BY <1>1, <1>10, <1>11 DEF TakesSteps, S

\* The rows of the entries of all the files.
RowsById(fs) == UNION {RowsOfFile(fs[f]) : f \in File}

LEMMA EntriesAreRows ==
  ASSUME NEW es \in Seq(Entry)
  PROVE  RowsOfFile(es) \subseteq Row
BY RowsOfEntries DEF RowsOfFile

\* If entries with the same id are the same, ByEntryId emits the rows of all
\* entries.
LEMMA ByEntryIdLemma ==
  ASSUME BoundAssumption, NEW fs \in Files, UniqueKeys(RowsById(fs))
  PROVE  ByEntryId(fs) \in Seq(Row) /\ ToSet(ByEntryId(fs)) = RowsById(fs)
<1> DEFINE n == NFiles
           all == RowsById(fs)
           Upto(k) == UNION {RowsOfFile(fs[f]) : f \in 1..k}
<1>1. n \in Nat /\ fs \in [1..n -> Seq(Entry)]
  BY DEF BoundAssumption, Files, File
<1>2. all = Upto(n)
  BY DEF RowsById, File
<1>3. all \in SUBSET Row
  BY <1>1, <1>2, EntriesAreRows
<1> HIDE DEF n
<1>4. PICK g \in [0..n -> Seq(Row)] :
           /\ g[0] = <<>>
           /\ \A k \in 0..(n - 1) : g[k + 1] = FileById(g[k], fs[k + 1])
           /\ ByEntryId(fs) = g[n]
  BY <1>1, FilesFold
<1> DEFINE P(k) == ToSet(g[k]) = Upto(k)
           T == {k \in Nat : k <= n => P(k)}
<1>5. 0 \in T
  <2>1. Upto(0) = {}
    OBVIOUS
  <2>2. ToSet(<<>>) = {}
    BY DEF ToSet
  <2> QED
    BY <1>4, <2>1, <2>2
<1>6. ASSUME NEW k \in Nat, k \in T PROVE k + 1 \in T
  <2> SUFFICES ASSUME k + 1 <= n PROVE P(k + 1)
    OBVIOUS
  <2>1. /\ k \in 0..(n - 1) /\ k \in 0..n /\ k + 1 \in 1..n /\ k <= n
        /\ \A i \in 1..k : i \in 1..n
        /\ \A i \in 1..(k + 1) : i \in 1..k \/ i = k + 1
        /\ \A i \in 1..k : i \in 1..(k + 1)
        /\ k + 1 \in 1..(k + 1)
    BY <1>1
  <2> DEFINE es == fs[k + 1]
             more == RowsOfFile(es)
  <2>2. P(k)
    BY <1>6, <2>1
  <2>3. es \in Seq(Entry) /\ g[k] \in Seq(Row) /\ g[k + 1] = FileById(g[k], es)
    BY <1>1, <1>4, <2>1
  <2>4. Upto(k) \subseteq Upto(n) /\ more \subseteq Upto(n)
    BY <2>1
  <2>5. Upto(k + 1) = Upto(k) \cup more
    <3>1. Upto(k) \subseteq Upto(k + 1) /\ more \subseteq Upto(k + 1)
      BY <2>1
    <3>2. Upto(k + 1) \subseteq Upto(k) \cup more
      BY <2>1
    <3> QED
      BY <3>1, <3>2
  <2> HIDE DEF Upto, es, all
  <2>6. UniqueKeys(all) /\ ToSet(g[k]) \subseteq all /\ RowsOfFile(es) \subseteq all
    BY <1>2, <2>2, <2>4 DEF all
  <2>7. ToSet(FileById(g[k], es)) = ToSet(g[k]) \cup more
    BY <1>3, <2>3, <2>6, FileByIdLemma
  <2> QED
    BY <2>2, <2>3, <2>5, <2>7
<1> HIDE DEF T, all, Upto
<1>7. Nat \subseteq T
  BY <1>5, <1>6, Induction
<1> QED
  BY <1>1, <1>2, <1>4, <1>7 DEF T, all

-----------------------------------------------------------------------------
(* The adapter that turns running totals into differences. *)

Counts == [in : Nat, out : Nat]
Progress == [last : [Session -> Counts], events : Seq(Row)]

\* The lines of a session among the first k of a file, and its running totals
\* after them: those of the last one, or those `base` has from earlier files.
LinesOf(lines, k, s) == {j \in 1..k : lines[j].session = s}
CountsOf(line) == [in |-> line.in, out |-> line.out]
TotalsAfter(base, lines, k, s) ==
  IF LinesOf(lines, k, s) = {} THEN base[s] ELSE CountsOf(lines[Max(LinesOf(lines, k, s))])
LastTotals(base, lines) == [s \in Session |-> TotalsAfter(base, lines, Len(lines), s)]

\* What the line adds to the totals before it.
DeltaFrom(line, last) ==
  Event(line.id, line.id, CounterDelta(line.in, last.in), CounterDelta(line.out, last.out))
Delta(base, lines, i) ==
  DeltaFrom(lines[i], TotalsAfter(base, lines, i - 1, lines[i].session))

DeltasOfFile(base, lines) ==
  {Delta(base, lines, i) : i \in {i \in DOMAIN lines : SpendsTokens(Delta(base, lines, i))}}

LEMMA CountsAreTyped ==
  /\ Zero \in Counts
  /\ \A line \in Entry : CountsOf(line) \in Counts
  /\ \A c \in Counts : c.in \in Nat /\ c.out \in Nat
BY DEF Zero, Counts, CountsOf, Entry

LEMMA DeltaTyped ==
  ASSUME NEW line \in Entry, NEW last \in Counts
  PROVE  DeltaFrom(line, last) \in Row /\ DeltaFrom(line, last).key = line.id
<1>1. line.in \in Nat /\ line.out \in Nat /\ line.id \in Id
  BY DEF Entry
<1>2. last.in \in Nat /\ last.out \in Nat
  BY CountsAreTyped
<1>3. CounterDelta(line.in, last.in) \in Nat /\ CounterDelta(line.out, last.out) \in Nat
  BY <1>1, <1>2 DEF CounterDelta
<1> QED
  BY <1>1, <1>3 DEF DeltaFrom, Event, Row

\* A line moves the totals of its session and adds its difference, if any.
LEMMA CodexLineLemma ==
  ASSUME NEW acc \in Progress, NEW line \in Entry
  PROVE  /\ CodexLine(acc, line) \in Progress
         /\ \A s \in Session : CodexLine(acc, line).last[s] =
              IF s = line.session THEN CountsOf(line) ELSE acc.last[s]
         /\ ToSet(CodexLine(acc, line).events) = ToSet(acc.events) \cup
              LET e == DeltaFrom(line, acc.last[line.session])
              IN  IF SpendsTokens(e) THEN {e} ELSE {}
<1> DEFINE last == acc.last
           s == line.session
           e == DeltaFrom(line, last[s])
           new == [last EXCEPT ![s] = CountsOf(line)]
           events == IF SpendsTokens(e) THEN Append(acc.events, e) ELSE acc.events
           after == CodexLine(acc, line)
<1>1. s \in Session /\ last \in [Session -> Counts] /\ acc.events \in Seq(Row) /\ last[s] \in Counts
  BY DEF Progress, Entry
<1>2. e \in Row
  BY <1>1, DeltaTyped
<1>3. after = [last |-> new, events |-> events]
  BY DEF CodexLine, DeltaFrom, Event, SpendsTokens, CountsOf
<1>4. after.last = new /\ after.events = events
  BY <1>3
<1>5. /\ new \in [Session -> Counts]
      /\ \A t \in Session : new[t] = IF t = s THEN CountsOf(line) ELSE last[t]
  BY <1>1, CountsAreTyped
<1> HIDE DEF e, new, s, after
<1>6. events \in Seq(Row)
  BY <1>1, <1>2
<1>7. ToSet(events) = ToSet(acc.events) \cup IF SpendsTokens(e) THEN {e} ELSE {}
  BY <1>1, <1>2, AppendedElement
<1> HIDE DEF events
<1>8. after \in Progress
  BY <1>3, <1>5, <1>6 DEF Progress
<1> QED
  BY <1>4, <1>5, <1>7, <1>8 DEF after, e, s

\* The lines of a file are taken one after the other.
LEMMA LinesFold ==
  ASSUME NEW es, NEW n \in Nat, es \in [1..n -> Entry], NEW acc0 \in Progress
  PROVE  \E g \in [0..n -> Progress] :
           /\ g[0] = acc0
           /\ \A k \in 0..(n - 1) : g[k + 1] = CodexLine(g[k], es[k + 1])
           /\ CodexFile(acc0, es) = g[n]
<1> DEFINE S == Progress
           step == [k \in 1..n |-> [s \in S |-> CodexLine(s, es[k])]]
           F(f) == [s \in SUBSET (1..n) |->
                      IF s = {} THEN acc0
                      ELSE CodexLine(f[s \ {Max(s)}], es[Max(s)])]
           it == CHOOSE f : f = F(f)
<1>1. CodexFile(acc0, es) = it[1..n]
  BY DOMAIN es = 1..n DEF CodexFile, FoldLeft, MapThenFoldSet
<1>2. acc0 \in S /\ \A s \in S, e \in Entry : CodexLine(s, e) \in S
  BY CodexLineLemma
<1>3. \A k \in 1..n, s \in S : step[k][s] = CodexLine(s, es[k])
  OBVIOUS
<1>4. IsStep(step, n, S)
  BY <1>2 DEF IsStep
<1> HIDE DEF S, step
<1>5. PICK f \in [SUBSET (1..n) -> S] : Folds(f, n, acc0, step)
  BY <1>2, <1>4, FoldLemma
<1>6. f = F(f)
  <2>1. \A s \in SUBSET (1..n) : s # {} =>
          Max(s) \in 1..n /\ s \ {Max(s)} \in SUBSET (1..n)
    BY MaxInInterval
  <2> QED
    BY <1>3, <1>5, <2>1 DEF Folds
<1>7. it = F(it)
  <2> HIDE DEF F
  <2> QED
    BY <1>6
<1>8. it[{}] = acc0
  <2>1. {} \in SUBSET (1..n)
    OBVIOUS
  <2> HIDE DEF it
  <2> QED
    BY <1>7, <2>1
<1>9. ASSUME NEW s \in SUBSET (1..n), s # {}, it[s \ {Max(s)}] \in S
      PROVE  it[s] = step[Max(s)][it[s \ {Max(s)}]]
  <2>1. Max(s) \in 1..n
    BY <1>9, MaxInInterval
  <2> HIDE DEF it
  <2>2. it[s] = CodexLine(it[s \ {Max(s)}], es[Max(s)])
    BY <1>7, <1>9
  <2> QED
    BY <1>3, <1>9, <2>1, <2>2
<1> HIDE DEF it, F
<1>10. PICK g \in [0..n -> S] : TakesSteps(g, n, acc0, step) /\ it[1..n] = g[n]
  <2> DEFINE base == acc0
  <2>1. base \in S
    BY <1>2
  <2>2. LargestLast(it, n, base, step, S)
    BY <1>8, <1>9 DEF LargestLast
  <2> HIDE DEF base
  <2>3. \E g \in [0..n -> S] : TakesSteps(g, n, base, step) /\ it[1..n] = g[n]
    BY <2>1, <2>2, <1>4, FoldTakesSteps
  <2> QED
    BY <2>3 DEF base
<1>11. ASSUME NEW k \in 0..(n - 1) PROVE g[k + 1] = CodexLine(g[k], es[k + 1])
  <2>1. k + 1 \in 1..n /\ g[k] \in S
    OBVIOUS
  <2> QED
    BY <1>3, <1>10, <2>1 DEF TakesSteps
<1> QED
  BY <1>1, <1>10, <1>11 DEF TakesSteps, S

LEMMA OneMoreLine ==
  ASSUME NEW lines, NEW k \in Nat, NEW s
  PROVE  /\ s = lines[k + 1].session =>
              LinesOf(lines, k + 1, s) # {} /\ Max(LinesOf(lines, k + 1, s)) = k + 1
         /\ s # lines[k + 1].session => LinesOf(lines, k + 1, s) = LinesOf(lines, k, s)
<1> DEFINE js == LinesOf(lines, k + 1, s)
<1>1. /\ k + 1 \in 1..(k + 1) /\ \A j \in 1..(k + 1) : j \in Int /\ j <= k + 1
      /\ \A j \in 1..k : j \in 1..(k + 1)
      /\ \A j \in 1..(k + 1) : j \in 1..k \/ j = k + 1
      /\ k + 1 \notin 1..k
  OBVIOUS
<1>2. ASSUME s = lines[k + 1].session PROVE js # {} /\ Max(js) = k + 1
  <2>1. k + 1 \in js
    BY <1>1, <1>2 DEF LinesOf
  <2>2. js \in SUBSET Int /\ \A j \in js : j <= k + 1
    BY <1>1 DEF LinesOf
  <2> HIDE DEF js
  <2> QED
    BY <2>1, <2>2, MaxIs
<1>3. ASSUME s # lines[k + 1].session PROVE js = LinesOf(lines, k, s)
  BY <1>1, <1>3 DEF LinesOf
<1> QED
  BY <1>2, <1>3

LEMMA SessionsInTyped ==
  ASSUME NEW es \in Seq(Entry)
  PROVE  SessionsIn(es) \subseteq Session
<1>1. \A i \in DOMAIN es : es[i] \in Entry
  OBVIOUS
<1> QED
  BY <1>1 DEF SessionsIn, Entry

\* A file adds its differences and moves the totals of its sessions.
LEMMA CodexFileLemma ==
  ASSUME NEW acc \in Progress, NEW es \in Seq(Entry)
  PROVE  /\ CodexFile(acc, es) \in Progress
         /\ ToSet(CodexFile(acc, es).events) = ToSet(acc.events) \cup DeltasOfFile(acc.last, es)
         /\ CodexFile(acc, es).last = LastTotals(acc.last, es)
<1> DEFINE n == Len(es)
           base == acc.last
           Upto(k) == {Delta(base, es, i) : i \in {i \in 1..k : SpendsTokens(Delta(base, es, i))}}
<1>1. n \in Nat /\ es \in [1..n -> Entry] /\ DOMAIN es = 1..n
  OBVIOUS
<1> HIDE DEF n
<1>2. PICK g \in [0..n -> Progress] :
           /\ g[0] = acc
           /\ \A k \in 0..(n - 1) : g[k + 1] = CodexLine(g[k], es[k + 1])
           /\ CodexFile(acc, es) = g[n]
  BY <1>1, LinesFold, ZenonT(60)
<1>3. DeltasOfFile(base, es) = Upto(n)
  BY <1>1 DEF DeltasOfFile
<1>4. g[n] \in Progress
  BY <1>1, <1>2
<1> DEFINE P(k) == /\ ToSet(g[k].events) = ToSet(acc.events) \cup Upto(k)
                   /\ \A s \in Session : g[k].last[s] = TotalsAfter(base, es, k, s)
           T == {k \in Nat : k <= n => P(k)}
<1>5. 0 \in T
  <2>1. Upto(0) = {} /\ \A s : LinesOf(es, 0, s) = {}
    BY DEF LinesOf
  <2>2. \A s : TotalsAfter(base, es, 0, s) = base[s]
    BY <2>1 DEF TotalsAfter
  <2> QED
    BY <1>2, <2>1, <2>2
<1>6. ASSUME NEW k \in Nat, k \in T PROVE k + 1 \in T
  <2> SUFFICES ASSUME k + 1 <= n PROVE P(k + 1)
    OBVIOUS
  <2>1. /\ k \in 0..(n - 1) /\ k \in 0..n /\ k + 1 \in 1..n /\ k <= n
        /\ \A i \in 1..(k + 1) : i \in 1..k \/ i = k + 1
        /\ \A i \in 1..k : i \in 1..(k + 1)
        /\ k + 1 \in 1..(k + 1)
        /\ k + 1 - 1 = k
    BY <1>1
  <2>2. P(k)
    BY <1>6, <2>1
  <2> DEFINE line == es[k + 1]
             old == g[k]
             e == DeltaFrom(line, old.last[line.session])
             more == IF SpendsTokens(e) THEN {e} ELSE {}
  <2>3. line \in Entry /\ old \in Progress /\ g[k + 1] = CodexLine(old, line)
    BY <1>1, <1>2, <2>1
  <2>4. line.session \in Session
    BY <2>3 DEF Entry
  <2>5. e = Delta(base, es, k + 1)
    BY <2>1, <2>2, <2>4 DEF Delta
  <2>6. Upto(k + 1) = Upto(k) \cup more
    <3>1. Upto(k) \subseteq Upto(k + 1) /\ more \subseteq Upto(k + 1)
      BY <2>1, <2>5
    <3>2. Upto(k + 1) \subseteq Upto(k) \cup more
      BY <2>1, <2>5
    <3> QED
      BY <3>1, <3>2
  <2>7. \A s \in Session : TotalsAfter(base, es, k + 1, s) =
          IF s = line.session THEN CountsOf(line) ELSE TotalsAfter(base, es, k, s)
    BY OneMoreLine DEF TotalsAfter
  <2>8. /\ ToSet(old.events) = ToSet(acc.events) \cup Upto(k)
        /\ \A s \in Session : old.last[s] = TotalsAfter(base, es, k, s)
    BY <2>2
  <2> HIDE DEF Upto, line, old
  <2>9. ToSet(CodexLine(old, line).events) = ToSet(old.events) \cup more
    BY <2>3, CodexLineLemma
  <2>10. \A s \in Session : CodexLine(old, line).last[s] =
           IF s = line.session THEN CountsOf(line) ELSE old.last[s]
    BY <2>3, CodexLineLemma
  <2> HIDE DEF more
  <2>11. ToSet(g[k + 1].events) = ToSet(acc.events) \cup Upto(k + 1)
    BY <2>3, <2>6, <2>8, <2>9
  <2>12. \A s \in Session : g[k + 1].last[s] = TotalsAfter(base, es, k + 1, s)
    BY <2>3, <2>7, <2>8, <2>10
  <2> QED
    BY <2>11, <2>12
<1> HIDE DEF T
<1>7. n \in T
  BY <1>1, <1>5, <1>6, Induction
<1>8. P(n)
  BY <1>1, <1>7 DEF T
<1>9. g[n].last = LastTotals(base, es)
  <2>1. g[n].last \in [Session -> Counts]
    BY <1>4 DEF Progress
  <2>2. \A s \in Session : g[n].last[s] = LastTotals(base, es)[s]
    BY <1>8 DEF LastTotals, n
  <2> QED
    BY <2>1, <2>2 DEF LastTotals
<1> HIDE DEF Upto, base
<1> QED
  BY <1>2, <1>3, <1>4, <1>8, <1>9 DEF base

NoProgress == [last |-> [s \in Session |-> Zero], events |-> <<>>]

LEMMA NoProgressTyped == NoProgress \in Progress
BY CountsAreTyped DEF NoProgress, Progress

\* What ByCounter has made of the files when it gives out its events.
CounterFold(fs) == FoldLeft(CodexFile, NoProgress, fs)

\* The files are taken one after the other.
LEMMA CounterFilesFold ==
  ASSUME NEW es, NEW n \in Nat, es \in [1..n -> Seq(Entry)]
  PROVE  \E g \in [0..n -> Progress] :
           /\ g[0] = NoProgress
           /\ \A k \in 0..(n - 1) : g[k + 1] = CodexFile(g[k], es[k + 1])
           /\ CounterFold(es) = g[n]
<1> DEFINE S == Progress
           step == [k \in 1..n |-> [s \in S |-> CodexFile(s, es[k])]]
           F(f) == [s \in SUBSET (1..n) |->
                      IF s = {} THEN NoProgress
                      ELSE CodexFile(f[s \ {Max(s)}], es[Max(s)])]
           it == CHOOSE f : f = F(f)
<1>1. CounterFold(es) = it[1..n]
  BY DOMAIN es = 1..n DEF CounterFold, FoldLeft, MapThenFoldSet
<1>2. NoProgress \in S /\ \A s \in S, e \in Seq(Entry) : CodexFile(s, e) \in S
  BY CodexFileLemma, NoProgressTyped
<1>3. \A k \in 1..n, s \in S : step[k][s] = CodexFile(s, es[k])
  OBVIOUS
<1>4. IsStep(step, n, S)
  BY <1>2 DEF IsStep
<1> HIDE DEF S, step
<1>5. PICK f \in [SUBSET (1..n) -> S] : Folds(f, n, NoProgress, step)
  BY <1>2, <1>4, FoldLemma
<1>6. f = F(f)
  <2>1. \A s \in SUBSET (1..n) : s # {} =>
          Max(s) \in 1..n /\ s \ {Max(s)} \in SUBSET (1..n)
    BY MaxInInterval
  <2> QED
    BY <1>3, <1>5, <2>1 DEF Folds
<1>7. it = F(it)
  <2> HIDE DEF F
  <2> QED
    BY <1>6
<1>8. it[{}] = NoProgress
  <2>1. {} \in SUBSET (1..n)
    OBVIOUS
  <2> HIDE DEF it
  <2> QED
    BY <1>7, <2>1
<1>9. ASSUME NEW s \in SUBSET (1..n), s # {}, it[s \ {Max(s)}] \in S
      PROVE  it[s] = step[Max(s)][it[s \ {Max(s)}]]
  <2>1. Max(s) \in 1..n
    BY <1>9, MaxInInterval
  <2> HIDE DEF it
  <2>2. it[s] = CodexFile(it[s \ {Max(s)}], es[Max(s)])
    BY <1>7, <1>9
  <2> QED
    BY <1>3, <1>9, <2>1, <2>2
<1> HIDE DEF it, F
<1>10. PICK g \in [0..n -> S] : TakesSteps(g, n, NoProgress, step) /\ it[1..n] = g[n]
  <2> DEFINE base == NoProgress
  <2>1. base \in S
    BY <1>2
  <2>2. LargestLast(it, n, base, step, S)
    BY <1>8, <1>9 DEF LargestLast
  <2> HIDE DEF base
  <2>3. \E g \in [0..n -> S] : TakesSteps(g, n, base, step) /\ it[1..n] = g[n]
    BY <2>1, <2>2, <1>4, FoldTakesSteps
  <2> QED
    BY <2>3 DEF base
<1>11. ASSUME NEW k \in 0..(n - 1) PROVE g[k + 1] = CodexFile(g[k], es[k + 1])
  <2>1. k + 1 \in 1..n /\ g[k] \in S
    OBVIOUS
  <2> QED
    BY <1>3, <1>10, <2>1 DEF TakesSteps
<1> QED
  BY <1>1, <1>10, <1>11 DEF TakesSteps, S

\* The files among the first f in which a session has lines, and the running
\* totals after those files: the ones of the last line of the last file.
Holders(fs, f, s) == {h \in 1..f : s \in SessionsIn(fs[h])}
LastCounts(lines, s) == CountsOf(lines[Max(LinesOf(lines, Len(lines), s))])
TotalsUpto(fs, f) ==
  [s \in Session |-> IF Holders(fs, f, s) = {} THEN Zero
                     ELSE LastCounts(fs[Max(Holders(fs, f, s))], s)]

\* The differences of all the files.
Deltas(fs) == UNION {DeltasOfFile(TotalsUpto(fs, f - 1), fs[f]) : f \in File}

LEMMA SessionsHaveLines ==
  ASSUME NEW es \in Seq(Entry), NEW s
  PROVE  /\ s \in SessionsIn(es) <=> LinesOf(es, Len(es), s) # {}
         /\ LinesOf(es, Len(es), s) = {i \in DOMAIN es : es[i].session = s}
<1>1. DOMAIN es = 1..Len(es)
  OBVIOUS
<1> QED
  BY <1>1 DEF SessionsIn, LinesOf

LEMMA LastCountsTyped ==
  ASSUME NEW es \in Seq(Entry), NEW s \in SessionsIn(es)
  PROVE  LastCounts(es, s) \in Counts
<1> DEFINE js == LinesOf(es, Len(es), s)
<1>1. js # {} /\ DOMAIN es = 1..Len(es) /\ Len(es) \in Nat
  BY SessionsHaveLines
<1>2. js \in SUBSET (1..Len(es))
  BY DEF LinesOf
<1> HIDE DEF js
<1>3. Max(js) \in DOMAIN es
  BY <1>1, <1>2, MaxInInterval
<1>4. es[Max(js)] \in Entry
  BY <1>3
<1> QED
  BY <1>4, CountsAreTyped DEF LastCounts, js

LEMMA TotalsUptoTyped ==
  ASSUME NEW n \in Nat, NEW fs, fs \in [1..n -> Seq(Entry)], NEW k \in 0..n
  PROVE  TotalsUpto(fs, k) \in [Session -> Counts]
<1> SUFFICES ASSUME NEW s \in Session, Holders(fs, k, s) # {}
             PROVE  LastCounts(fs[Max(Holders(fs, k, s))], s) \in Counts
  BY CountsAreTyped DEF TotalsUpto
<1> DEFINE hs == Holders(fs, k, s)
<1>1. hs \in SUBSET (1..k) /\ k \in Nat /\ \A h \in 1..k : h \in 1..n
  BY DEF Holders
<1>2. \A h \in hs : s \in SessionsIn(fs[h])
  BY DEF Holders
<1>3. hs # {}
  OBVIOUS
<1> HIDE DEF hs
<1>4. Max(hs) \in hs
  BY <1>1, <1>3, MaxInInterval
<1>5. s \in SessionsIn(fs[Max(hs)]) /\ fs[Max(hs)] \in Seq(Entry)
  BY <1>1, <1>2, <1>4
<1> QED
  BY <1>5, LastCountsTyped DEF hs

\* The totals are carried on from file to file.
LEMMA OneMoreFile ==
  ASSUME NEW n \in Nat, NEW fs, fs \in [1..n -> Seq(Entry)], NEW k \in 0..(n - 1)
  PROVE  TotalsUpto(fs, k + 1) = LastTotals(TotalsUpto(fs, k), fs[k + 1])
<1> DEFINE es == fs[k + 1]
           base == TotalsUpto(fs, k)
<1>1. /\ es \in Seq(Entry) /\ k \in Nat /\ k + 1 \in 1..(k + 1)
      /\ \A h \in 1..(k + 1) : h \in Int /\ h <= k + 1 /\ (h \in 1..k \/ h = k + 1)
      /\ \A h \in 1..k : h \in 1..(k + 1)
      /\ k + 1 \notin 1..k
  OBVIOUS
<1>2. ASSUME NEW s \in Session
      PROVE  TotalsUpto(fs, k + 1)[s] = TotalsAfter(base, es, Len(es), s)
  <2> DEFINE hs == Holders(fs, k + 1, s)
  <2>1. TotalsUpto(fs, k + 1)[s] = IF hs = {} THEN Zero ELSE LastCounts(fs[Max(hs)], s)
    BY DEF TotalsUpto
  <2>2. CASE s \in SessionsIn(es)
    <3>1. k + 1 \in hs /\ hs \in SUBSET Int /\ \A h \in hs : h <= k + 1
      BY <1>1, <2>2 DEF Holders
    <3> HIDE DEF hs
    <3>2. Max(hs) = k + 1 /\ hs # {}
      BY <3>1, MaxIs
    <3>3. LinesOf(es, Len(es), s) # {}
      BY <1>1, <2>2, SessionsHaveLines
    <3> QED
      BY <2>1, <3>2, <3>3 DEF TotalsAfter, LastCounts
  <2>3. CASE s \notin SessionsIn(es)
    <3>1. hs = Holders(fs, k, s)
      BY <1>1, <2>3 DEF Holders
    <3>2. base[s] = TotalsUpto(fs, k + 1)[s]
      BY <2>1, <3>1 DEF TotalsUpto
    <3>3. LinesOf(es, Len(es), s) = {}
      BY <1>1, <2>3, SessionsHaveLines
    <3> QED
      BY <3>2, <3>3 DEF TotalsAfter
  <2> QED
    BY <2>2, <2>3
<1> QED
  BY <1>2 DEF LastTotals, TotalsUpto

LEMMA ByCounterLemma ==
  ASSUME BoundAssumption, NEW fs \in Files
  PROVE  ByCounter(fs) \in Seq(Row) /\ ToSet(ByCounter(fs)) = Deltas(fs)
<1> DEFINE n == NFiles
           Upto(k) == UNION {DeltasOfFile(TotalsUpto(fs, f - 1), fs[f]) : f \in 1..k}
<1>1. n \in Nat /\ fs \in [1..n -> Seq(Entry)]
  BY DEF BoundAssumption, Files, File
<1>2. Deltas(fs) = Upto(n)
  BY DEF Deltas, File
<1> HIDE DEF n
<1>3. PICK g \in [0..n -> Progress] :
           /\ g[0] = NoProgress
           /\ \A k \in 0..(n - 1) : g[k + 1] = CodexFile(g[k], fs[k + 1])
           /\ CounterFold(fs) = g[n]
  BY <1>1, CounterFilesFold
<1>4. ByCounter(fs) = CounterFold(fs).events
  BY DEF ByCounter, CounterFold, NoProgress
<1> DEFINE P(k) == ToSet(g[k].events) = Upto(k) /\ g[k].last = TotalsUpto(fs, k)
           T == {k \in Nat : k <= n => P(k)}
<1>5. 0 \in T
  <2>1. Upto(0) = {}
    OBVIOUS
  <2>2. ToSet(<<>>) = {}
    BY DEF ToSet
  <2>3. \A s : Holders(fs, 0, s) = {}
    BY DEF Holders
  <2>4. TotalsUpto(fs, 0) = [s \in Session |-> Zero]
    BY <2>3 DEF TotalsUpto
  <2>5. NoProgress.events = <<>> /\ NoProgress.last = [s \in Session |-> Zero]
    BY DEF NoProgress
  <2> QED
    BY <1>3, <2>1, <2>2, <2>4, <2>5
<1>6. ASSUME NEW k \in Nat, k \in T PROVE k + 1 \in T
  <2> SUFFICES ASSUME k + 1 <= n PROVE P(k + 1)
    OBVIOUS
  <2>1. /\ k \in 0..(n - 1) /\ k \in 0..n /\ k + 1 \in 1..n /\ k <= n
        /\ \A i \in 1..(k + 1) : i \in 1..k \/ i = k + 1
        /\ \A i \in 1..k : i \in 1..(k + 1)
        /\ k + 1 \in 1..(k + 1) /\ k + 1 - 1 = k
    BY <1>1
  <2> DEFINE es == fs[k + 1]
             base == TotalsUpto(fs, k)
             more == DeltasOfFile(base, es)
  <2>2. P(k)
    BY <1>6, <2>1
  <2>3. es \in Seq(Entry) /\ g[k] \in Progress /\ g[k + 1] = CodexFile(g[k], es)
    BY <1>1, <1>3, <2>1
  <2>4. Upto(k + 1) = Upto(k) \cup more
    <3>1. Upto(k) \subseteq Upto(k + 1) /\ more \subseteq Upto(k + 1)
      BY <2>1
    <3>2. Upto(k + 1) \subseteq Upto(k) \cup more
      BY <2>1
    <3> QED
      BY <3>1, <3>2
  <2>5. TotalsUpto(fs, k + 1) = LastTotals(base, es)
    BY <1>1, <2>1, OneMoreFile
  <2> HIDE DEF Upto, es, base
  <2>6. /\ ToSet(CodexFile(g[k], es).events) = ToSet(g[k].events) \cup more
        /\ CodexFile(g[k], es).last = LastTotals(base, es)
    BY <2>2, <2>3, CodexFileLemma DEF base
  <2> QED
    BY <2>2, <2>3, <2>4, <2>5, <2>6
<1> HIDE DEF T, Upto
<1>7. n \in T
  BY <1>1, <1>5, <1>6, Induction
<1>8. P(n)
  BY <1>1, <1>7 DEF T
<1>9. g[n].events \in Seq(Row)
  BY <1>1, <1>3 DEF Progress
<1> QED
  BY <1>2, <1>3, <1>4, <1>8, <1>9

-----------------------------------------------------------------------------
(* Sums of tokens. *)

TokensOf(rows) == [r \in rows |-> r.in + r.out]
TotalOf(rows) == MapThenSumSet(LAMBDA r : r.in + r.out, rows)

LEMMA TokensAreWeights ==
  ASSUME NEW rows \in SUBSET Row
  PROVE  IsWeight(TokensOf(rows), rows)
<1>1. \A r \in rows : r.in + r.out \in Nat
  BY DEF Row
<1> QED
  BY <1>1 DEF IsWeight, TokensOf

\* The total of rows is the sum of their tokens.
LEMMA TotalIsSum ==
  ASSUME NEW rows \in SUBSET Row, IsFiniteSet(rows)
  PROVE  \E f : Additive(f, rows, TokensOf(rows)) /\ TotalOf(rows) = f[rows]
<1> DEFINE T == rows
           F(f) == [s \in SUBSET T |->
                      IF s = {} THEN 0
                      ELSE ((CHOOSE x \in s : TRUE).in + (CHOOSE x \in s : TRUE).out) + f[s \ {CHOOSE x \in s : TRUE}]]
           it == CHOOSE f : f = F(f)
<1>1. TotalOf(rows) = it[T]
  BY DEF TotalOf, MapThenSumSet, MapThenFoldSet
<1>2. IsFiniteSet(T) /\ IsWeight(TokensOf(rows), T)
  BY TokensAreWeights
<1>3. \A x \in T : TokensOf(rows)[x] = (x.in + x.out)
  BY DEF TokensOf
<1> DEFINE w == TokensOf(rows)
<1> HIDE DEF T, w
<1>4. \A s \in SUBSET T : s # {} => (CHOOSE x \in s : TRUE) \in T
  OBVIOUS
<1>5. \A f : Sums(f, T, w) <=> f = F(f)
  BY <1>3, <1>4 DEF Sums, w
<1>6. it = F(it)
  <2>1. PICK f : Sums(f, T, w)
    BY <1>2, SumsExist DEF w
  <2>2. f = F(f)
    BY <1>5, <2>1
  <2> HIDE DEF F
  <2> QED
    BY <2>2
<1> HIDE DEF it
<1>7. Additive(it, T, w)
  BY <1>2, <1>5, <1>6, SumsAreAdditive DEF w
<1> QED
  BY <1>1, <1>7 DEF T, w

\* A new row adds its tokens to the total, and fewer rows have no larger one.
LEMMA TotalFacts ==
  ASSUME NEW rows \in SUBSET Row, IsFiniteSet(rows)
  PROVE  /\ TotalOf(rows) \in Nat
         /\ TotalOf({}) = 0
         /\ \A some \in SUBSET rows : TotalOf(some) <= TotalOf(rows)
         /\ \A r \in rows : TotalOf(rows) = r.in + r.out + TotalOf(rows \ {r})
<1> DEFINE w == TokensOf(rows)
<1>1. PICK f : Additive(f, rows, w) /\ TotalOf(rows) = f[rows]
  BY TotalIsSum
<1>2. IsWeight(w, rows)
  BY TokensAreWeights
<1>3. \A x \in rows : w[x] = x.in + x.out
  BY DEF TokensOf
<1> HIDE DEF w
<1>4. ASSUME NEW some \in SUBSET rows PROVE TotalOf(some) = f[some]
  <2> DEFINE v == TokensOf(some)
             h == [x \in some |-> x]
  <2>1. some \in SUBSET Row /\ IsFiniteSet(some)
    BY FS_Subset
  <2>2. PICK g : Additive(g, some, v) /\ TotalOf(some) = g[some]
    BY <2>1, TotalIsSum
  <2>3. IsWeight(v, some)
    BY <2>1, TokensAreWeights
  <2>4. \A x \in some : h[x] \in rows /\ w[h[x]] = v[x]
    BY <1>3 DEF TokensOf
  <2>5. \A x, y \in some : h[x] = h[y] => x = y
    OBVIOUS
  <2>6. {h[x] : x \in some} = some
    OBVIOUS
  <2> HIDE DEF v, h
  <2>7. g[some] = f[{h[x] : x \in some}]
    BY <1>1, <2>1, <2>2, <2>3, <2>4, <2>5, SumOfImage
  <2> QED
    BY <2>2, <2>6, <2>7
<1>5. f[{}] = 0 /\ \A some \in SUBSET rows : f[some] \in Nat
  BY <1>1 DEF Additive
<1>6. \A r \in rows : f[rows] = w[r] + f[rows \ {r}]
  BY <1>1 DEF Additive
<1>7. ASSUME NEW some \in SUBSET rows PROVE f[some] <= f[rows]
  <2> DEFINE rest == rows \ some
  <2>1. rest \in SUBSET rows /\ some \cup rest = rows /\ some \cap rest = {}
    OBVIOUS
  <2> HIDE DEF rest
  <2>2. f[rows] = f[some] + f[rest]
    <3>1. Parts(rows, some, rest) /\ rows \in SUBSET rows
      BY <2>1 DEF Parts
    <3> QED
      BY <1>1, <1>2, <3>1, SumOfParts
  <2>3. f[some] \in Nat /\ f[rest] \in Nat
    BY <1>5, <2>1
  <2> QED
    BY <2>2, <2>3
<1>8. \A r \in rows : rows \ {r} \in SUBSET rows
  OBVIOUS
<1>9. TotalOf(rows) \in Nat /\ TotalOf({}) = 0
  BY <1>4, <1>5
<1>10. \A some \in SUBSET rows : TotalOf(some) <= TotalOf(rows)
  BY <1>4, <1>7
<1>11. \A r \in rows : TotalOf(rows) = r.in + r.out + TotalOf(rows \ {r})
  BY <1>3, <1>4, <1>6, <1>8
<1> QED
  BY <1>9, <1>10, <1>11

LEMMA OneMoreRow ==
  ASSUME NEW rows \in SUBSET Row, IsFiniteSet(rows), NEW r \in Row, r \notin rows
  PROVE  TotalOf(rows \cup {r}) = TotalOf(rows) + r.in + r.out
<1> DEFINE all == rows \cup {r}
<1>1. all \in SUBSET Row /\ IsFiniteSet(all) /\ r \in all /\ all \ {r} = rows
  BY FS_AddElement
<1> HIDE DEF all
<1>2. TotalOf(all) = r.in + r.out + TotalOf(rows)
  BY <1>1, TotalFacts
<1>3. TotalOf(rows) \in Nat /\ r.in \in Nat /\ r.out \in Nat
  BY TotalFacts DEF Row
<1> QED
  BY <1>2, <1>3 DEF all

\* The tokens of a file.
InAt(es) == [i \in DOMAIN es |-> es[i].in]
OutAt(es) == [i \in DOMAIN es |-> es[i].out]

LEMMA EntriesAreFinite ==
  ASSUME NEW es \in Seq(Entry)
  PROVE  /\ IsFiniteSet(DOMAIN es)
         /\ \A i \in DOMAIN es : es[i].in \in Nat /\ es[i].out \in Nat
<1>1. DOMAIN es = 1..Len(es) /\ Len(es) \in Nat /\ \A i \in DOMAIN es : es[i] \in Entry
  OBVIOUS
<1>2. IsFiniteSet(1..Len(es))
  BY <1>1, FS_Interval
<1> QED
  BY <1>1, <1>2 DEF Entry

\* The input tokens of a file are the sum of those of its entries ...
LEMMA InIsSum ==
  ASSUME NEW es \in Seq(Entry)
  PROVE  \E f : Additive(f, DOMAIN es, InAt(es)) /\ InOf(es) = f[DOMAIN es]
<1> DEFINE T == DOMAIN es
           F(f) == [s \in SUBSET T |->
                      IF s = {} THEN 0
                      ELSE es[(CHOOSE x \in s : TRUE)].in + f[s \ {CHOOSE x \in s : TRUE}]]
           it == CHOOSE f : f = F(f)
<1>1. InOf(es) = it[T]
  BY DEF InOf, MapThenSumSet, MapThenFoldSet
<1>2. IsFiniteSet(T) /\ IsWeight(InAt(es), T)
  BY EntriesAreFinite DEF IsWeight, InAt
<1>3. \A x \in T : InAt(es)[x] = es[x].in
  BY DEF InAt
<1> DEFINE w == InAt(es)
<1> HIDE DEF T, w
<1>4. \A s \in SUBSET T : s # {} => (CHOOSE x \in s : TRUE) \in T
  OBVIOUS
<1>5. \A f : Sums(f, T, w) <=> f = F(f)
  BY <1>3, <1>4 DEF Sums, w
<1>6. it = F(it)
  <2>1. PICK f : Sums(f, T, w)
    BY <1>2, SumsExist DEF w
  <2>2. f = F(f)
    BY <1>5, <2>1
  <2> HIDE DEF F
  <2> QED
    BY <2>2
<1> HIDE DEF it
<1>7. Additive(it, T, w)
  BY <1>2, <1>5, <1>6, SumsAreAdditive DEF w
<1> QED
  BY <1>1, <1>7 DEF T, w

\* ... and so are its output tokens.
LEMMA OutIsSum ==
  ASSUME NEW es \in Seq(Entry)
  PROVE  \E f : Additive(f, DOMAIN es, OutAt(es)) /\ OutOf(es) = f[DOMAIN es]
<1> DEFINE T == DOMAIN es
           F(f) == [s \in SUBSET T |->
                      IF s = {} THEN 0
                      ELSE es[(CHOOSE x \in s : TRUE)].out + f[s \ {CHOOSE x \in s : TRUE}]]
           it == CHOOSE f : f = F(f)
<1>1. OutOf(es) = it[T]
  BY DEF OutOf, MapThenSumSet, MapThenFoldSet
<1>2. IsFiniteSet(T) /\ IsWeight(OutAt(es), T)
  BY EntriesAreFinite DEF IsWeight, OutAt
<1>3. \A x \in T : OutAt(es)[x] = es[x].out
  BY DEF OutAt
<1> DEFINE w == OutAt(es)
<1> HIDE DEF T, w
<1>4. \A s \in SUBSET T : s # {} => (CHOOSE x \in s : TRUE) \in T
  OBVIOUS
<1>5. \A f : Sums(f, T, w) <=> f = F(f)
  BY <1>3, <1>4 DEF Sums, w
<1>6. it = F(it)
  <2>1. PICK f : Sums(f, T, w)
    BY <1>2, SumsExist DEF w
  <2>2. f = F(f)
    BY <1>5, <2>1
  <2> HIDE DEF F
  <2> QED
    BY <2>2
<1> HIDE DEF it
<1>7. Additive(it, T, w)
  BY <1>2, <1>5, <1>6, SumsAreAdditive DEF w
<1> QED
  BY <1>1, <1>7 DEF T, w

\* A sum over a set that has grown by one.
LEMMA SumOfLarger ==
  ASSUME NEW S, IsFiniteSet(S), NEW T, NEW x \in T, T \ {x} = S,
         NEW w, IsWeight(w, S), NEW v, IsWeight(v, T), \A i \in S : v[i] = w[i],
         NEW f, Additive(f, S, w), NEW g, Additive(g, T, v)
  PROVE  g[T] = f[S] + v[x]
<1> DEFINE h == [i \in S |-> i]
<1>1. S \in SUBSET T /\ T \in SUBSET T /\ S \in SUBSET S
  OBVIOUS
<1>2. /\ \A i \in S : h[i] \in T /\ v[h[i]] = w[i]
      /\ \A i, j \in S : h[i] = h[j] => i = j
      /\ {h[i] : i \in S} = S
  BY <1>1
<1> HIDE DEF h
<1>3. \A s \in SUBSET S : f[s] = g[{h[i] : i \in s}]
  BY <1>2, SumOfImage
<1>4. f[S] = g[S]
  BY <1>1, <1>2, <1>3
<1>5. g[T] = v[x] + g[S]
  BY <1>1 DEF Additive
<1>6. f[S] \in Nat /\ v[x] \in Nat
  BY <1>1 DEF Additive, IsWeight
<1> QED
  BY <1>4, <1>5, <1>6

\* A new entry adds its tokens to those of its file.
LEMMA OneMoreEntry ==
  ASSUME NEW es \in Seq(Entry)
  PROVE  /\ InOf(es) \in Nat /\ OutOf(es) \in Nat
         /\ es = <<>> => InOf(es) = 0 /\ OutOf(es) = 0
         /\ \A e \in Entry : /\ InOf(Append(es, e)) = InOf(es) + e.in
                             /\ OutOf(Append(es, e)) = OutOf(es) + e.out
<1> DEFINE n == Len(es)
<1>1. n \in Nat /\ DOMAIN es = 1..n
  OBVIOUS
<1>2. PICK f : Additive(f, DOMAIN es, InAt(es)) /\ InOf(es) = f[DOMAIN es]
  BY InIsSum
<1>3. PICK g : Additive(g, DOMAIN es, OutAt(es)) /\ OutOf(es) = g[DOMAIN es]
  BY OutIsSum
<1>4. InOf(es) \in Nat /\ OutOf(es) \in Nat
  BY <1>2, <1>3 DEF Additive
<1>5. ASSUME es = <<>> PROVE InOf(es) = 0 /\ OutOf(es) = 0
  <2>1. DOMAIN es = {}
    BY <1>5
  <2> QED
    BY <1>2, <1>3, <2>1 DEF Additive
<1>6. ASSUME NEW e \in Entry
      PROVE  InOf(Append(es, e)) = InOf(es) + e.in /\ OutOf(Append(es, e)) = OutOf(es) + e.out
  <2> DEFINE longer == Append(es, e)
  <2>1. /\ longer \in Seq(Entry) /\ Len(longer) = n + 1 /\ longer[n + 1] = e
        /\ \A i \in 1..n : longer[i] = es[i]
    OBVIOUS
  <2>2. DOMAIN longer = 1..(n + 1)
    BY <2>1
  <2>3. n + 1 \in 1..(n + 1) /\ \A i \in 1..n : i \in 1..(n + 1)
    BY <1>1
  <2> HIDE DEF n, longer
  <2>4. /\ IsWeight(InAt(es), 1..n) /\ IsWeight(OutAt(es), 1..n)
        /\ IsWeight(InAt(longer), 1..(n + 1)) /\ IsWeight(OutAt(longer), 1..(n + 1))
    BY <1>1, <2>1, <2>2, EntriesAreFinite DEF IsWeight, InAt, OutAt
  <2>5. /\ \A i \in 1..n : InAt(longer)[i] = InAt(es)[i] /\ OutAt(longer)[i] = OutAt(es)[i]
        /\ InAt(longer)[n + 1] = e.in /\ OutAt(longer)[n + 1] = e.out
    BY <1>1, <2>1, <2>2, <2>3 DEF InAt, OutAt
  <2>6. PICK ff : Additive(ff, DOMAIN longer, InAt(longer)) /\ InOf(longer) = ff[DOMAIN longer]
    BY <2>1, InIsSum
  <2>7. PICK gg : Additive(gg, DOMAIN longer, OutAt(longer)) /\ OutOf(longer) = gg[DOMAIN longer]
    BY <2>1, OutIsSum
  <2> DEFINE wi == InAt(es)
             wo == OutAt(es)
             vi == InAt(longer)
             vo == OutAt(longer)
  <2> DEFINE S == 1..n
             T == 1..(n + 1)
  <2>e. n + 1 \in T /\ T \ {n + 1} = S /\ IsFiniteSet(S)
    BY <1>1, FS_Interval
  <2>a. Additive(f, S, wi) /\ Additive(g, S, wo) /\ InOf(es) = f[S] /\ OutOf(es) = g[S]
    BY <1>1, <1>2, <1>3
  <2>b. /\ Additive(ff, T, vi) /\ Additive(gg, T, vo)
        /\ InOf(longer) = ff[T] /\ OutOf(longer) = gg[T]
    BY <2>2, <2>6, <2>7
  <2>c. IsWeight(wi, S) /\ IsWeight(wo, S) /\ IsWeight(vi, T) /\ IsWeight(vo, T)
    BY <2>4
  <2>d. /\ \A i \in S : vi[i] = wi[i]
        /\ \A i \in S : vo[i] = wo[i]
        /\ vi[n + 1] = e.in /\ vo[n + 1] = e.out
    BY <2>5
  <2> HIDE DEF wi, wo, vi, vo, S, T
  <2>8. ff[T] = f[S] + vi[n + 1]
    BY <2>a, <2>b, <2>c, <2>d, <2>e, SumOfLarger
  <2>9. gg[T] = g[S] + vo[n + 1]
    BY <2>a, <2>b, <2>c, <2>d, <2>e, SumOfLarger
  <2> QED
    BY <2>8, <2>9, <2>a, <2>b, <2>d DEF longer
<1> QED
  BY <1>4, <1>5, <1>6

-----------------------------------------------------------------------------
(* The adapter that sums up each session. *)

SessionRow(f, es) == Event(<<f, 0>>, <<f, 0>>, InOf(es), OutOf(es))
Busy(es) == InOf(es) + OutOf(es) # 0

LEMMA SessionRowTyped ==
  ASSUME NEW f \in File \cup Session, NEW es \in Seq(Entry)
  PROVE  SessionRow(f, es) \in Row /\ SessionRow(f, es).key = <<f, 0>>
<1>1. InOf(es) \in Nat /\ OutOf(es) \in Nat
  BY OneMoreEntry
<1>2. <<f, 0>> \in Id
  BY DEF Id
<1> QED
  BY <1>1, <1>2 DEF SessionRow, Event, Row

LEMMA CopilotFileLemma ==
  ASSUME NEW events \in Seq(Row), NEW es \in Seq(Entry)
  PROVE  /\ CopilotFile(events, es) \in Seq(Row)
         /\ \A f \in File : (\A i \in DOMAIN es : es[i].session = f) =>
              ToSet(CopilotFile(events, es)) =
                ToSet(events) \cup (IF Busy(es) THEN {SessionRow(f, es)} ELSE {})
<1> DEFINE s == Head(es).session
           row == SessionRow(s, es)
<1>1. CopilotFile(events, es) = IF Busy(es) THEN Append(events, row) ELSE events
  BY DEF CopilotFile, Busy, SessionRow
<1>2. Busy(es) => es # <<>>
  <2>1. es = <<>> => InOf(es) = 0 /\ OutOf(es) = 0
    BY OneMoreEntry
  <2> QED
    BY <2>1 DEF Busy
<1>3. es # <<>> => 1 \in DOMAIN es /\ Head(es) = es[1] /\ es[1] \in Entry
  OBVIOUS
<1>4. Busy(es) => s \in Session
  BY <1>2, <1>3 DEF Entry
<1> HIDE DEF s
<1>5. Busy(es) => row \in Row
  BY <1>4, SessionRowTyped
<1> HIDE DEF row
<1>6. CopilotFile(events, es) \in Seq(Row)
  BY <1>1, <1>5
<1>7. ASSUME NEW f \in File, \A i \in DOMAIN es : es[i].session = f
      PROVE  ToSet(CopilotFile(events, es)) =
               ToSet(events) \cup (IF Busy(es) THEN {SessionRow(f, es)} ELSE {})
  <2>1. Busy(es) => row = SessionRow(f, es)
    BY <1>2, <1>3, <1>7 DEF s, row
  <2>2. CASE Busy(es)
    <3>1. ToSet(Append(events, row)) = ToSet(events) \cup {row}
      BY <1>5, <2>2, AppendedElement
    <3> QED
      BY <1>1, <2>1, <2>2, <3>1
  <2>3. CASE ~ Busy(es)
    BY <1>1, <2>3
  <2> QED
    BY <2>2, <2>3
<1> QED
  BY <1>6, <1>7

\* The files are taken one after the other.
LEMMA BySessionFold ==
  ASSUME NEW es, NEW n \in Nat, es \in [1..n -> Seq(Entry)]
  PROVE  \E g \in [0..n -> Seq(Row)] :
           /\ g[0] = <<>>
           /\ \A k \in 0..(n - 1) : g[k + 1] = CopilotFile(g[k], es[k + 1])
           /\ BySession(es) = g[n]
<1> DEFINE S == Seq(Row)
           step == [k \in 1..n |-> [s \in S |-> CopilotFile(s, es[k])]]
           F(f) == [s \in SUBSET (1..n) |->
                      IF s = {} THEN <<>>
                      ELSE CopilotFile(f[s \ {Max(s)}], es[Max(s)])]
           it == CHOOSE f : f = F(f)
<1>1. BySession(es) = it[1..n]
  BY DOMAIN es = 1..n DEF BySession, FoldLeft, MapThenFoldSet
<1>2. <<>> \in S /\ \A s \in S, e \in Seq(Entry) : CopilotFile(s, e) \in S
  BY CopilotFileLemma
<1>3. \A k \in 1..n, s \in S : step[k][s] = CopilotFile(s, es[k])
  OBVIOUS
<1>4. IsStep(step, n, S)
  BY <1>2 DEF IsStep
<1> HIDE DEF S, step
<1>5. PICK f \in [SUBSET (1..n) -> S] : Folds(f, n, <<>>, step)
  BY <1>2, <1>4, FoldLemma
<1>6. f = F(f)
  <2>1. \A s \in SUBSET (1..n) : s # {} =>
          Max(s) \in 1..n /\ s \ {Max(s)} \in SUBSET (1..n)
    BY MaxInInterval
  <2> QED
    BY <1>3, <1>5, <2>1 DEF Folds
<1>7. it = F(it)
  <2> HIDE DEF F
  <2> QED
    BY <1>6
<1>8. it[{}] = <<>>
  <2>1. {} \in SUBSET (1..n)
    OBVIOUS
  <2> HIDE DEF it
  <2> QED
    BY <1>7, <2>1
<1>9. ASSUME NEW s \in SUBSET (1..n), s # {}, it[s \ {Max(s)}] \in S
      PROVE  it[s] = step[Max(s)][it[s \ {Max(s)}]]
  <2>1. Max(s) \in 1..n
    BY <1>9, MaxInInterval
  <2> HIDE DEF it
  <2>2. it[s] = CopilotFile(it[s \ {Max(s)}], es[Max(s)])
    BY <1>7, <1>9
  <2> QED
    BY <1>3, <1>9, <2>1, <2>2
<1> HIDE DEF it, F
<1>10. PICK g \in [0..n -> S] : TakesSteps(g, n, <<>>, step) /\ it[1..n] = g[n]
  <2> DEFINE base == <<>>
  <2>1. base \in S
    BY <1>2
  <2>2. LargestLast(it, n, base, step, S)
    BY <1>8, <1>9 DEF LargestLast
  <2> HIDE DEF base
  <2>3. \E g \in [0..n -> S] : TakesSteps(g, n, base, step) /\ it[1..n] = g[n]
    BY <2>1, <2>2, <1>4, FoldTakesSteps
  <2> QED
    BY <2>3 DEF base
<1>11. ASSUME NEW k \in 0..(n - 1) PROVE g[k + 1] = CopilotFile(g[k], es[k + 1])
  <2>1. k + 1 \in 1..n /\ g[k] \in S
    OBVIOUS
  <2> QED
    BY <1>3, <1>10, <2>1 DEF TakesSteps
<1> QED
  BY <1>1, <1>10, <1>11 DEF TakesSteps, S

SessionRows(fs) == {SessionRow(f, fs[f]) : f \in {f \in File : Busy(fs[f])}}

\* The lines of a file are those of the session with its number.
OwnSessions(fs) == \A f \in File : \A i \in DOMAIN fs[f] : fs[f][i].session = f

LEMMA BySessionLemma ==
  ASSUME BoundAssumption, NEW fs \in Files, OwnSessions(fs)
  PROVE  BySession(fs) \in Seq(Row) /\ ToSet(BySession(fs)) = SessionRows(fs)
<1> DEFINE n == NFiles
           Upto(k) == {SessionRow(f, fs[f]) : f \in {f \in 1..k : Busy(fs[f])}}
<1>1. n \in Nat /\ fs \in [1..n -> Seq(Entry)]
  BY DEF BoundAssumption, Files, File
<1>2. SessionRows(fs) = Upto(n)
  BY DEF SessionRows, File
<1>a. \A f \in 1..n : f \in File /\ \A i \in DOMAIN fs[f] : fs[f][i].session = f
  BY DEF OwnSessions, File
<1> HIDE DEF n
<1>3. PICK g \in [0..n -> Seq(Row)] :
           /\ g[0] = <<>>
           /\ \A k \in 0..(n - 1) : g[k + 1] = CopilotFile(g[k], fs[k + 1])
           /\ BySession(fs) = g[n]
  BY <1>1, BySessionFold
<1> DEFINE T == {k \in Nat : k <= n => ToSet(g[k]) = Upto(k)}
<1>5. 0 \in T
  <2>1. Upto(0) = {}
    OBVIOUS
  <2>2. ToSet(<<>>) = {}
    BY DEF ToSet
  <2> QED
    BY <1>3, <2>1, <2>2
<1>6. ASSUME NEW k \in Nat, k \in T PROVE k + 1 \in T
  <2> SUFFICES ASSUME k + 1 <= n PROVE ToSet(g[k + 1]) = Upto(k + 1)
    OBVIOUS
  <2>1. /\ k \in 0..(n - 1) /\ k \in 0..n /\ k + 1 \in 1..n /\ k <= n
        /\ \A i \in 1..(k + 1) : i \in 1..k \/ i = k + 1
        /\ \A i \in 1..k : i \in 1..(k + 1)
        /\ k + 1 \in 1..(k + 1)
    BY <1>1
  <2> DEFINE es == fs[k + 1]
             more == IF Busy(es) THEN {SessionRow(k + 1, es)} ELSE {}
  <2>2. ToSet(g[k]) = Upto(k)
    BY <1>6, <2>1
  <2>3. es \in Seq(Entry) /\ g[k] \in Seq(Row) /\ g[k + 1] = CopilotFile(g[k], es)
    BY <1>1, <1>3, <2>1
  <2>4. Upto(k + 1) = Upto(k) \cup more
    <3>1. Upto(k) \subseteq Upto(k + 1) /\ more \subseteq Upto(k + 1)
      BY <2>1
    <3>2. Upto(k + 1) \subseteq Upto(k) \cup more
      BY <2>1
    <3> QED
      BY <3>1, <3>2
  <2>5. k + 1 \in File /\ \A i \in DOMAIN es : es[i].session = k + 1
    BY <1>a, <2>1
  <2> HIDE DEF Upto, es
  <2>6. ToSet(CopilotFile(g[k], es)) = ToSet(g[k]) \cup more
    BY <2>3, <2>5, CopilotFileLemma
  <2> QED
    BY <2>2, <2>3, <2>4, <2>6
<1> HIDE DEF T, Upto
<1>7. n \in T
  BY <1>1, <1>5, <1>6, Induction
<1>8. ToSet(g[n]) = Upto(n)
  BY <1>1, <1>7 DEF T
<1>9. g[n] \in Seq(Row)
  BY <1>1, <1>3
<1> QED
  BY <1>2, <1>3, <1>8, <1>9

-----------------------------------------------------------------------------
(* The logs. *)

\* A log with some of its files left out.
Without(fs, skipped) == [f \in File |-> IF f \in skipped THEN <<>> ELSE fs[f]]

LEMMA EmptyFile ==
  /\ RowsOfFile(<<>>) = {} /\ SessionsIn(<<>>) = {} /\ ~ Busy(<<>>)
  /\ \A base : DeltasOfFile(base, <<>>) = {}
<1> DEFINE none == <<>>
<1>1. none \in Seq(Entry) /\ DOMAIN none = {}
  OBVIOUS
<1>2. InOf(none) = 0 /\ OutOf(none) = 0
  BY <1>1, OneMoreEntry
<1> HIDE DEF none
<1>3. RowsOfFile(none) = {} /\ SessionsIn(none) = {} /\ \A base : DeltasOfFile(base, none) = {}
  BY <1>1 DEF RowsOfFile, DeltasOfFile, SessionsIn
<1>4. ~ Busy(none)
  BY <1>2 DEF Busy
<1> QED
  BY <1>3, <1>4 DEF none

\* Only the totals of the sessions of a file matter to it.
LEMMA OtherSessions ==
  ASSUME NEW lines, NEW base, NEW other, \A s \in SessionsIn(lines) : base[s] = other[s]
  PROVE  DeltasOfFile(base, lines) = DeltasOfFile(other, lines)
<1>1. ASSUME NEW i \in DOMAIN lines PROVE Delta(base, lines, i) = Delta(other, lines, i)
  <2>1. lines[i].session \in SessionsIn(lines)
    BY DEF SessionsIn
  <2> QED
    BY <2>1 DEF Delta, TotalsAfter
<1> QED
  BY <1>1 DEF DeltasOfFile

\* No session goes on in a file after one of its files has been left out.
NoneCut(fs, skipped) ==
  \A f, g \in File : g < f /\ g \in skipped /\ f \notin skipped =>
    SessionsIn(fs[f]) \cap SessionsIn(fs[g]) = {}

\* Then the differences are the same.
LEMMA FewerLines ==
  ASSUME BoundAssumption, NEW fs \in Files, NEW skipped, NoneCut(fs, skipped),
         NEW some, some = Without(fs, skipped)
  PROVE  Deltas(some) \subseteq Deltas(fs)
<1>1. \A f \in File : /\ f \in skipped => some[f] = <<>>
                      /\ f \notin skipped => some[f] = fs[f]
  BY DEF Without
<1>2. ASSUME NEW f \in File, f \notin skipped
      PROVE  DeltasOfFile(TotalsUpto(some, f - 1), some[f]) = DeltasOfFile(TotalsUpto(fs, f - 1), fs[f])
  <2>1. \A h \in 1..(f - 1) : h \in File /\ h < f
    BY DEF File, BoundAssumption
  <2>2. fs[f] \in Seq(Entry)
    BY DEF Files
  <2>3. SessionsIn(fs[f]) \subseteq Session
    BY <2>2, SessionsInTyped
  <2>4. ASSUME NEW s \in SessionsIn(fs[f])
        PROVE  TotalsUpto(some, f - 1)[s] = TotalsUpto(fs, f - 1)[s]
    <3>1. \A h \in 1..(f - 1) : s \in SessionsIn(fs[h]) => some[h] = fs[h]
      BY <1>1, <1>2, <2>1 DEF NoneCut
    <3>2. \A h \in 1..(f - 1) : s \in SessionsIn(some[h]) => some[h] = fs[h]
      BY <1>1, <2>1, EmptyFile
    <3>3. Holders(some, f - 1, s) = Holders(fs, f - 1, s)
      BY <3>1, <3>2 DEF Holders
    <3> DEFINE hs == Holders(fs, f - 1, s)
    <3>4. hs \in SUBSET (1..(f - 1)) /\ f - 1 \in Nat
      BY DEF Holders, File
    <3>5. \A h \in hs : some[h] = fs[h]
      BY <3>1 DEF Holders
    <3>6. Holders(some, f - 1, s) = hs
      BY <3>3
    <3> HIDE DEF hs
    <3>7. hs # {} => some[Max(hs)] = fs[Max(hs)]
      BY <3>4, <3>5, MaxInInterval
    <3> QED
      BY <2>3, <3>6, <3>7 DEF TotalsUpto, hs
  <2>5. some[f] = fs[f]
    BY <1>1, <1>2
  <2> QED
    BY <2>4, <2>5, OtherSessions
<1>3. ASSUME NEW f \in File
      PROVE  DeltasOfFile(TotalsUpto(some, f - 1), some[f]) \subseteq Deltas(fs)
  <2>1. CASE f \in skipped
    BY <1>1, <2>1, EmptyFile
  <2>2. CASE f \notin skipped
    BY <1>2, <2>2 DEF Deltas
  <2> QED
    BY <2>1, <2>2
<1> QED
  BY <1>3 DEF Deltas

\* A file that is left out does not change what is read from the others.
LEMMA FewerFiles ==
  ASSUME NEW fs \in Files, NEW skipped
  PROVE  LET some == Without(fs, skipped)
         IN  /\ some \in Files
             /\ RowsById(some) \subseteq RowsById(fs)
             /\ SessionRows(some) \subseteq SessionRows(fs)
             /\ OwnSessions(fs) => OwnSessions(some)
             /\ skipped = {} => some = fs
<1> DEFINE some == Without(fs, skipped)
<1>1. some \in Files
  <2>1. \A f \in File : (IF f \in skipped THEN <<>> ELSE fs[f]) \in Seq(Entry)
    BY DEF Files
  <2> QED
    BY <2>1 DEF Files, Without
<1>2. \A f \in File : some[f] = <<>> \/ some[f] = fs[f]
  BY DEF Without
<1>3. skipped = {} => some = fs
  BY DEF Without, Files
<1> HIDE DEF some
<1>4. RowsById(some) \subseteq RowsById(fs)
  BY <1>2, EmptyFile DEF RowsById
<1>5. SessionRows(some) \subseteq SessionRows(fs)
  <2>1. \A f \in File : Busy(some[f]) => some[f] = fs[f]
    BY <1>2, EmptyFile
  <2> QED
    BY <2>1 DEF SessionRows
<1>6. OwnSessions(fs) => OwnSessions(some)
  <2> DEFINE none == <<>>
  <2>1. DOMAIN none = {}
    OBVIOUS
  <2> HIDE DEF none
  <2>2. \A f \in File : some[f] = none \/ some[f] = fs[f]
    BY <1>2 DEF none
  <2> QED
    BY <2>1, <2>2 DEF OwnSessions
<1> QED
  BY <1>1, <1>3, <1>4, <1>5, <1>6 DEF some

Resumes == {"claude", "antigravity"}

\* The agent with the log fs: an entry's id says in which file, and as which of
\* its entries, it was written first, and there it still is; with agents that
\* do not resume in a new file that is the file it is in.
EntryIsKnown(k, fs, g, n) ==
  LET e == fs[g][n]
  IN  /\ e.id[1] \in File /\ e.id[2] = n
      /\ n \in DOMAIN fs[e.id[1]] /\ fs[e.id[1]][n] = e
      /\ k \notin Resumes => e.id[1] = g /\ (k # "codex" => e.session = g)

LogInv(k, fs) == \A g \in File : \A n \in DOMAIN fs[g] : EntryIsKnown(k, fs, g, n)

LEMMA FilesAreTyped ==
  ASSUME NEW fs \in Files, NEW g \in File
  PROVE  /\ fs[g] \in Seq(Entry) /\ DOMAIN fs[g] = 1..Len(fs[g]) /\ Len(fs[g]) \in Nat
         /\ \A n \in DOMAIN fs[g] : fs[g][n] \in Entry
<1>1. fs[g] \in Seq(Entry)
  BY DEF Files
<1> QED
  BY <1>1

\* Entries with the same id are the same.
LEMMA IdsAreUnique ==
  ASSUME NEW k, NEW fs \in Files, LogInv(k, fs),
         NEW f \in File, NEW i \in DOMAIN fs[f], NEW h \in File, NEW j \in DOMAIN fs[h],
         fs[f][i].id = fs[h][j].id
  PROVE  fs[f][i] = fs[h][j] /\ i = j /\ (k \notin Resumes => f = h)
BY DEF LogInv, EntryIsKnown

LEMMA RowsHaveUniqueKeys ==
  ASSUME NEW k, NEW fs \in Files, LogInv(k, fs)
  PROVE  UniqueKeys(RowsById(fs))
<1> SUFFICES ASSUME NEW r \in RowsById(fs), NEW q \in RowsById(fs), r.key = q.key PROVE r = q
  BY DEF UniqueKeys
<1>1. PICK f \in File : \E i \in DOMAIN fs[f] : r = RowOf(fs[f][i])
  BY DEF RowsById, RowsOfFile
<1>a. PICK i \in DOMAIN fs[f] : r = RowOf(fs[f][i])
  BY <1>1
<1>2. PICK h \in File : \E j \in DOMAIN fs[h] : q = RowOf(fs[h][j])
  BY DEF RowsById, RowsOfFile
<1>b. PICK j \in DOMAIN fs[h] : q = RowOf(fs[h][j])
  BY <1>2
<1>3. fs[f][i] \in Entry /\ fs[h][j] \in Entry
  BY FilesAreTyped
<1>4. r.key = fs[f][i].id /\ q.key = fs[h][j].id
  BY <1>a, <1>b, <1>3, RowsOfEntries
<1>5. fs[f][i] = fs[h][j]
  <2>1. fs[f][i].id = fs[h][j].id
    BY <1>4
  <2> QED
    BY <2>1, IdsAreUnique
<1> QED
  BY <1>a, <1>b, <1>5

LEMMA TotalsAreTyped ==
  ASSUME NEW es \in Seq(Entry), NEW k \in 0..Len(es), NEW base \in [Session -> Counts],
         NEW s \in Session
  PROVE  TotalsAfter(base, es, k, s) \in Counts
<1> DEFINE js == LinesOf(es, k, s)
<1>1. k \in Nat /\ \A j \in 1..k : j \in 1..Len(es)
  OBVIOUS
<1>2. js # {} => Max(js) \in 1..k
  <2>1. js \in SUBSET (1..k)
    BY DEF LinesOf
  <2> HIDE DEF js
  <2> QED
    BY <1>1, <2>1, MaxInInterval
<1>3. js # {} => es[Max(js)] \in Entry
  BY <1>1, <1>2
<1> QED
  BY <1>3, CountsAreTyped DEF TotalsAfter

LEMMA DeltasAreTyped ==
  ASSUME NEW es \in Seq(Entry), NEW i \in DOMAIN es, NEW base \in [Session -> Counts]
  PROVE  LET d == Delta(base, es, i)
         IN  /\ d \in Row /\ d.key = es[i].id /\ d.turn = es[i].id
             /\ d.in <= es[i].in /\ d.out <= es[i].out
<1> DEFINE last == TotalsAfter(base, es, i - 1, es[i].session)
           e == es[i]
           d == DeltaFrom(e, last)
<1>1. e \in Entry /\ i - 1 \in 0..Len(es)
  OBVIOUS
<1>2. e.session \in Session /\ e.in \in Nat /\ e.out \in Nat
  BY <1>1 DEF Entry
<1>3. last \in Counts
  BY <1>1, <1>2, TotalsAreTyped
<1>4. Delta(base, es, i) = d
  BY DEF Delta
<1> HIDE DEF last, e
<1>5. d \in Row /\ d.key = e.id
  BY <1>1, <1>3, DeltaTyped
<1>6. /\ d.turn = e.id
      /\ d.in = CounterDelta(e.in, last.in) /\ d.out = CounterDelta(e.out, last.out)
  BY DEF DeltaFrom, Event
<1>7. last.in \in Nat /\ last.out \in Nat
  BY <1>3, CountsAreTyped
<1>8. d.in <= e.in /\ d.out <= e.out
  BY <1>2, <1>6, <1>7 DEF CounterDelta
<1> HIDE DEF d
<1> QED
  BY <1>4, <1>5, <1>6, <1>8 DEF e

\* A difference is one of a line, and under the line's id.
LEMMA DeltasAreOfLines ==
  ASSUME BoundAssumption, NEW fs \in Files, NEW r \in Deltas(fs)
  PROVE  \E f \in File : \E i \in DOMAIN fs[f] :
           /\ r = Delta(TotalsUpto(fs, f - 1), fs[f], i)
           /\ r \in Row /\ r.key = fs[f][i].id /\ r.turn = fs[f][i].id
           /\ r.in <= fs[f][i].in /\ r.out <= fs[f][i].out
<1>1. PICK f \in File : r \in DeltasOfFile(TotalsUpto(fs, f - 1), fs[f])
  BY DEF Deltas
<1>2. PICK i \in DOMAIN fs[f] : r = Delta(TotalsUpto(fs, f - 1), fs[f], i)
  BY <1>1 DEF DeltasOfFile
<1>3. fs[f] \in Seq(Entry)
  BY FilesAreTyped
<1>4. TotalsUpto(fs, f - 1) \in [Session -> Counts]
  <2>1. NFiles \in Nat /\ fs \in [1..NFiles -> Seq(Entry)] /\ f - 1 \in 0..NFiles
    BY DEF BoundAssumption, Files, File
  <2> QED
    BY <2>1, TotalsUptoTyped
<1> QED
  BY <1>2, <1>3, <1>4, DeltasAreTyped

LEMMA DeltasHaveUniqueKeys ==
  ASSUME BoundAssumption, NEW k, NEW fs \in Files, LogInv(k, fs), k \notin Resumes
  PROVE  UniqueKeys(Deltas(fs))
<1> SUFFICES ASSUME NEW r \in Deltas(fs), NEW q \in Deltas(fs), r.key = q.key PROVE r = q
  BY DEF UniqueKeys
<1>1. PICK f \in File : \E i \in DOMAIN fs[f] :
        r = Delta(TotalsUpto(fs, f - 1), fs[f], i) /\ r.key = fs[f][i].id
  BY DeltasAreOfLines
<1>a. PICK i \in DOMAIN fs[f] :
        r = Delta(TotalsUpto(fs, f - 1), fs[f], i) /\ r.key = fs[f][i].id
  BY <1>1
<1>2. PICK h \in File : \E j \in DOMAIN fs[h] :
        q = Delta(TotalsUpto(fs, h - 1), fs[h], j) /\ q.key = fs[h][j].id
  BY DeltasAreOfLines
<1>b. PICK j \in DOMAIN fs[h] :
        q = Delta(TotalsUpto(fs, h - 1), fs[h], j) /\ q.key = fs[h][j].id
  BY <1>2
<1>3. f = h /\ i = j
  <2>1. fs[f][i].id = fs[h][j].id
    BY <1>a, <1>b
  <2> QED
    BY <2>1, IdsAreUnique
<1> QED
  BY <1>a, <1>b, <1>3

LEMMA SessionsAreOwn ==
  ASSUME NEW k, NEW fs \in Files, LogInv(k, fs), k \notin Resumes, k # "codex"
  PROVE  OwnSessions(fs)
BY DEF LogInv, EntryIsKnown, OwnSessions

\* A longer file begins with the entries of the shorter one.
LEMMA Longer ==
  ASSUME NEW es \in Seq(Entry), NEW e \in Entry
  PROVE  LET longer == Append(es, e)
             n == Len(es)
         IN  /\ longer \in Seq(Entry) /\ Len(longer) = n + 1
             /\ DOMAIN longer = 1..(n + 1) /\ DOMAIN es = 1..n /\ n \in Nat
             /\ longer[n + 1] = e /\ \A i \in 1..n : longer[i] = es[i]
<1> DEFINE longer == Append(es, e)
<1>1. /\ longer \in Seq(Entry) /\ Len(longer) = Len(es) + 1
      /\ longer[Len(es) + 1] = e /\ \A i \in 1..Len(es) : longer[i] = es[i]
  OBVIOUS
<1>2. DOMAIN longer = 1..(Len(es) + 1) /\ DOMAIN es = 1..Len(es) /\ Len(es) \in Nat
  BY <1>1
<1> QED
  BY <1>1, <1>2

\* The totals after a line do not depend on the lines after it.
LEMMA TotalsAreKept ==
  ASSUME NEW es \in Seq(Entry), NEW e \in Entry, NEW k \in 0..Len(es), NEW base, NEW s
  PROVE  TotalsAfter(base, Append(es, e), k, s) = TotalsAfter(base, es, k, s)
<1> DEFINE longer == Append(es, e)
           js == LinesOf(es, k, s)
<1>1. Len(es) \in Nat /\ \A i \in 1..Len(es) : longer[i] = es[i]
  BY Longer
<1>2. k \in Nat /\ \A i \in 1..k : i \in 1..Len(es)
  BY <1>1
<1> HIDE DEF longer
<1>3. LinesOf(longer, k, s) = js
  BY <1>1, <1>2 DEF LinesOf
<1>4. js # {} => Max(js) \in 1..k
  <2>1. js \in SUBSET (1..k)
    BY DEF LinesOf
  <2> HIDE DEF js
  <2> QED
    BY <1>2, <2>1, MaxInInterval
<1>5. js # {} => longer[Max(js)] = es[Max(js)]
  BY <1>1, <1>2, <1>4
<1>6. TotalsAfter(base, longer, k, s) = TotalsAfter(base, es, k, s)
  BY <1>3, <1>5 DEF TotalsAfter
<1> QED
  BY <1>6 DEF longer

\* Nor do the totals of a session depend on the lines of another.
LEMMA OthersAreKept ==
  ASSUME NEW es \in Seq(Entry), NEW e \in Entry, NEW s, s # e.session
  PROVE  /\ s \in SessionsIn(Append(es, e)) <=> s \in SessionsIn(es)
         /\ s \in SessionsIn(es) => LastCounts(Append(es, e), s) = LastCounts(es, s)
<1> DEFINE longer == Append(es, e)
           n == Len(es)
           js == LinesOf(es, n, s)
<1>1. /\ longer \in Seq(Entry) /\ Len(longer) = n + 1 /\ n \in Nat
      /\ longer[n + 1] = e /\ \A i \in 1..n : longer[i] = es[i]
  BY Longer
<1> HIDE DEF longer, n
<1>2. LinesOf(longer, n + 1, s) = LinesOf(longer, n, s)
  BY <1>1, OneMoreLine
<1>3. LinesOf(longer, n, s) = js
  BY <1>1 DEF LinesOf
<1>4. s \in SessionsIn(longer) <=> LinesOf(longer, n + 1, s) # {}
  BY <1>1, SessionsHaveLines
<1>5. s \in SessionsIn(es) <=> js # {}
  BY SessionsHaveLines DEF n
<1>6. js \in SUBSET (1..n)
  BY DEF LinesOf
<1>7. LinesOf(longer, Len(longer), s) = js
  BY <1>1, <1>2, <1>3
<1>8. js = LinesOf(es, Len(es), s)
  BY DEF n
<1> HIDE DEF js
<1>9. js # {} => longer[Max(js)] = es[Max(js)]
  BY <1>1, <1>6, MaxInInterval
<1>10. js # {} => LastCounts(longer, s) = LastCounts(es, s)
  BY <1>7, <1>8, <1>9 DEF LastCounts
<1> QED
  BY <1>2, <1>3, <1>4, <1>5, <1>10 DEF longer

\* What is read of a turn e that codex writes next in file f.
LastDelta(fs, f, e) == DeltaFrom(e, TotalsUpto(fs, f)[e.session])

LEMMA FileGrows ==
  ASSUME NEW es \in Seq(Entry), NEW e \in Entry
  PROVE  /\ RowsOfFile(Append(es, e)) =
              RowsOfFile(es) \cup (IF SpendsTokens(e) THEN {RowOf(e)} ELSE {})
         /\ \A base : \A d : d = DeltaFrom(e, TotalsAfter(base, es, Len(es), e.session)) =>
              DeltasOfFile(base, Append(es, e)) =
                DeltasOfFile(base, es) \cup (IF SpendsTokens(d) THEN {d} ELSE {})
<1> DEFINE longer == Append(es, e)
           n == Len(es)
<1>1. /\ DOMAIN longer = 1..(n + 1) /\ DOMAIN es = 1..n /\ n \in Nat
      /\ longer[n + 1] = e /\ \A i \in 1..n : longer[i] = es[i]
  BY Longer
<1>2. ASSUME NEW base, NEW i \in 1..n PROVE Delta(base, longer, i) = Delta(base, es, i)
  <2>1. i - 1 \in 0..Len(es)
    BY <1>1
  <2>2. TotalsAfter(base, longer, i - 1, es[i].session) = TotalsAfter(base, es, i - 1, es[i].session)
    BY <2>1, TotalsAreKept
  <2>3. longer[i] = es[i]
    BY <1>1
  <2> HIDE DEF longer
  <2> QED
    BY <2>2, <2>3 DEF Delta
<1>3. ASSUME NEW base
      PROVE  Delta(base, longer, n + 1) = DeltaFrom(e, TotalsAfter(base, es, n, e.session))
  <2>1. n + 1 - 1 = n /\ n \in 0..Len(es)
    BY <1>1
  <2>2. TotalsAfter(base, longer, n, e.session) = TotalsAfter(base, es, n, e.session)
    BY <2>1, TotalsAreKept
  <2> HIDE DEF longer
  <2>3. Delta(base, longer, n + 1) = DeltaFrom(e, TotalsAfter(base, longer, n, e.session))
    BY <1>1, <2>1 DEF Delta
  <2> QED
    BY <2>2, <2>3
<1>4. /\ n + 1 \in 1..(n + 1) /\ \A i \in 1..n : i \in 1..(n + 1)
      /\ \A i \in 1..(n + 1) : i \in 1..n \/ i = n + 1
  BY <1>1
<1>a. n = Len(es)
  OBVIOUS
<1> HIDE DEF longer, n
<1>5. RowsOfFile(longer) = RowsOfFile(es) \cup (IF SpendsTokens(e) THEN {RowOf(e)} ELSE {})
  <2>1. RowsOfFile(longer) \subseteq RowsOfFile(es) \cup (IF SpendsTokens(e) THEN {RowOf(e)} ELSE {})
    BY <1>1, <1>4 DEF RowsOfFile
  <2>2. RowsOfFile(es) \subseteq RowsOfFile(longer)
    BY <1>1, <1>4 DEF RowsOfFile
  <2>3. SpendsTokens(e) => RowOf(e) \in RowsOfFile(longer)
    BY <1>1, <1>4 DEF RowsOfFile
  <2> QED
    BY <2>1, <2>2, <2>3
<1>6. ASSUME NEW base, NEW d, d = DeltaFrom(e, TotalsAfter(base, es, Len(es), e.session))
      PROVE  DeltasOfFile(base, longer) =
               DeltasOfFile(base, es) \cup (IF SpendsTokens(d) THEN {d} ELSE {})
  <2>0. Delta(base, longer, n + 1) = d
    BY <1>3, <1>6, <1>a
  <2>1. DeltasOfFile(base, longer) \subseteq
          DeltasOfFile(base, es) \cup (IF SpendsTokens(d) THEN {d} ELSE {})
    BY <1>1, <1>2, <1>4, <2>0 DEF DeltasOfFile
  <2>2. DeltasOfFile(base, es) \subseteq DeltasOfFile(base, longer)
    BY <1>1, <1>2, <1>4 DEF DeltasOfFile
  <2>3. SpendsTokens(d) => d \in DeltasOfFile(base, longer)
    BY <1>1, <1>4, <2>0 DEF DeltasOfFile
  <2> QED
    BY <2>1, <2>2, <2>3
<1> QED
  BY <1>5, <1>6 DEF longer

Grown(fs, f, e) == [fs EXCEPT ![f] = Append(fs[f], e)]

\* e is what the agent k may write next in file f.
IsNext(k, fs, f, e) ==
  /\ e \in Entry
  /\ e.id = <<f, Len(fs[f]) + 1>>
  /\ IF k = "codex" THEN \A g \in File : e.session \in SessionsIn(fs[g]) => g <= f
     ELSE e.session = f

LEMMA LogGrows ==
  ASSUME NEW k, NEW fs \in Files, LogInv(k, fs), NEW f \in File, NEW e, IsNext(k, fs, f, e)
  PROVE  Grown(fs, f, e) \in Files /\ LogInv(k, Grown(fs, f, e))
<1> DEFINE new == Grown(fs, f, e)
           n == Len(fs[f])
<1>1. e \in Entry /\ e.id = <<f, n + 1>>
  BY DEF IsNext
<1>2. fs[f] \in Seq(Entry) /\ DOMAIN fs[f] = 1..n /\ n \in Nat
  BY FilesAreTyped
<1>3. new[f] = Append(fs[f], e) /\ \A g \in File : g # f => new[g] = fs[g]
  BY DEF Grown, Files
<1>4. /\ DOMAIN new[f] = 1..(n + 1) /\ new[f][n + 1] = e
      /\ \A i \in 1..n : new[f][i] = fs[f][i]
      /\ new[f] \in Seq(Entry)
  BY <1>1, <1>2, <1>3, Longer
<1>5. new \in Files
  BY <1>3, <1>4 DEF Grown, Files
<1> HIDE DEF new, n
<1>6. /\ n + 1 \in 1..(n + 1) /\ \A i \in 1..n : i \in 1..(n + 1)
      /\ \A i \in 1..(n + 1) : i \in 1..n \/ i = n + 1
  BY <1>2
<1>7. \A g \in File : \A i \in DOMAIN fs[g] : i \in DOMAIN new[g] /\ new[g][i] = fs[g][i]
  BY <1>2, <1>3, <1>4, <1>6
<1>8. ASSUME NEW g \in File, NEW i \in DOMAIN fs[g] PROVE EntryIsKnown(k, new, g, i)
  <2>1. EntryIsKnown(k, fs, g, i)
    BY DEF LogInv
  <2> QED
    BY <1>7, <2>1 DEF EntryIsKnown
<1>9. EntryIsKnown(k, new, f, n + 1)
  <2>1. e.id[1] = f /\ e.id[2] = n + 1
    BY <1>1
  <2>2. k # "codex" => e.session = f
    BY DEF IsNext
  <2>3. new[f][n + 1] = e /\ n + 1 \in DOMAIN new[f]
    BY <1>4, <1>6
  <2> QED
    BY <2>1, <2>2, <2>3 DEF EntryIsKnown
<1>10. ASSUME NEW g \in File, NEW i \in DOMAIN new[g] PROVE EntryIsKnown(k, new, g, i)
  <2>1. CASE i \in DOMAIN fs[g]
    BY <1>8, <2>1
  <2>2. CASE i \notin DOMAIN fs[g]
    <3>1. g = f /\ i = n + 1
      BY <1>2, <1>3, <1>4, <1>6, <2>2
    <3> QED
      BY <1>9, <3>1
  <2> QED
    BY <2>1, <2>2
<1>11. LogInv(k, new)
  BY <1>10 DEF LogInv
<1> QED
  BY <1>5, <1>11 DEF new

\* The new entry has an id of its own, and adds its row to what the log is read as.
LEMMA RowsGrow ==
  ASSUME NEW k, NEW fs \in Files, LogInv(k, fs), NEW f \in File, NEW e, IsNext(k, fs, f, e)
  PROVE  /\ RowsById(Grown(fs, f, e)) =
              RowsById(fs) \cup (IF SpendsTokens(e) THEN {RowOf(e)} ELSE {})
         /\ RowOf(e) \notin RowsById(fs)
         /\ \A g \in File : \A i \in DOMAIN fs[g] : fs[g][i].id # e.id
<1> DEFINE new == Grown(fs, f, e)
           n == Len(fs[f])
<1>1. e \in Entry /\ e.id = <<f, n + 1>> /\ e.id[1] = f /\ e.id[2] = n + 1
  BY DEF IsNext
<1>2. fs[f] \in Seq(Entry) /\ DOMAIN fs[f] = 1..n /\ n \in Nat
  BY FilesAreTyped
<1>3. new[f] = Append(fs[f], e) /\ \A g \in File : g # f => new[g] = fs[g]
  BY DEF Grown, Files
<1> DEFINE row == IF SpendsTokens(e) THEN {RowOf(e)} ELSE {}
<1>4. RowsOfFile(new[f]) = RowsOfFile(fs[f]) \cup row
  BY <1>1, <1>2, <1>3, FileGrows
<1> HIDE DEF new, row
<1>6. RowsById(new) = RowsById(fs) \cup row
  BY <1>3, <1>4 DEF RowsById
<1>8. \A g \in File : \A i \in DOMAIN fs[g] : fs[g][i].id # e.id
  <2> SUFFICES ASSUME NEW g \in File, NEW i \in DOMAIN fs[g], fs[g][i].id = e.id PROVE FALSE
    OBVIOUS
  <2>1. fs[g][i].id[2] = i /\ i \in DOMAIN fs[fs[g][i].id[1]]
    BY DEF LogInv, EntryIsKnown
  <2>2. n + 1 \in 1..n
    BY <1>1, <1>2, <2>1
  <2> QED
    BY <1>2, <2>2
<1>9. RowOf(e) \notin RowsById(fs)
  <2> SUFFICES ASSUME RowOf(e) \in RowsById(fs) PROVE FALSE
    OBVIOUS
  <2>1. PICK g \in File : \E i \in DOMAIN fs[g] : RowOf(e) = RowOf(fs[g][i])
    BY DEF RowsById, RowsOfFile
  <2>2. PICK i \in DOMAIN fs[g] : RowOf(e) = RowOf(fs[g][i])
    BY <2>1
  <2>3. fs[g][i] \in Entry
    BY FilesAreTyped
  <2>4. RowOf(e).key = e.id /\ RowOf(fs[g][i]).key = fs[g][i].id
    BY <1>1, <2>3, RowsOfEntries
  <2> QED
    BY <1>8, <2>2, <2>4
<1> QED
  BY <1>6, <1>8, <1>9 DEF new, row

\* A codex line in file f leaves the totals carried to f, and to any later file those
\* of the other sessions.
LEMMA TotalsGrow ==
  ASSUME BoundAssumption, NEW fs \in Files, NEW f \in File, NEW e \in Entry, NEW h \in File,
         NEW s \in Session, h <= f \/ s # e.session
  PROVE  TotalsUpto(Grown(fs, f, e), h - 1)[s] = TotalsUpto(fs, h - 1)[s]
<1> DEFINE new == Grown(fs, f, e)
           hs == Holders(fs, h - 1, s)
<1>1. new[f] = Append(fs[f], e) /\ \A g \in File : g # f => new[g] = fs[g]
  BY DEF Grown, Files
<1>2. fs[f] \in Seq(Entry)
  BY FilesAreTyped
<1>3. \A g \in 1..(h - 1) : g \in File /\ (g = f => ~ (h <= f)) /\ h - 1 \in Nat
  BY DEF File, BoundAssumption
<1> HIDE DEF new
<1>4. ASSUME NEW g \in 1..(h - 1)
      PROVE  /\ s \in SessionsIn(new[g]) <=> s \in SessionsIn(fs[g])
             /\ s \in SessionsIn(fs[g]) => LastCounts(new[g], s) = LastCounts(fs[g], s)
  <2>1. CASE g = f
    <3>1. s # e.session
      BY <1>3, <2>1
    <3> QED
      BY <1>1, <1>2, <2>1, <3>1, OthersAreKept
  <2>2. CASE g # f
    BY <1>1, <1>3, <2>2
  <2> QED
    BY <2>1, <2>2
<1>5. Holders(new, h - 1, s) = hs
  BY <1>4 DEF Holders
<1>6. hs \in SUBSET (1..(h - 1)) /\ h - 1 \in Nat
  BY DEF Holders, File
<1>7. \A g \in hs : LastCounts(new[g], s) = LastCounts(fs[g], s)
  BY <1>4 DEF Holders
<1> HIDE DEF hs
<1>8. hs # {} => LastCounts(new[Max(hs)], s) = LastCounts(fs[Max(hs)], s)
  BY <1>6, <1>7, MaxInInterval
<1> QED
  BY <1>5, <1>8 DEF TotalsUpto, new, hs

\* The new line adds its difference to what the log is read as.
LEMMA DeltasGrow ==
  ASSUME BoundAssumption, NEW fs \in Files, LogInv("codex", fs), NEW f \in File, NEW e,
         IsNext("codex", fs, f, e)
  PROVE  LET d == LastDelta(fs, f, e)
         IN  /\ Deltas(Grown(fs, f, e)) =
                  Deltas(fs) \cup (IF SpendsTokens(d) THEN {d} ELSE {})
             /\ d \notin Deltas(fs) /\ d \in Row
<1> DEFINE new == Grown(fs, f, e)
           d == LastDelta(fs, f, e)
           diff == IF SpendsTokens(d) THEN {d} ELSE {}
<1>1. e \in Entry /\ e.session \in Session
  BY DEF IsNext, Entry
<1>2. fs[f] \in Seq(Entry)
  BY FilesAreTyped
<1>3. new[f] = Append(fs[f], e) /\ \A g \in File : g # f => new[g] = fs[g]
  BY DEF Grown, Files
<1>4. /\ NFiles \in Nat /\ fs \in [1..NFiles -> Seq(Entry)]
      /\ f - 1 \in 0..(NFiles - 1) /\ f \in 0..NFiles /\ f - 1 + 1 = f /\ f \in Int
  BY DEF BoundAssumption, Files, File
<1>5. d = DeltaFrom(e, TotalsAfter(TotalsUpto(fs, f - 1), fs[f], Len(fs[f]), e.session))
  <2>1. TotalsUpto(fs, f) = LastTotals(TotalsUpto(fs, f - 1), fs[f])
    BY <1>4, OneMoreFile
  <2> QED
    BY <1>1, <2>1 DEF LastDelta, LastTotals
<1>6. DeltasOfFile(TotalsUpto(fs, f - 1), new[f]) =
        DeltasOfFile(TotalsUpto(fs, f - 1), fs[f]) \cup diff
  BY <1>1, <1>2, <1>3, <1>5, FileGrows
<1> HIDE DEF d
<1>7. ASSUME NEW h \in File, NEW s \in Session, h <= f \/ s # e.session
      PROVE  TotalsUpto(new, h - 1)[s] = TotalsUpto(fs, h - 1)[s]
  BY <1>1, <1>7, TotalsGrow
<1> HIDE DEF new, diff
<1>8. DeltasOfFile(TotalsUpto(new, f - 1), new[f]) =
        DeltasOfFile(TotalsUpto(fs, f - 1), fs[f]) \cup diff
  <2>1. SessionsIn(new[f]) \subseteq Session
    BY <1>1, <1>2, <1>3, SessionsInTyped, Longer
  <2>2. \A s \in SessionsIn(new[f]) : TotalsUpto(new, f - 1)[s] = TotalsUpto(fs, f - 1)[s]
    BY <1>4, <1>7, <2>1
  <2>3. DeltasOfFile(TotalsUpto(new, f - 1), new[f]) = DeltasOfFile(TotalsUpto(fs, f - 1), new[f])
    BY <2>2, OtherSessions
  <2> QED
    BY <1>6, <2>3
<1>9. ASSUME NEW h \in File, h # f
      PROVE  DeltasOfFile(TotalsUpto(new, h - 1), new[h]) = DeltasOfFile(TotalsUpto(fs, h - 1), fs[h])
  <2>1. SessionsIn(fs[h]) \subseteq Session
    BY FilesAreTyped, SessionsInTyped
  <2>2. \A s \in SessionsIn(fs[h]) : h <= f \/ s # e.session
    BY DEF IsNext
  <2>3. \A s \in SessionsIn(fs[h]) : TotalsUpto(new, h - 1)[s] = TotalsUpto(fs, h - 1)[s]
    BY <1>7, <2>1, <2>2
  <2> QED
    BY <1>3, <1>9, <2>3, OtherSessions
<1>10. Deltas(new) = Deltas(fs) \cup diff
  <2>1. \A h \in File : DeltasOfFile(TotalsUpto(new, h - 1), new[h]) \subseteq Deltas(fs) \cup diff
    BY <1>8, <1>9 DEF Deltas
  <2>2. \A h \in File : DeltasOfFile(TotalsUpto(fs, h - 1), fs[h]) \subseteq Deltas(new)
    BY <1>8, <1>9 DEF Deltas
  <2>3. diff \subseteq Deltas(new)
    BY <1>8 DEF Deltas
  <2> QED
    BY <2>1, <2>2, <2>3 DEF Deltas
<1>11. d \in Row /\ d.key = e.id
  <2>1. TotalsUpto(fs, f)[e.session] \in Counts
    BY <1>1, <1>4, TotalsUptoTyped
  <2> QED
    BY <1>1, <2>1, DeltaTyped DEF d, LastDelta
<1>12. d \notin Deltas(fs)
  <2> SUFFICES ASSUME d \in Deltas(fs) PROVE FALSE
    OBVIOUS
  <2>1. PICK g \in File : \E i \in DOMAIN fs[g] : d.key = fs[g][i].id
    BY DeltasAreOfLines
  <2>2. \A i \in DOMAIN fs[g] : fs[g][i].id # e.id
    BY RowsGrow, ZenonT(60)
  <2> QED
    BY <1>11, <2>1, <2>2
<1> QED
  BY <1>10, <1>11, <1>12 DEF new, diff, d

\* A resumed session's file adds no row to those of the file it repeats.
LEMMA LogIsResumed ==
  ASSUME NEW k \in Resumes, NEW fs \in Files, LogInv(k, fs),
         NEW f \in File, NEW g \in File, fs[f] # <<>>, fs[g] = <<>>
  PROVE  LET new == [fs EXCEPT ![g] = fs[f]]
         IN  new \in Files /\ LogInv(k, new) /\ RowsById(new) = RowsById(fs)
<1> DEFINE new == [fs EXCEPT ![g] = fs[f]]
<1>1. f # g /\ new \in Files
  BY DEF Files
<1>2. new[g] = fs[f] /\ \A h \in File : h # g => new[h] = fs[h]
  BY DEF Files
<1>3. DOMAIN fs[g] = {} /\ RowsOfFile(fs[g]) = {}
  <2>1. DOMAIN <<>> = {}
    OBVIOUS
  <2> QED
    BY <2>1, EmptyFile
<1> HIDE DEF new
<1>4. ASSUME NEW h \in File, NEW n \in DOMAIN fs[h] PROVE EntryIsKnown(k, new, h, n)
  <2>1. EntryIsKnown(k, fs, h, n)
    BY DEF LogInv
  <2>2. fs[h][n].id[1] # g /\ h # g
    BY <1>3, <2>1 DEF EntryIsKnown
  <2> QED
    BY <1>2, <2>1, <2>2 DEF EntryIsKnown
<1>5. ASSUME NEW n \in DOMAIN fs[f] PROVE EntryIsKnown(k, new, g, n)
  <2>1. EntryIsKnown(k, new, f, n) /\ new[f] = new[g]
    BY <1>1, <1>2, <1>4
  <2> QED
    BY <2>1 DEF EntryIsKnown, Resumes
<1>6. LogInv(k, new)
  BY <1>2, <1>4, <1>5 DEF LogInv
<1>7. RowsById(new) = RowsById(fs)
  <2>1. \A h \in File : RowsOfFile(new[h]) \subseteq RowsById(fs)
    BY <1>2 DEF RowsById
  <2>2. \A h \in File : RowsOfFile(fs[h]) \subseteq RowsById(new)
    BY <1>2, <1>3 DEF RowsById
  <2> QED
    BY <2>1, <2>2 DEF RowsById
<1> QED
  BY <1>1, <1>6, <1>7 DEF new

-----------------------------------------------------------------------------
(* The states of an agent and its rows. *)

\* What reading all the logs gives, but for the agent with one row a session.
EventsOf(k, fs) ==
  IF k = "codex" THEN Deltas(fs) ELSE IF k \in Resumes THEN RowsById(fs) ELSE {}
Events == EventsOf(kind, files)

\* The same of the files that claude's adapter can read.
Readable == EventsOf(kind, IF kind = "claude" THEN Without(files, overlong) ELSE files)

TypeInv ==
  /\ kind \in Kinds
  /\ files \in Files
  /\ LogInv(kind, files)
  /\ table \in SUBSET Row /\ IsFiniteSet(table)
  /\ spent \in Nat
  /\ current \in BOOLEAN /\ unnoticed \in BOOLEAN /\ cut \in BOOLEAN

LEMMA EventsAreTyped ==
  ASSUME BoundAssumption, NEW k, NEW fs \in Files, LogInv(k, fs)
  PROVE  /\ EventsOf(k, fs) \in SUBSET Row /\ UniqueKeys(EventsOf(k, fs))
         /\ \A r \in EventsOf(k, fs) : r.key = r.turn
<1> DEFINE events == EventsOf(k, fs)
<1>1. CASE k = "codex"
  <2>1. events = Deltas(fs) /\ k \notin Resumes
    BY <1>1 DEF EventsOf, Resumes
  <2>2. UniqueKeys(Deltas(fs))
    BY <2>1, DeltasHaveUniqueKeys
  <2>3. \A r \in Deltas(fs) : r \in Row /\ r.key = r.turn
    BY DeltasAreOfLines
  <2> QED
    BY <2>1, <2>2, <2>3
<1>2. CASE k \in Resumes
  <2>1. events = RowsById(fs)
    BY <1>2 DEF EventsOf, Resumes
  <2>2. UniqueKeys(RowsById(fs))
    BY RowsHaveUniqueKeys
  <2>3. \A r \in RowsById(fs) : r \in Row /\ r.key = r.turn
    <3> TAKE r \in RowsById(fs)
    <3>1. PICK f \in File : \E i \in DOMAIN fs[f] : r = RowOf(fs[f][i])
      BY DEF RowsById, RowsOfFile
    <3>2. PICK i \in DOMAIN fs[f] : r = RowOf(fs[f][i])
      BY <3>1
    <3>3. fs[f][i] \in Entry
      BY FilesAreTyped
    <3> QED
      BY <3>2, <3>3, RowsOfEntries DEF RowOf, Event
  <2> QED
    BY <2>1, <2>2, <2>3
<1>3. CASE k # "codex" /\ k \notin Resumes
  BY <1>3 DEF EventsOf, UniqueKeys
<1> QED
  BY <1>1, <1>2, <1>3

LEMMA EmitLemma ==
  ASSUME BoundAssumption, KindsAssumption, "gemini" \notin Kinds, TypeInv, NEW skipped
  PROVE  LET es == Emit(Without(files, skipped))
         IN  /\ es \in Seq(Row) /\ \A e \in ToSet(es) : e.key = e.turn
             /\ kind # "copilot" /\ ~ Cuts(skipped) => ToSet(es) \subseteq Events
             /\ kind # "copilot" /\ skipped = {} => ToSet(es) = Readable
             /\ kind = "copilot" => ToSet(es) \subseteq SessionRows(files)
             /\ kind = "copilot" /\ skipped = {} => ToSet(es) = SessionRows(files)
<1> DEFINE read == Without(files, skipped)
           es == Emit(read)
<1>0. files \in Files /\ LogInv(kind, files)
  BY DEF TypeInv
<1>1. kind \in {"claude", "codex", "antigravity", "copilot", "cursor"}
  BY DEF TypeInv, KindsAssumption
<1>2. UniqueKeys(RowsById(files)) /\ \A r \in Events : r.key = r.turn
  BY <1>0, RowsHaveUniqueKeys, EventsAreTyped DEF Events
<1>3. /\ read \in Files /\ RowsById(read) \subseteq RowsById(files)
      /\ SessionRows(read) \subseteq SessionRows(files)
      /\ OwnSessions(files) => OwnSessions(read)
      /\ skipped = {} => read = files
  BY <1>0, FewerFiles
<1>a. read = Without(files, skipped)
  OBVIOUS
<1> HIDE DEF read
<1>4. CASE kind = "claude"
  <2> DEFINE some == Scanned(read)
  <2>1. some = Without(read, overlong)
    BY DEF Scanned, Without
  <2>2. some \in Files /\ RowsById(some) \subseteq RowsById(read)
    BY <1>3, <2>1, FewerFiles
  <2>3. skipped = {} => Readable = RowsById(some)
    BY <1>3, <1>4, <2>1 DEF Readable, EventsOf, Resumes
  <2> HIDE DEF some
  <2>4. UniqueKeys(RowsById(some))
    BY <1>2, <1>3, <2>2 DEF UniqueKeys
  <2>5. ByEntryId(some) \in Seq(Row) /\ ToSet(ByEntryId(some)) = RowsById(some)
    BY <2>2, <2>4, ByEntryIdLemma
  <2>6. es = ByEntryId(some) /\ Events = RowsById(files)
    BY <1>4 DEF Emit, Events, EventsOf, Resumes, some
  <2> HIDE DEF es
  <2> QED
    BY <1>2, <1>3, <1>4, <2>2, <2>3, <2>5, <2>6 DEF es, read
<1>5. CASE kind = "antigravity"
  <2>1. UniqueKeys(RowsById(read))
    BY <1>2, <1>3 DEF UniqueKeys
  <2>2. ByEntryId(read) \in Seq(Row) /\ ToSet(ByEntryId(read)) = RowsById(read)
    BY <1>3, <2>1, ByEntryIdLemma
  <2>3. es = ByEntryId(read) /\ Events = RowsById(files) /\ Readable = RowsById(files)
    BY <1>5 DEF Emit, Events, Readable, EventsOf, Resumes
  <2> HIDE DEF es
  <2> QED
    BY <1>2, <1>3, <1>5, <2>2, <2>3 DEF es, read
<1>6. CASE kind = "codex"
  <2>1. ByCounter(read) \in Seq(Row) /\ ToSet(ByCounter(read)) = Deltas(read)
    BY <1>3, ByCounterLemma
  <2>2. es = ByCounter(read) /\ Events = Deltas(files) /\ Readable = Deltas(files)
    BY <1>6 DEF Emit, Events, Readable, EventsOf
  <2>3. \A r \in Deltas(read) : r.key = r.turn
    BY <1>3, DeltasAreOfLines
  <2>4. ~ Cuts(skipped) => Deltas(read) \subseteq Deltas(files)
    <3> SUFFICES ASSUME ~ Cuts(skipped) PROVE Deltas(read) \subseteq Deltas(files)
      OBVIOUS
    <3>1. ASSUME NEW f \in File, NEW g \in File, g < f, g \in skipped, f \notin skipped
          PROVE  SessionsIn(files[f]) \cap SessionsIn(files[g]) = {}
      <4> SUFFICES ASSUME NEW s \in SessionsIn(files[f]), s \in SessionsIn(files[g]) PROVE FALSE
        OBVIOUS
      <4>1. s \in Session
        BY <1>0, FilesAreTyped, SessionsInTyped
      <4>2. g \in FilesOf(s) \cap skipped /\ f \in FilesOf(s) \ skipped
        BY <3>1 DEF FilesOf
      <4> QED
        BY <1>6, <3>1, <4>1, <4>2 DEF Cuts
    <3>2. NoneCut(files, skipped)
      BY <3>1 DEF NoneCut
    <3> QED
      BY <1>0, <1>a, <3>2, FewerLines
  <2> HIDE DEF es
  <2> QED
    BY <1>3, <1>6, <2>1, <2>2, <2>3, <2>4 DEF es, read
<1>7. CASE kind = "copilot"
  <2>1. OwnSessions(read)
    BY <1>0, <1>3, <1>7, SessionsAreOwn DEF Resumes
  <2>2. BySession(read) \in Seq(Row) /\ ToSet(BySession(read)) = SessionRows(read)
    BY <1>3, <2>1, BySessionLemma
  <2>3. es = BySession(read)
    BY <1>7 DEF Emit
  <2>4. \A r \in SessionRows(files) : r.key = r.turn
    BY DEF SessionRows, SessionRow, Event
  <2> HIDE DEF es
  <2> QED
    BY <1>3, <1>7, <2>2, <2>3, <2>4 DEF es, read
<1>8. CASE kind = "cursor"
  <2>1. es = <<>> /\ Events = {} /\ Readable = {}
    BY <1>8 DEF Emit, ParseCursorValue, Events, Readable, EventsOf, Resumes
  <2>2. ToSet(<<>>) = {} /\ <<>> \in Seq(Row)
    BY DEF ToSet
  <2> HIDE DEF es
  <2> QED
    BY <1>8, <2>1, <2>2 DEF es, read
<1> QED
  BY <1>1, <1>4, <1>5, <1>6, <1>7, <1>8

LEMMA FilesAreCounted ==
  ASSUME BoundAssumption, NEW fs \in Files
  PROVE  /\ NFiles \in Nat /\ fs \in [1..NFiles -> Seq(Entry)]
         /\ \A f \in File : f \in 0..NFiles /\ f - 1 \in 0..NFiles
BY DEF BoundAssumption, Files, File

LEMMA CounterTyped ==
  ASSUME BoundAssumption, files \in Files, NEW s
  PROVE  /\ FilesOf(s) # {} =>
              /\ Max(FilesOf(s)) \in FilesOf(s) /\ s \in SessionsIn(files[Max(FilesOf(s))])
              /\ CounterOf(s) = LastCounts(files[Max(FilesOf(s))], s)
         /\ CounterOf(s) \in Counts
<1>1. FilesOf(s) \in SUBSET (1..NFiles) /\ NFiles \in Nat
  BY DEF FilesOf, File, BoundAssumption
<1>2. ASSUME FilesOf(s) # {}
      PROVE  /\ Max(FilesOf(s)) \in FilesOf(s) /\ s \in SessionsIn(files[Max(FilesOf(s))])
             /\ CounterOf(s) = LastCounts(files[Max(FilesOf(s))], s)
             /\ CounterOf(s) \in Counts
  <2> DEFINE m == Max(FilesOf(s))
             es == files[m]
  <2>1. m \in FilesOf(s)
    BY <1>1, <1>2, MaxInInterval
  <2>2. m \in File /\ s \in SessionsIn(files[m])
    BY <2>1 DEF FilesOf
  <2>3. es \in Seq(Entry)
    BY <2>2, FilesAreTyped
  <2>4. LinesOf(es, Len(es), s) = {i \in DOMAIN es : es[i].session = s}
    BY <2>3, SessionsHaveLines
  <2>5. CounterOf(s) = LastCounts(es, s)
    BY <1>2, <2>4 DEF CounterOf, LastCounts, CountsOf
  <2>6. LastCounts(es, s) \in Counts
    BY <2>2, <2>3, LastCountsTyped
  <2> QED
    BY <2>1, <2>2, <2>5, <2>6
<1>3. FilesOf(s) = {} => CounterOf(s) \in Counts
  BY CountsAreTyped DEF CounterOf
<1> QED
  BY <1>2, <1>3

\* If no later file has the session, its counter is in the totals carried so far.
LEMMA CounterIs ==
  ASSUME BoundAssumption, files \in Files, NEW f \in File, NEW s \in Session,
         \A g \in FilesOf(s) : g <= f
  PROVE  CounterOf(s) = TotalsUpto(files, f)[s]
<1>1. \A h \in File : h <= f => h \in 1..f
  BY DEF File, BoundAssumption
<1>2. \A h \in 1..f : h \in File
  BY DEF File, BoundAssumption
<1>3. Holders(files, f, s) = FilesOf(s)
  <2>1. \A h : h \in Holders(files, f, s) <=> h \in FilesOf(s)
    BY <1>1, <1>2 DEF Holders, FilesOf
  <2> QED
    BY <2>1
<1>4. CASE FilesOf(s) = {}
  BY <1>3, <1>4 DEF TotalsUpto, CounterOf
<1>5. CASE FilesOf(s) # {}
  BY <1>3, <1>5, CounterTyped DEF TotalsUpto
<1> QED
  BY <1>4, <1>5

\* What is read from a counter that may have been restarted.
LEMMA ReadFromCounter ==
  ASSUME NEW old \in Nat, NEW new \in Nat, NEW restarted \in BOOLEAN
  PROVE  LET before == IF restarted THEN 0 ELSE old
             read == CounterDelta(before + new, old)
         IN  /\ read \in Nat /\ read <= new
             /\ ~ (restarted /\ Overtaken(old, new)) => read = new
<1>1. CASE restarted
  BY <1>1 DEF CounterDelta, Overtaken
<1>2. CASE ~ restarted
  BY <1>2 DEF CounterDelta
<1> QED
  BY <1>1, <1>2

\* A turn adds an entry, from which its tokens are read, or fewer if a reset has
\* gone unnoticed.
LEMMA WrittenEntry ==
  ASSUME BoundAssumption, TypeInv, NEW f \in File, NEW in \in Tokens, NEW out \in Tokens,
         NEW s \in SessionsOf(f), NEW restarted \in BOOLEAN,
         WriteTurn(f, s, in, out, restarted)
  PROVE  \E e : /\ IsNext(kind, files, f, e) /\ files' = Grown(files, f, e)
                /\ kind # "codex" => e.in = in /\ e.out = out /\ e.session = f
                /\ LET d == LastDelta(files, f, e)
                   IN  kind = "codex" =>
                         /\ d.in \in Nat /\ d.out \in Nat
                         /\ d.in <= in /\ d.out <= out
                         /\ ~ unnoticed' => d.in = in /\ d.out = out
<1> DEFINE n == Len(files[f])
           counter == IF kind = "codex" THEN CounterOf(s) ELSE Zero
           before == IF restarted THEN Zero ELSE counter
           e == [id |-> <<f, n + 1>>, session |-> s, in |-> before.in + in, out |-> before.out + out]
<1>1. in \in Nat /\ out \in Nat
  BY DEF Tokens, BoundAssumption
<1>2. files \in Files /\ n \in Nat
  BY FilesAreTyped DEF TypeInv
<1>3. counter \in Counts
  BY <1>2, CounterTyped, CountsAreTyped
<1>4. counter.in \in Nat /\ counter.out \in Nat
  BY <1>3, CountsAreTyped
<1>5. Zero.in = 0 /\ Zero.out = 0
  BY DEF Zero
<1>6. /\ before.in = IF restarted THEN 0 ELSE counter.in
      /\ before.out = IF restarted THEN 0 ELSE counter.out
  BY <1>5
<1>7. kind # "codex" => s = f
  BY DEF SessionsOf
<1>8. s \in Session
  BY DEF SessionsOf, Session, File
<1>b. kind = "codex" => \A g \in FilesOf(s) : g <= f
  BY DEF WriteTurn
<1>9. e.id = <<f, n + 1>> /\ e.session = s /\ e.in = before.in + in /\ e.out = before.out + out
  OBVIOUS
<1>10. files' = Grown(files, f, e)
  BY DEF WriteTurn, Grown
<1>11. kind # "codex" => ~ restarted
  BY DEF WriteTurn
<1>12. unnoticed' = (unnoticed \/ (restarted /\ (Overtaken(counter.in, in) \/ Overtaken(counter.out, out))))
  BY DEF WriteTurn
<1> HIDE DEF counter, before, e
<1>13. before.in \in Nat /\ before.out \in Nat
  BY <1>4, <1>6
<1>14. e \in Entry
  <2>1. e.in \in Nat /\ e.out \in Nat
    BY <1>1, <1>9, <1>13
  <2>2. e.id \in Id
    BY <1>2, <1>9 DEF Id
  <2>3. e = [id |-> e.id, session |-> e.session, in |-> e.in, out |-> e.out]
    BY DEF e
  <2> QED
    BY <1>8, <1>9, <2>1, <2>2, <2>3 DEF Entry
<1>15. IsNext(kind, files, f, e)
  BY <1>7, <1>9, <1>14, <1>b DEF IsNext, FilesOf
<1>16. kind # "codex" => e.in = in /\ e.out = out /\ e.session = f
  <2>1. kind # "codex" => before.in = 0 /\ before.out = 0
    BY <1>5, <1>6 DEF counter
  <2> QED
    BY <1>1, <1>7, <1>9, <2>1
<1>17. ASSUME kind = "codex"
       PROVE  LET d == LastDelta(files, f, e)
              IN  /\ d.in \in Nat /\ d.out \in Nat
                  /\ d.in <= in /\ d.out <= out
                  /\ ~ unnoticed' => d.in = in /\ d.out = out
  <2> DEFINE d == LastDelta(files, f, e)
  <2>1. counter = TotalsUpto(files, f)[s]
    BY <1>2, <1>8, <1>17, <1>b, CounterIs DEF counter
  <2>2. d = DeltaFrom(e, counter)
    BY <1>9, <2>1 DEF LastDelta
  <2>3. /\ d.in = CounterDelta(before.in + in, counter.in)
        /\ d.out = CounterDelta(before.out + out, counter.out)
    BY <1>9, <2>2 DEF DeltaFrom, Event
  <2> HIDE DEF d
  <2> DEFINE old == counter.in
             oldout == counter.out
             b == before.in
             bout == before.out
  <2>4. b = (IF restarted THEN 0 ELSE old) /\ bout = IF restarted THEN 0 ELSE oldout
    BY <1>6
  <2>5. d.in = CounterDelta(b + in, old) /\ d.out = CounterDelta(bout + out, oldout)
    BY <2>3
  <2>6. old \in Nat /\ oldout \in Nat
    BY <1>4
  <2>7. unnoticed' = (unnoticed \/ (restarted /\ (Overtaken(old, in) \/ Overtaken(oldout, out))))
    BY <1>12
  <2> HIDE DEF old, oldout, b, bout
  <2>8. d.in \in Nat /\ d.in <= in /\ (~ (restarted /\ Overtaken(old, in)) => d.in = in)
    BY <1>1, <2>4, <2>5, <2>6, ReadFromCounter
  <2>9. d.out \in Nat /\ d.out <= out /\ (~ (restarted /\ Overtaken(oldout, out)) => d.out = out)
    BY <1>1, <2>4, <2>5, <2>6, ReadFromCounter
  <2>10. ~ unnoticed' => d.in = in /\ d.out = out
    BY <2>7, <2>8, <2>9
  <2> QED
    BY <2>8, <2>9, <2>10 DEF d
<1> QED
  BY <1>10, <1>15, <1>16, <1>17

\* Of an agent with one row a session: the tokens of each session.
SessionTokens(fs) == [f \in File |-> InOf(fs[f]) + OutOf(fs[f])]

\* A row is within the running totals of the codex line it is named for.
WithinLine(r, fs) ==
  \E f \in File : \E i \in DOMAIN fs[f] :
    r.key = fs[f][i].id /\ r.in <= fs[f][i].in /\ r.out <= fs[f][i].out

\* A row has a key of its own, which is its turn, and is what reading the logs
\* now gives; once everything has been read there is nothing else that can be read.
RowInv ==
  /\ UniqueKeys(table) /\ \A r \in table : r.key = r.turn
  /\ kind = "codex" => \A r \in table : WithinLine(r, files)
  /\ cut => kind = "codex"
  /\ kind # "copilot" /\ ~ cut => table \subseteq Events
  /\ kind # "copilot" /\ ~ cut /\ current => Readable \subseteq table

\* What reading the logs gives is what was spent, but for resets that went
\* unnoticed, of which less is read.
SpentInv ==
  /\ IsFiniteSet(Events)
  /\ TotalOf(Events) <= spent
  /\ kind \notin {"copilot", "cursor"} /\ ~ unnoticed => TotalOf(Events) = spent

\* No row of a session is above its tokens now, and all together were spent.
SessionInv ==
  kind = "copilot" =>
    /\ \E F : Additive(F, File, SessionTokens(files)) /\ F[File] <= spent
    /\ \A r \in table : \E f \in File :
         /\ r.key = <<f, 0>> /\ r.in + r.out # 0
         /\ r.in <= InOf(files[f]) /\ r.out <= OutOf(files[f])

IInv == TypeInv /\ RowInv /\ SpentInv /\ SessionInv

LEMMA FileIsFinite ==
  ASSUME BoundAssumption
  PROVE  IsFiniteSet(File)
BY FS_Interval DEF BoundAssumption, File

LEMMA SessionTokensAreWeights ==
  ASSUME NEW fs \in Files
  PROVE  IsWeight(SessionTokens(fs), File)
<1>1. \A f \in File : InOf(fs[f]) + OutOf(fs[f]) \in Nat
  <2> TAKE f \in File
  <2>1. InOf(fs[f]) \in Nat /\ OutOf(fs[f]) \in Nat
    BY FilesAreTyped, OneMoreEntry
  <2> QED
    BY <2>1
<1> QED
  BY <1>1 DEF IsWeight, SessionTokens

\* A sum with one weight that has grown.
LEMMA OneWeightMore ==
  ASSUME NEW S, IsFiniteSet(S), NEW x \in S, NEW w, IsWeight(w, S), NEW v, IsWeight(v, S),
         NEW more \in Nat, v[x] = w[x] + more, \A y \in S : y # x => v[y] = w[y],
         NEW f, Additive(f, S, w), NEW g, Additive(g, S, v)
  PROVE  g[S] = f[S] + more
<1> DEFINE u == [y \in S |-> IF y = x THEN more ELSE 0]
<1>1. IsWeight(u, S) /\ u[x] = more /\ \A y \in S \ {x} : u[y] = 0
  BY DEF IsWeight
<1>2. \A y \in S : v[y] = w[y] + u[y]
  <2>1. \A y \in S : w[y] \in Nat
    BY DEF IsWeight
  <2> QED
    BY <2>1
<1> HIDE DEF u
<1>4. PICK h : Additive(h, S, u)
  BY <1>1, AdditiveExists
<1>5. \A s \in SUBSET S : g[s] = f[s] + h[s]
  BY <1>1, <1>2, <1>4, SumOfSums
<1>6. h[S \ {x}] = 0
  <2> DEFINE t == S \ {x}
  <2>1. t \in SUBSET S /\ \A y \in t : u[y] = 0
    BY <1>1
  <2> HIDE DEF t
  <2>2. h[t] = 0
    BY <1>4, <2>1, SumOfZeros
  <2> QED
    BY <2>2 DEF t
<1>7. h[S] = more + h[S \ {x}]
  BY <1>1, <1>4 DEF Additive
<1>8. h[S] = more
  BY <1>6, <1>7
<1> QED
  BY <1>5, <1>8

\* What is read of a new turn, and what the turn cost.
LEMMA AddedRow ==
  ASSUME NEW rows \in SUBSET Row, IsFiniteSet(rows), NEW cost \in Nat, TotalOf(rows) <= cost,
         NEW r \in Row, r \notin rows, NEW in \in Nat, NEW out \in Nat, r.in <= in, r.out <= out,
         NEW all, all = rows \cup (IF SpendsTokens(r) THEN {r} ELSE {})
  PROVE  /\ IsFiniteSet(all) /\ TotalOf(all) <= cost + in + out
         /\ TotalOf(rows) = cost /\ r.in = in /\ r.out = out => TotalOf(all) = cost + in + out
<1>1. TotalOf(rows) \in Nat /\ r.in \in Nat /\ r.out \in Nat
  BY TotalFacts DEF Row
<1>2. CASE SpendsTokens(r)
  <2>1. all = rows \cup {r}
    BY <1>2
  <2>2. IsFiniteSet(all)
    BY <2>1, FS_AddElement
  <2>3. TotalOf(all) = TotalOf(rows) + r.in + r.out
    BY <2>1, OneMoreRow
  <2> QED
    BY <1>1, <2>2, <2>3
<1>3. CASE ~ SpendsTokens(r)
  <2>1. all = rows
    BY <1>3
  <2>2. r.in = 0 /\ r.out = 0
    BY <1>1, <1>3 DEF SpendsTokens
  <2>3. TotalOf(all) = TotalOf(rows) /\ IsFiniteSet(all)
    BY <2>1
  <2> QED
    BY <1>1, <2>2, <2>3
<1> QED
  BY <1>2, <1>3

-----------------------------------------------------------------------------
(* The steps. *)

LEMMA InitHolds ==
  ASSUME BoundAssumption, Init
  PROVE  IInv
<1>1. /\ kind \in Kinds /\ table = {} /\ spent = 0 /\ current = TRUE /\ unnoticed = FALSE
      /\ cut = FALSE /\ overlong = {}
      /\ files = [f \in File |-> <<>>]
  BY DEF Init
<1>2. files \in Files /\ \A f \in File : files[f] = <<>>
  <2>1. <<>> \in Seq(Entry)
    OBVIOUS
  <2> QED
    BY <1>1, <2>1 DEF Files
<1> DEFINE none == <<>>
<1>3. DOMAIN none = {}
  OBVIOUS
<1>4. \A f \in File : files[f] = none
  BY <1>2
<1> HIDE DEF none
<1>5. LogInv(kind, files)
  BY <1>3, <1>4 DEF LogInv
<1>6. Events = {} /\ Readable = {}
  <2>1. \A f \in File : Without(files, overlong)[f] = <<>>
    BY <1>1, <1>2 DEF Without
  <2> QED
    BY <1>2, <2>1, EmptyFile DEF Events, Readable, EventsOf, RowsById, Deltas
<1>7. IsFiniteSet({})
  BY FS_EmptySet
<1>8. TypeInv
  BY <1>1, <1>2, <1>5, <1>7 DEF TypeInv
<1>9. RowInv
  BY <1>1, <1>6 DEF RowInv, UniqueKeys
<1>10. TotalOf({}) = 0
  BY <1>7, TotalFacts
<1>11. SpentInv
  BY <1>1, <1>6, <1>7, <1>10 DEF SpentInv
<1>12. SessionInv
  <2> DEFINE w == SessionTokens(files)
  <2>1. IsWeight(w, File) /\ IsFiniteSet(File)
    BY <1>2, SessionTokensAreWeights, FileIsFinite
  <2>2. \A f \in File : w[f] = 0
    <3> TAKE f \in File
    <3>1. InOf(files[f]) = 0 /\ OutOf(files[f]) = 0
      BY <1>2, FilesAreTyped, OneMoreEntry
    <3> QED
      BY <3>1 DEF SessionTokens
  <2> HIDE DEF w
  <2>3. PICK F : Additive(F, File, w)
    BY <2>1, AdditiveExists
  <2>4. File \in SUBSET File
    OBVIOUS
  <2>5. F[File] = 0
    BY <2>1, <2>2, <2>3, <2>4, SumOfZeros
  <2>6. \E G : Additive(G, File, w) /\ G[File] <= spent
    BY <1>1, <2>3, <2>5
  <2> QED
    BY <1>1, <2>6 DEF SessionInv, w
<1> QED
  BY <1>8, <1>9, <1>11, <1>12 DEF IInv

\* Lines stay as they are when another is written.
LEMMA LinesStay ==
  ASSUME NEW fs \in Files, NEW f \in File, NEW e \in Entry, NEW r, WithinLine(r, fs)
  PROVE  WithinLine(r, Grown(fs, f, e))
<1> DEFINE new == Grown(fs, f, e)
<1>1. PICK g \in File : \E i \in DOMAIN fs[g] :
        r.key = fs[g][i].id /\ r.in <= fs[g][i].in /\ r.out <= fs[g][i].out
  BY DEF WithinLine
<1>2. PICK i \in DOMAIN fs[g] :
        r.key = fs[g][i].id /\ r.in <= fs[g][i].in /\ r.out <= fs[g][i].out
  BY <1>1
<1>3. i \in DOMAIN new[g] /\ new[g][i] = fs[g][i]
  <2>1. fs[g] \in Seq(Entry)
    BY FilesAreTyped
  <2>2. new[g] = IF g = f THEN Append(fs[g], e) ELSE fs[g]
    BY DEF Grown, Files
  <2> HIDE DEF new
  <2> QED
    BY <2>1, <2>2
<1> HIDE DEF new
<1>4. WithinLine(r, new)
  BY <1>2, <1>3 DEF WithinLine
<1> QED
  BY <1>4 DEF new

\* Whatever codex files are skipped, what is read of a line is within its totals.
LEMMA EmittedRowsAreOfLines ==
  ASSUME BoundAssumption, TypeInv, kind = "codex", NEW skipped
  PROVE  \A r \in ToSet(Emit(Without(files, skipped))) : WithinLine(r, files)
<1> DEFINE read == Without(files, skipped)
           es == Emit(read)
<1>1. read \in Files /\ \A f \in File : read[f] = <<>> \/ read[f] = files[f]
  BY FewerFiles DEF TypeInv, Without
<1>2. es = ByCounter(read)
  BY DEF Emit
<1> HIDE DEF es, read
<1>3. ToSet(es) = Deltas(read)
  BY <1>1, <1>2, ByCounterLemma
<1>4. ASSUME NEW r \in ToSet(es) PROVE WithinLine(r, files)
  <2>1. PICK f \in File : \E i \in DOMAIN read[f] :
          r.key = read[f][i].id /\ r.in <= read[f][i].in /\ r.out <= read[f][i].out
    BY <1>1, <1>3, DeltasAreOfLines
  <2>2. read[f] = files[f]
    <3>1. DOMAIN <<>> = {}
      OBVIOUS
    <3> QED
      BY <1>1, <2>1, <3>1
  <2> QED
    BY <2>1, <2>2 DEF WithinLine
<1> QED
  BY <1>4 DEF es, read

LEMMA StutterHolds ==
  ASSUME IInv, UNCHANGED vars
  PROVE  IInv'
BY DEF IInv, vars, TypeInv, RowInv, SpentInv, SessionInv, Events, Readable

LEMMA LongLineHolds ==
  ASSUME IInv, NEW f \in File, WriteLongLine(f)
  PROVE  IInv'
<1>1. UNCHANGED <<kind, files, table, spent, unnoticed, cut>> /\ current' = FALSE
  BY DEF WriteLongLine
<1>2. Events' = Events
  BY <1>1 DEF Events
<1>3. TypeInv' /\ SessionInv'
  BY <1>1 DEF IInv, TypeInv, SessionInv
<1>4. RowInv' /\ SpentInv'
  BY <1>1, <1>2 DEF IInv, RowInv, SpentInv
<1> QED
  BY <1>3, <1>4 DEF IInv

LEMMA ResumeHolds ==
  ASSUME IInv, NEW f \in File, NEW g \in File, ResumeInNewFile(f, g)
  PROVE  IInv'
<1>1. /\ UNCHANGED <<kind, table, spent, unnoticed, cut>> /\ current' = FALSE
      /\ kind \in Resumes /\ files[f] # <<>> /\ files[g] = <<>>
      /\ files' = [files EXCEPT ![g] = files[f]]
  BY DEF ResumeInNewFile, Resumes
<1>2. files \in Files /\ LogInv(kind, files)
  BY DEF IInv, TypeInv
<1>3. files' \in Files /\ LogInv(kind, files') /\ RowsById(files') = RowsById(files)
  BY <1>1, <1>2, LogIsResumed
<1>4. Events' = Events
  BY <1>1, <1>3 DEF Events, EventsOf, Resumes
<1>5. TypeInv'
  BY <1>1, <1>3 DEF IInv, TypeInv
<1>6. RowInv' /\ SpentInv'
  BY <1>1, <1>4 DEF IInv, RowInv, SpentInv, Resumes
<1>7. SessionInv'
  BY <1>1 DEF SessionInv, Resumes
<1> QED
  BY <1>5, <1>6, <1>7 DEF IInv

\* A turn adds what is read of it.
LEMMA TurnHolds ==
  ASSUME BoundAssumption, KindsAssumption, "gemini" \notin Kinds, IInv,
         NEW f \in File, NEW in \in Tokens, NEW out \in Tokens,
         NEW s \in SessionsOf(f), NEW restarted \in BOOLEAN,
         WriteTurn(f, s, in, out, restarted)
  PROVE  IInv'
<1>1. /\ UNCHANGED <<kind, overlong, table, cut>> /\ current' = FALSE
      /\ spent' = spent + in + out
      /\ unnoticed' \in BOOLEAN /\ (unnoticed => unnoticed')
  BY DEF WriteTurn, IInv, TypeInv
<1>2. in \in Nat /\ out \in Nat /\ spent \in Nat
  BY DEF IInv, TypeInv, Tokens, BoundAssumption
<1>3. files \in Files /\ LogInv(kind, files) /\ TypeInv
  BY DEF IInv, TypeInv
<1>4. PICK e : /\ IsNext(kind, files, f, e) /\ files' = Grown(files, f, e)
               /\ kind # "codex" => e.in = in /\ e.out = out /\ e.session = f
               /\ LET d == LastDelta(files, f, e)
                  IN  kind = "codex" =>
                        /\ d.in \in Nat /\ d.out \in Nat
                        /\ d.in <= in /\ d.out <= out
                        /\ ~ unnoticed' => d.in = in /\ d.out = out
  BY <1>3, WrittenEntry
<1>5. files' \in Files /\ LogInv(kind, files')
  BY <1>3, <1>4, LogGrows
<1>6. TypeInv'
  <2>1. spent + in + out \in Nat
    BY <1>2
  <2>2. spent' \in Nat
    BY <1>1, <2>1
  <2>3. LogInv(kind', files') /\ kind' \in Kinds
    BY <1>1, <1>5 DEF IInv, TypeInv
  <2>4. table' \in SUBSET Row /\ IsFiniteSet(table')
    BY <1>1 DEF IInv, TypeInv
  <2>5. current' \in BOOLEAN /\ unnoticed' \in BOOLEAN /\ cut' \in BOOLEAN
    BY <1>1 DEF IInv, TypeInv
  <2> QED
    BY <1>5, <2>2, <2>3, <2>4, <2>5 DEF TypeInv
<1>7. e \in Entry
  BY <1>4 DEF IsNext
<1>8. Events \in SUBSET Row
  BY <1>3, EventsAreTyped DEF Events
<1>9. Events \subseteq Events' /\ SpentInv'
  <2>1. CASE kind = "codex"
    <3> DEFINE d == LastDelta(files, f, e)
               more == IF SpendsTokens(d) THEN {d} ELSE {}
    <3>0. LogInv("codex", files) /\ IsNext("codex", files, f, e) /\ files' = Grown(files, f, e)
      BY <1>3, <1>4, <2>1
    <3>1. Deltas(files') = Deltas(files) \cup more
      BY <1>3, <3>0, DeltasGrow
    <3>2. d \notin Deltas(files) /\ d \in Row
      BY <1>3, <3>0, DeltasGrow
    <3>3. Events = Deltas(files) /\ Events' = Deltas(files')
      BY <1>1, <2>1 DEF Events, EventsOf
    <3>4. d.in <= in /\ d.out <= out /\ (~ unnoticed' => d.in = in /\ d.out = out)
      BY <1>4, <2>1
    <3> HIDE DEF d
    <3> DEFINE old == Events
               new == Events'
    <3>5. new = old \cup more
      BY <3>1, <3>3
    <3>6. /\ IsFiniteSet(old) /\ TotalOf(old) <= spent
          /\ ~ unnoticed => TotalOf(old) = spent
          /\ old \in SUBSET Row /\ d \notin old
      BY <1>8, <2>1, <3>2, <3>3 DEF IInv, SpentInv
    <3> HIDE DEF old, new
    <3>7. /\ IsFiniteSet(new) /\ TotalOf(new) <= spent + in + out
          /\ TotalOf(old) = spent /\ d.in = in /\ d.out = out => TotalOf(new) = spent + in + out
      BY <1>2, <3>2, <3>4, <3>5, <3>6, AddedRow
    <3>8. ~ unnoticed' => TotalOf(new) = spent + in + out
      BY <1>1, <3>4, <3>6, <3>7
    <3>9. Events \subseteq Events'
      BY <3>5 DEF old, new
    <3>10. /\ IsFiniteSet(Events') /\ TotalOf(Events') <= spent'
           /\ ~ unnoticed' => TotalOf(Events') = spent'
      BY <1>1, <3>7, <3>8 DEF new
    <3> QED
      BY <3>9, <3>10 DEF SpentInv
  <2>2. CASE kind \in Resumes
    <3> DEFINE r == RowOf(e)
               more == IF SpendsTokens(r) THEN {r} ELSE {}
    <3>0. r.in = e.in /\ r.out = e.out
      BY DEF RowOf, Event
    <3>1. RowsById(files') = RowsById(files) \cup more
      <4>1. RowsById(files') = RowsById(files) \cup (IF SpendsTokens(e) THEN {RowOf(e)} ELSE {})
        BY <1>3, <1>4, RowsGrow
      <4>2. SpendsTokens(e) <=> SpendsTokens(r)
        BY <3>0 DEF SpendsTokens
      <4> QED
        BY <4>1, <4>2
    <3>2. r \notin RowsById(files) /\ r \in Row
      BY <1>3, <1>4, <1>7, RowsGrow, RowsOfEntries
    <3>3. Events = RowsById(files) /\ Events' = RowsById(files')
      BY <1>1, <2>2 DEF Events, EventsOf, Resumes
    <3>4. r.in = in /\ r.out = out
      BY <1>4, <2>2, <3>0 DEF Resumes
    <3> HIDE DEF r
    <3> DEFINE old == Events
               new == Events'
    <3>5. new = old \cup more
      BY <3>1, <3>3
    <3>6. /\ IsFiniteSet(old) /\ TotalOf(old) <= spent
          /\ ~ unnoticed => TotalOf(old) = spent
          /\ old \in SUBSET Row /\ r \notin old
      BY <1>8, <2>2, <3>2, <3>3 DEF IInv, SpentInv, Resumes
    <3> HIDE DEF old, new
    <3>a. r.in <= in /\ r.out <= out
      BY <1>2, <3>4
    <3>7. /\ IsFiniteSet(new) /\ TotalOf(new) <= spent + in + out
          /\ TotalOf(old) = spent /\ r.in = in /\ r.out = out => TotalOf(new) = spent + in + out
      BY <1>2, <3>2, <3>a, <3>5, <3>6, AddedRow
    <3>8. ~ unnoticed' => TotalOf(new) = spent + in + out
      BY <1>1, <3>4, <3>6, <3>7
    <3>9. Events \subseteq Events'
      BY <3>5 DEF old, new
    <3>10. /\ IsFiniteSet(Events') /\ TotalOf(Events') <= spent'
           /\ ~ unnoticed' => TotalOf(Events') = spent'
      BY <1>1, <3>7, <3>8 DEF new
    <3> QED
      BY <3>9, <3>10 DEF SpentInv
  <2>3. CASE kind \notin Resumes /\ kind # "codex"
    <3>1. Events = {} /\ Events' = {}
      BY <1>1, <2>3 DEF Events, EventsOf
    <3>2. kind' \in {"copilot", "cursor"}
      BY <1>1, <2>3 DEF IInv, TypeInv, KindsAssumption, Resumes
    <3>3. IsFiniteSet({})
      BY FS_EmptySet
    <3>4. TotalOf({}) = 0
      BY <3>3, TotalFacts
    <3>5. 0 <= spent'
      BY <1>1, <1>2
    <3>6. IsFiniteSet(Events') /\ TotalOf(Events') <= spent'
      BY <3>1, <3>3, <3>4, <3>5
    <3> QED
      BY <3>1, <3>2, <3>6 DEF SpentInv
  <2> QED
    BY <2>1, <2>2, <2>3
<1>10. RowInv'
  <2>1. kind = "codex" => \A r \in table : WithinLine(r, files')
    BY <1>3, <1>4, <1>7, LinesStay DEF IInv, RowInv
  <2> QED
    BY <1>1, <1>9, <2>1 DEF IInv, RowInv
<1>11. ASSUME kind = "copilot" PROVE SessionInv'
  <2> DEFINE w == SessionTokens(files)
             v == SessionTokens(files')
             more == in + out
  <2>1. e.in = in /\ e.out = out
    BY <1>4, <1>11
  <2>2. files'[f] = Append(files[f], e) /\ \A g \in File : g # f => files'[g] = files[g]
    BY <1>3, <1>4 DEF Grown, Files
  <2>3. /\ InOf(files[f]) \in Nat /\ OutOf(files[f]) \in Nat
        /\ InOf(files'[f]) = InOf(files[f]) + in
        /\ OutOf(files'[f]) = OutOf(files[f]) + out
    BY <1>3, <1>7, <2>1, <2>2, FilesAreTyped, OneMoreEntry
  <2>4. IsWeight(w, File) /\ IsWeight(v, File) /\ IsFiniteSet(File) /\ more \in Nat
    BY <1>2, <1>3, <1>5, SessionTokensAreWeights, FileIsFinite
  <2>5. v[f] = w[f] + more
    <3>1. /\ v[f] = InOf(files'[f]) + OutOf(files'[f])
          /\ w[f] = InOf(files[f]) + OutOf(files[f])
      BY DEF SessionTokens
    <3> HIDE DEF v, w
    <3> QED
      BY <1>2, <2>3, <3>1
  <2>6. \A g \in File : g # f => v[g] = w[g]
    BY <2>2 DEF SessionTokens
  <2>7. PICK F : Additive(F, File, w) /\ F[File] <= spent
    BY <1>11 DEF IInv, SessionInv
  <2> HIDE DEF v, w, more
  <2>a. PICK G : Additive(G, File, v)
    BY <2>4, AdditiveExists
  <2>b. Additive(F, File, w)
    BY <2>7
  <2>8. G[File] = F[File] + more
    BY <2>4, <2>5, <2>6, <2>a, <2>b, OneWeightMore
  <2>9. F[File] \in Nat
    BY <2>7 DEF Additive
  <2>10. G[File] <= spent'
    BY <1>1, <1>2, <2>7, <2>8, <2>9 DEF more
  <2>11. \E F1 : Additive(F1, File, SessionTokens(files')) /\ F1[File] <= spent'
    BY <2>a, <2>10 DEF v
  <2>12. \A g \in File : InOf(files[g]) <= InOf(files'[g]) /\ OutOf(files[g]) <= OutOf(files'[g])
    <3> TAKE g \in File
    <3>1. InOf(files[g]) \in Nat /\ OutOf(files[g]) \in Nat
      BY <1>3, FilesAreTyped, OneMoreEntry
    <3>2. CASE g = f
      BY <1>2, <2>3, <3>2
    <3>3. CASE g # f
      <4>1. files'[g] = files[g]
        BY <2>2, <3>3
      <4>2. InOf(files'[g]) = InOf(files[g]) /\ OutOf(files'[g]) = OutOf(files[g])
        BY <4>1
      <4> QED
        BY <3>1, <4>2
    <3> QED
      BY <3>2, <3>3
  <2>13. ASSUME NEW r \in table
         PROVE  \E g \in File :
                  /\ r.key = <<g, 0>> /\ r.in + r.out # 0
                  /\ r.in <= InOf(files'[g]) /\ r.out <= OutOf(files'[g])
    <3>1. PICK g \in File : /\ r.key = <<g, 0>> /\ r.in + r.out # 0
                            /\ r.in <= InOf(files[g]) /\ r.out <= OutOf(files[g])
      BY <1>11 DEF IInv, SessionInv
    <3>2. r.in \in Nat /\ r.out \in Nat
      BY DEF IInv, TypeInv, Row
    <3>3. /\ InOf(files[g]) \in Nat /\ OutOf(files[g]) \in Nat
          /\ InOf(files'[g]) \in Nat /\ OutOf(files'[g]) \in Nat
      BY <1>3, <1>5, FilesAreTyped, OneMoreEntry
    <3>4. InOf(files[g]) <= InOf(files'[g]) /\ OutOf(files[g]) <= OutOf(files'[g])
      BY <2>12
    <3>5. r.in <= InOf(files'[g]) /\ r.out <= OutOf(files'[g])
      BY <3>1, <3>2, <3>3, <3>4
    <3> QED
      BY <3>1, <3>5
  <2>14. table' = table
    BY <1>1
  <2> QED
    BY <2>11, <2>13, <2>14 DEF SessionInv
<1>12. kind # "copilot" => SessionInv'
  BY <1>1 DEF SessionInv
<1> QED
  BY <1>6, <1>9, <1>10, <1>11, <1>12 DEF IInv

\* A run stores what was not stored before.
LEMMA CollectHolds ==
  ASSUME BoundAssumption, KindsAssumption, "gemini" \notin Kinds, IInv,
         NEW skipped \in SUBSET File, CollectRun(skipped)
  PROVE  IInv'
<1> DEFINE es == Emit(Without(files, skipped))
<1>1. /\ UNCHANGED <<kind, files, overlong, spent, unnoticed>>
      /\ current' = (current \/ skipped = {})
      /\ cut' = (cut \/ Cuts(skipped))
      /\ table' = FoldLeft(InsertOrIgnore, table, es)
  BY DEF CollectRun, Without
<1>2. /\ TypeInv /\ RowInv /\ files \in Files /\ LogInv(kind, files)
      /\ table \in SUBSET Row /\ IsFiniteSet(table)
  BY DEF IInv, TypeInv
<1>3. /\ es \in Seq(Row) /\ \A e \in ToSet(es) : e.key = e.turn
      /\ kind # "copilot" /\ ~ Cuts(skipped) => ToSet(es) \subseteq Events
      /\ kind # "copilot" /\ skipped = {} => ToSet(es) = Readable
      /\ kind = "copilot" => ToSet(es) \subseteq SessionRows(files)
      /\ kind = "codex" => \A e \in ToSet(es) : WithinLine(e, files)
  BY <1>2, EmitLemma, EmittedRowsAreOfLines
<1> HIDE DEF es
<1>4. /\ table' \in SUBSET Row
      /\ table \subseteq table' /\ table' \subseteq table \cup ToSet(es)
      /\ \A e \in ToSet(es) : \E r \in table' : r.key = e.key
      /\ UniqueKeys(table) => UniqueKeys(table')
  BY <1>1, <1>2, <1>3, StoreLemma
<1>5. Events' = Events /\ Readable' = Readable /\ UniqueKeys(Events)
  BY <1>1, <1>2, EventsAreTyped DEF Events, Readable
<1>6. IsFiniteSet(table')
  <2>1. ToSet(es) = {es[i] : i \in 1..Len(es)} /\ Len(es) \in Nat
    BY <1>3, SetOfSeq
  <2>2. IsFiniteSet(1..Len(es))
    BY <2>1, FS_Interval
  <2>3. IsFiniteSet(ToSet(es))
    BY <2>1, <2>2, FiniteImage
  <2>4. IsFiniteSet(table \cup ToSet(es))
    BY <1>2, <2>3, FS_Union
  <2> QED
    BY <1>4, <2>4, FS_Subset
<1>7. TypeInv'
  BY <1>1, <1>4, <1>6 DEF IInv, TypeInv, Cuts
<1>8. \A r \in SessionRows(files) :
        /\ r.key = r.turn
        /\ \E f \in File : /\ r.key = <<f, 0>> /\ r.in + r.out # 0
                           /\ r.in = InOf(files[f]) /\ r.out = OutOf(files[f])
  BY DEF SessionRows, SessionRow, Event, Busy
<1>9. RowInv'
  <2>1. UniqueKeys(table')
    BY <1>2, <1>4 DEF RowInv
  <2>2. \A r \in table' : r.key = r.turn
    BY <1>2, <1>3, <1>4 DEF RowInv
  <2>3. cut' => kind' = "codex"
    BY <1>1, <1>2 DEF RowInv, Cuts
  <2>4. kind' # "copilot" /\ ~ cut' => table' \subseteq Events'
    BY <1>1, <1>2, <1>3, <1>4, <1>5 DEF RowInv
  <2>5. ASSUME kind' # "copilot", ~ cut', current' PROVE Readable' \subseteq table'
    <3>1. CASE current
      BY <1>1, <1>2, <1>4, <1>5, <2>5, <3>1 DEF RowInv
    <3>2. CASE skipped = {}
      <4>1. ToSet(es) = Readable /\ Readable \subseteq Events
        BY <1>1, <1>3, <2>5, <3>2
      <4> SUFFICES ASSUME NEW e \in Readable PROVE e \in table'
        BY <1>5
      <4>2. PICK r \in table' : r.key = e.key
        BY <1>4, <4>1
      <4>3. r \in Events
        BY <1>1, <1>5, <2>4, <2>5
      <4>4. r = e
        BY <1>5, <4>1, <4>2, <4>3 DEF UniqueKeys
      <4> QED
        BY <4>4
    <3> QED
      BY <1>1, <2>5, <3>1, <3>2
  <2>6. kind' = "codex" => \A r \in table' : WithinLine(r, files')
    BY <1>1, <1>2, <1>3, <1>4 DEF RowInv
  <2> QED
    BY <2>1, <2>2, <2>3, <2>4, <2>5, <2>6 DEF RowInv
<1>10. SpentInv'
  BY <1>1, <1>5 DEF IInv, SpentInv
<1>11. ASSUME kind = "copilot" PROVE SessionInv'
  <2>1. ASSUME NEW r \in table'
        PROVE  \E f \in File : /\ r.key = <<f, 0>> /\ r.in + r.out # 0
                               /\ r.in <= InOf(files[f]) /\ r.out <= OutOf(files[f])
    <3>1. CASE r \in table
      BY <1>11, <3>1 DEF IInv, SessionInv
    <3>2. CASE r \in SessionRows(files)
      <4>1. PICK f \in File : /\ r.key = <<f, 0>> /\ r.in + r.out # 0
                              /\ r.in = InOf(files[f]) /\ r.out = OutOf(files[f])
        BY <1>8, <3>2
      <4>2. InOf(files[f]) \in Nat /\ OutOf(files[f]) \in Nat
        BY <1>2, FilesAreTyped, OneMoreEntry
      <4>3. r.in <= InOf(files[f]) /\ r.out <= OutOf(files[f])
        BY <4>1, <4>2
      <4> QED
        BY <4>1, <4>3
    <3> QED
      BY <1>3, <1>4, <1>11, <3>1, <3>2
  <2>2. \E F : Additive(F, File, SessionTokens(files)) /\ F[File] <= spent
    BY <1>11 DEF IInv, SessionInv
  <2> QED
    BY <1>1, <2>1, <2>2 DEF SessionInv
<1>12. kind # "copilot" => SessionInv'
  BY <1>1 DEF SessionInv
<1> QED
  BY <1>7, <1>9, <1>10, <1>11, <1>12 DEF IInv

LEMMA StepHolds ==
  ASSUME BoundAssumption, KindsAssumption, "gemini" \notin Kinds, IInv, [Next]_vars
  PROVE  IInv'
<1>1. CASE UNCHANGED vars
  BY <1>1, StutterHolds
<1>2. ASSUME NEW f \in File, NEW in \in Tokens, NEW out \in Tokens, NEW s \in SessionsOf(f),
             NEW restarted \in BOOLEAN, WriteTurn(f, s, in, out, restarted)
      PROVE  IInv'
  BY <1>2, TurnHolds
<1>3. ASSUME NEW f \in File, NEW g \in File, ResumeInNewFile(f, g)
      PROVE  IInv'
  BY <1>3, ResumeHolds
<1>4. ASSUME NEW f \in File, WriteLongLine(f)
      PROVE  IInv'
  BY <1>4, LongLineHolds
<1>5. ASSUME NEW skipped \in SUBSET File, CollectRun(skipped)
      PROVE  IInv'
  BY <1>5, CollectHolds
<1> QED
  BY <1>1, <1>2, <1>3, <1>4, <1>5 DEF Next

\* Of every agent but gemini: rows are under keys of their own, are what reading
\* the logs gives, and cost what was spent.
THEOREM InvariantHolds ==
  ASSUME "gemini" \notin Kinds
  PROVE  Spec => []IInv
<1>1. Init => IInv
  BY BoundAssumption, InitHolds
<1>2. IInv /\ [Next]_vars => IInv'
  BY BoundAssumption, KindsAssumption, StepHolds
<1> QED
  BY <1>1, <1>2, PTL DEF Spec

-----------------------------------------------------------------------------
(* What the rows are. *)

\* However often it is read, a turn has one row: neither a run that skips files
\* nor a session resumed in a new file stores a turn under a second key.
THEOREM OneRowPerTurnHolds ==
  ASSUME "gemini" \notin Kinds
  PROVE  Spec => []OneRowPerTurn
<1>1. IInv => OneRowPerTurn
  BY DEF IInv, RowInv, UniqueKeys, OneRowPerTurn
<1> QED
  BY <1>1, InvariantHolds, PTL

\* Until a run has cut a codex session in two, every stored row is what reading all
\* the logs now would give; a copilot row is of a session that reading them would
\* give, with no fewer tokens; and a codex row never exceeds the running totals of
\* its line, whatever was cut.
THEOREM RowsAgreeWithLogsHolds ==
  ASSUME "gemini" \notin Kinds
  PROVE  Spec => []RowsAgreeWithLogs
<1>1. ASSUME IInv PROVE RowsAgreeWithLogs
  <2> DEFINE es == Emit(files)
  <2>1. TypeInv /\ files \in Files
    BY <1>1 DEF IInv, TypeInv
  <2>2. Without(files, {}) = files
    BY <2>1, FewerFiles
  <2>3. /\ kind # "copilot" => ToSet(es) = Readable
        /\ kind = "copilot" => ToSet(es) = SessionRows(files)
    BY <2>1, <2>2, BoundAssumption, KindsAssumption, EmitLemma
  <2> HIDE DEF es
  <2>a. overlong = {} => Readable = Events
    BY <2>2 DEF Readable, Events
  <2>4. kind # "copilot" /\ overlong = {} /\ ~ cut => table \subseteq ToSet(es)
    BY <1>1, <2>3, <2>a DEF IInv, RowInv
  <2>5. ASSUME kind = "copilot", NEW r \in table
        PROVE  \E e \in ToSet(es) : e.key = r.key /\ r.in <= e.in /\ r.out <= e.out
    <3>1. PICK f \in File : /\ r.key = <<f, 0>> /\ r.in + r.out # 0
                            /\ r.in <= InOf(files[f]) /\ r.out <= OutOf(files[f])
      BY <1>1, <2>5 DEF IInv, SessionInv
    <3>2. r.in \in Nat /\ r.out \in Nat
      BY <1>1 DEF IInv, TypeInv, Row
    <3>3. InOf(files[f]) \in Nat /\ OutOf(files[f]) \in Nat
      BY <2>1, FilesAreTyped, OneMoreEntry
    <3>4. Busy(files[f])
      BY <3>1, <3>2, <3>3 DEF Busy
    <3> DEFINE e == SessionRow(f, files[f])
    <3>5. e \in ToSet(es)
      BY <2>3, <2>5, <3>4 DEF SessionRows
    <3>6. e.key = <<f, 0>> /\ e.in = InOf(files[f]) /\ e.out = OutOf(files[f])
      BY DEF SessionRow, Event
    <3> HIDE DEF e
    <3>7. e.key = r.key /\ r.in <= e.in /\ r.out <= e.out
      BY <3>1, <3>6
    <3> QED
      BY <3>5, <3>7
  <2>6. ASSUME kind = "codex", NEW r \in table
        PROVE  \E line \in Entries : line.id = r.key /\ r.in <= line.in /\ r.out <= line.out
    <3>1. PICK f \in File : \E i \in DOMAIN files[f] :
            r.key = files[f][i].id /\ r.in <= files[f][i].in /\ r.out <= files[f][i].out
      BY <1>1, <2>6 DEF IInv, RowInv, WithinLine
    <3>2. PICK i \in DOMAIN files[f] :
            r.key = files[f][i].id /\ r.in <= files[f][i].in /\ r.out <= files[f][i].out
      BY <3>1
    <3>3. files[f][i] \in Entries
      BY DEF Entries, ToSet
    <3> QED
      BY <3>2, <3>3
  <2> QED
    BY <2>4, <2>5, <2>6 DEF RowsAgreeWithLogs, es
<1> QED
  BY <1>1, InvariantHolds, PTL

LEMMA StoredIsTotal == Stored = TotalOf(table)
BY DEF Stored, TotalOf

\* Once every file has been read, every turn of claude and of antigravity that is in
\* a file without an overlong line has a row.
THEOREM ReadableTurnsAreStoredHolds ==
  ASSUME "gemini" \notin Kinds
  PROVE  Spec => []ReadableTurnsAreStored
<1>1. ASSUME IInv, current, kind \in Resumes,
             NEW f \in File \ overlong, NEW i \in DOMAIN files[f], SpendsTokens(files[f][i])
      PROVE  \E r \in table : r.turn = files[f][i].id
  <2> DEFINE some == IF kind = "claude" THEN Without(files, overlong) ELSE files
             r == RowOf(files[f][i])
  <2>1. Readable \subseteq table
    BY <1>1 DEF IInv, RowInv, Resumes
  <2>2. Readable = RowsById(some)
    BY <1>1 DEF Readable, EventsOf, Resumes
  <2>3. some[f] = files[f]
    BY <1>1 DEF Without
  <2> HIDE DEF some
  <2>4. r \in RowsById(some)
    BY <1>1, <2>3 DEF RowsById, RowsOfFile
  <2>5. r.turn = files[f][i].id
    BY DEF RowOf, Event
  <2> QED
    BY <2>1, <2>2, <2>4, <2>5
<1>2. IInv => ReadableTurnsAreStored
  BY <1>1 DEF ReadableTurnsAreStored, Resumes
<1> QED
  BY <1>2, InvariantHolds, PTL

\* At no time is more stored than was spent, until a codex session is cut in two.
THEOREM NeverOvercountsHolds ==
  ASSUME "gemini" \notin Kinds
  PROVE  Spec => []NeverOvercounts
<1>1. ASSUME IInv, kind # "copilot", ~ cut PROVE TotalOf(table) <= spent
  <2>1. /\ files \in Files /\ LogInv(kind, files) /\ spent \in Nat
        /\ table \subseteq Events
        /\ IsFiniteSet(Events) /\ TotalOf(Events) <= spent
    BY <1>1 DEF IInv, TypeInv, RowInv, SpentInv
  <2>2. Events \in SUBSET Row
    BY <2>1, BoundAssumption, EventsAreTyped DEF Events
  <2>3. table \in SUBSET Row /\ IsFiniteSet(table)
    BY <1>1 DEF IInv, TypeInv
  <2>4. TotalOf(table) \in Nat /\ TotalOf(Events) \in Nat
    BY <2>1, <2>2, <2>3, TotalFacts
  <2>5. TotalOf(table) <= TotalOf(Events)
    BY <2>1, <2>2, TotalFacts
  <2> QED
    BY <2>1, <2>4, <2>5
<1>2. ASSUME IInv, kind = "copilot" PROVE TotalOf(table) <= spent
  <2> DEFINE w == TokensOf(table)
             v == SessionTokens(files)
             h == [r \in table |-> CHOOSE f \in File : r.key = <<f, 0>> /\ w[r] <= v[f]]
             u == [r \in table |-> v[h[r]]]
  <2>1. /\ files \in Files /\ spent \in Nat /\ UniqueKeys(table)
        /\ table \in SUBSET Row /\ IsFiniteSet(table)
    BY <1>2 DEF IInv, TypeInv, RowInv
  <2>2. PICK F : Additive(F, File, v) /\ F[File] <= spent
    BY <1>2 DEF IInv, SessionInv
  <2>3. PICK t : Additive(t, table, w) /\ TotalOf(table) = t[table]
    BY <2>1, TotalIsSum
  <2>4. IsWeight(w, table) /\ IsWeight(v, File) /\ IsFiniteSet(File)
    BY <2>1, TokensAreWeights, SessionTokensAreWeights, FileIsFinite, BoundAssumption
  <2>5. ASSUME NEW r \in table PROVE \E f \in File : r.key = <<f, 0>> /\ w[r] <= v[f]
    <3>1. PICK f \in File : /\ r.key = <<f, 0>>
                            /\ r.in <= InOf(files[f]) /\ r.out <= OutOf(files[f])
      BY <1>2 DEF IInv, SessionInv
    <3>2. InOf(files[f]) \in Nat /\ OutOf(files[f]) \in Nat
      BY <2>1, FilesAreTyped, OneMoreEntry
    <3>3. r.in \in Nat /\ r.out \in Nat
      BY <2>1 DEF Row
    <3>4. w[r] = r.in + r.out /\ v[f] = InOf(files[f]) + OutOf(files[f])
      BY DEF TokensOf, SessionTokens
    <3> HIDE DEF w, v
    <3>5. w[r] <= v[f]
      BY <3>1, <3>2, <3>3, <3>4
    <3> QED
      BY <3>1, <3>5
  <2> HIDE DEF w, v
  <2>6. \A r \in table : h[r] \in File /\ r.key = <<h[r], 0>> /\ w[r] <= v[h[r]]
    BY <2>5
  <2>7. \A r, q \in table : h[r] = h[q] => r = q
    <3> HIDE DEF h
    <3> QED
      BY <2>1, <2>6 DEF UniqueKeys
  <2> HIDE DEF h
  <2>8. IsWeight(u, table) /\ \A r \in table : u[r] = v[h[r]] /\ w[r] <= u[r]
    BY <2>4, <2>6 DEF IsWeight
  <2> HIDE DEF u
  <2>9. PICK U : Additive(U, table, u)
    BY <2>1, <2>8, AdditiveExists
  <2>10. t[table] <= U[table]
    <3>1. \A s \in SUBSET table : t[s] <= U[s]
      BY <2>1, <2>3, <2>4, <2>8, <2>9, SumIsMonotone
    <3> QED
      BY <3>1
  <2> DEFINE image == {h[r] : r \in table}
             rest == File \ image
  <2>11. U[table] = F[image]
    <3>1. \A x \in table : h[x] \in File /\ v[h[x]] = u[x]
      BY <2>6, <2>8
    <3>2. \A s \in SUBSET table : U[s] = F[{h[x] : x \in s}]
      BY <2>1, <2>2, <2>7, <2>8, <2>9, <3>1, SumOfImage
    <3> QED
      BY <3>2
  <2>12. /\ image \in SUBSET File /\ rest \in SUBSET File
         /\ image \cup rest = File /\ image \cap rest = {}
    BY <2>6
  <2> HIDE DEF image, rest
  <2>14. F[File] = F[image] + F[rest]
    <3>1. Parts(File, image, rest) /\ File \in SUBSET File
      BY <2>12 DEF Parts
    <3>2. Additive(F, File, v)
      BY <2>2
    <3> QED
      BY <2>4, <3>1, <3>2, SumOfParts
  <2>15. F[image] \in Nat /\ F[rest] \in Nat /\ t[table] \in Nat /\ U[table] \in Nat
    BY <2>2, <2>3, <2>9, <2>12 DEF Additive
  <2> QED
    BY <2>1, <2>2, <2>3, <2>10, <2>11, <2>14, <2>15
<1>3. IInv => NeverOvercounts
  BY <1>1, <1>2, StoredIsTotal DEF NeverOvercounts
<1> QED
  BY <1>3, InvariantHolds, PTL

\* Once everything has been read the stored tokens are those spent.  (Of cursor
\* nothing is ever stored.)
THEOREM AccountsForAllHolds ==
  ASSUME "gemini" \notin Kinds, "cursor" \notin Kinds
  PROVE  Spec => []AccountsForAll
<1>1. ASSUME IInv, current, overlong = {}, ~ unnoticed, ~ cut, kind # "copilot"
      PROVE  Stored = spent
  <2>1. table = Events
    <3>1. files \in Files
      BY <1>1 DEF IInv, TypeInv
    <3>2. Without(files, {}) = files
      BY <3>1, FewerFiles
    <3>3. Readable = Events
      BY <1>1, <3>2 DEF Readable, Events
    <3> QED
      BY <1>1, <3>3 DEF IInv, RowInv
  <2>2. TotalOf(Events) = spent
    BY <1>1 DEF IInv, TypeInv, SpentInv
  <2> QED
    BY <2>1, <2>2, StoredIsTotal
<1>2. IInv => AccountsForAll
  BY <1>1 DEF AccountsForAll
<1> QED
  BY <1>2, InvariantHolds, PTL

-----------------------------------------------------------------------------
(* The bounds. *)

LengthsOf(fs) == [f \in File |-> Len(fs[f])]
WrittenIn(fs) == MapThenSumSet(LAMBDA f : Len(fs[f]), File)

LEMMA WrittenIs == Written = WrittenIn(files)
BY DEF Written, WrittenIn

LEMMA LengthsAreWeights ==
  ASSUME NEW fs \in Files
  PROVE  IsWeight(LengthsOf(fs), File)
<1>1. \A f \in File : Len(fs[f]) \in Nat
  BY FilesAreTyped
<1> QED
  BY <1>1 DEF IsWeight, LengthsOf

\* The number of entries is the sum of the lengths of the files.
LEMMA WrittenIsSum ==
  ASSUME BoundAssumption, NEW fs \in Files
  PROVE  \E f : Additive(f, File, LengthsOf(fs)) /\ WrittenIn(fs) = f[File]
<1> DEFINE T == File
           F(f) == [s \in SUBSET T |->
                      IF s = {} THEN 0
                      ELSE Len(fs[(CHOOSE x \in s : TRUE)]) + f[s \ {CHOOSE x \in s : TRUE}]]
           it == CHOOSE f : f = F(f)
<1>1. WrittenIn(fs) = it[T]
  BY DEF WrittenIn, MapThenSumSet, MapThenFoldSet
<1>2. IsFiniteSet(T) /\ IsWeight(LengthsOf(fs), T)
  BY LengthsAreWeights, FileIsFinite
<1>3. \A x \in T : LengthsOf(fs)[x] = Len(fs[x])
  BY DEF LengthsOf
<1> DEFINE w == LengthsOf(fs)
<1> HIDE DEF T, w
<1>4. \A s \in SUBSET T : s # {} => (CHOOSE x \in s : TRUE) \in T
  OBVIOUS
<1>5. \A f : Sums(f, T, w) <=> f = F(f)
  BY <1>3, <1>4 DEF Sums, w
<1>6. it = F(it)
  <2>1. PICK f : Sums(f, T, w)
    BY <1>2, SumsExist DEF w
  <2>2. f = F(f)
    BY <1>5, <2>1
  <2> HIDE DEF F
  <2> QED
    BY <2>2
<1> HIDE DEF it
<1>7. Additive(it, T, w)
  BY <1>2, <1>5, <1>6, SumsAreAdditive DEF w
<1> QED
  BY <1>1, <1>7 DEF T, w

\* No file is longer than all together; a file that grows makes all together
\* longer by as much.
LEMMA WrittenGrows ==
  ASSUME BoundAssumption, NEW fs \in Files, NEW new \in Files, NEW f \in File, NEW more \in Nat,
         Len(new[f]) = Len(fs[f]) + more, \A g \in File : g # f => new[g] = fs[g]
  PROVE  WrittenIn(fs) \in Nat /\ Len(fs[f]) <= WrittenIn(fs) /\ WrittenIn(new) = WrittenIn(fs) + more
<1> DEFINE w == LengthsOf(fs)
           v == LengthsOf(new)
<1>1. IsFiniteSet(File) /\ IsWeight(w, File) /\ IsWeight(v, File)
  BY FileIsFinite, LengthsAreWeights
<1>2. v[f] = w[f] + more /\ w[f] = Len(fs[f]) /\ \A g \in File : g # f => v[g] = w[g]
  BY DEF LengthsOf
<1>3. PICK W : Additive(W, File, w) /\ WrittenIn(fs) = W[File]
  BY WrittenIsSum
<1>4. PICK V : Additive(V, File, v) /\ WrittenIn(new) = V[File]
  BY WrittenIsSum
<1> HIDE DEF w, v
<1>5. V[File] = W[File] + more
  BY <1>1, <1>2, <1>3, <1>4, OneWeightMore
<1>6. W[File] = w[f] + W[File \ {f}]
  BY <1>3 DEF Additive
<1>7. W[File] \in Nat /\ W[File \ {f}] \in Nat /\ w[f] \in Nat
  BY <1>1, <1>3 DEF Additive, IsWeight
<1>8. w[f] <= W[File]
  BY <1>6, <1>7
<1> QED
  BY <1>2, <1>3, <1>4, <1>5, <1>7, <1>8

LEMMA Times ==
  ASSUME NEW a \in Nat, NEW b \in Nat, NEW c \in Nat
  PROVE  /\ c * a \in Nat /\ c * (a + 1) = c * a + c
         /\ a <= b => c * a <= c * b
<1>1. c * a \in Nat /\ c * (a + 1) = c * a + c
  OBVIOUS
<1>2. ASSUME a <= b PROVE c * a <= c * b
  <2>1. b - a \in Nat /\ b = a + (b - a)
    BY <1>2
  <2> DEFINE k == b - a
  <2> HIDE DEF k
  <2>2. k \in Nat /\ b = a + k
    BY <2>1 DEF k
  <2>3. c * (a + k) = c * a + c * k /\ c * k \in Nat
    BY <2>2
  <2> QED
    BY <1>1, <2>2, <2>3
<1> QED
  BY <1>1, <1>2

\* No entry's totals are above those of as many turns as there are entries.
EntriesBounded(fs) ==
  \A f \in File : \A n \in DOMAIN fs[f] :
    fs[f][n].in <= MaxTokens * WrittenIn(fs) /\ fs[f][n].out <= MaxTokens * WrittenIn(fs)

StoredRow == [key : Ids, turn : Ids, in : Totals, out : Totals]

BoundInv ==
  /\ overlong \in SUBSET File
  /\ EntriesBounded(files)
  /\ WrittenIn(files) <= MaxEntries
  /\ spent <= 2 * (MaxTokens * WrittenIn(files))
  /\ kind = "copilot" =>
       \A f \in File : /\ InOf(files[f]) <= MaxTokens * Len(files[f])
                       /\ OutOf(files[f]) <= MaxTokens * Len(files[f])
  /\ table \subseteq StoredRow

LEMMA WrittenIsNat ==
  ASSUME BoundAssumption, NEW fs \in Files
  PROVE  WrittenIn(fs) \in Nat /\ MaxTokens \in Nat /\ MaxTokens * WrittenIn(fs) \in Nat
<1>1. PICK w : Additive(w, File, LengthsOf(fs)) /\ WrittenIn(fs) = w[File]
  BY WrittenIsSum
<1>2. WrittenIn(fs) \in Nat
  BY <1>1 DEF Additive
<1>3. MaxTokens \in Nat
  BY DEF BoundAssumption
<1> QED
  BY <1>2, <1>3, Times

LEMMA CounterIsBounded ==
  ASSUME BoundAssumption, files \in Files, EntriesBounded(files), NEW s
  PROVE  /\ CounterOf(s).in <= MaxTokens * WrittenIn(files)
         /\ CounterOf(s).out <= MaxTokens * WrittenIn(files)
<1> DEFINE m == Max(FilesOf(s))
           es == files[m]
           js == LinesOf(es, Len(es), s)
           top == MaxTokens * WrittenIn(files)
<1>1. top \in Nat
  BY WrittenIsNat
<1>2. CASE FilesOf(s) = {}
  <2>1. CounterOf(s) = Zero /\ Zero.in = 0 /\ Zero.out = 0
    BY <1>2 DEF CounterOf, Zero
  <2> QED
    BY <1>1, <2>1
<1>3. CASE FilesOf(s) # {}
  <2>1. m \in FilesOf(s) /\ s \in SessionsIn(es) /\ CounterOf(s) = LastCounts(es, s)
    BY <1>3, CounterTyped
  <2>2. m \in File /\ es \in Seq(Entry) /\ DOMAIN es = 1..Len(es) /\ Len(es) \in Nat
    BY <2>1, FilesAreTyped DEF FilesOf
  <2> HIDE DEF m, es
  <2>3. js # {} /\ js \in SUBSET (1..Len(es))
    BY <2>1, <2>2, SessionsHaveLines DEF LinesOf
  <2>4. LastCounts(es, s) = CountsOf(es[Max(js)])
    BY DEF LastCounts
  <2> HIDE DEF js
  <2>5. Max(js) \in DOMAIN es
    BY <2>2, <2>3, MaxInInterval
  <2>6. es[Max(js)].in <= top /\ es[Max(js)].out <= top
    BY <2>2, <2>5 DEF EntriesBounded, es
  <2>7. CounterOf(s).in = es[Max(js)].in /\ CounterOf(s).out = es[Max(js)].out
    BY <2>1, <2>4 DEF CountsOf
  <2> QED
    BY <2>6, <2>7
<1> QED
  BY <1>2, <1>3

LEMMA TurnIsBounded ==
  ASSUME BoundAssumption, IInv, BoundInv,
         NEW f \in File, NEW in \in Tokens, NEW out \in Tokens,
         NEW s \in SessionsOf(f), NEW restarted \in BOOLEAN,
         WriteTurn(f, s, in, out, restarted)
  PROVE  BoundInv'
<1> DEFINE n == Len(files[f])
           counter == IF kind = "codex" THEN CounterOf(s) ELSE Zero
           before == IF restarted THEN Zero ELSE counter
           e == [id |-> <<f, n + 1>>, session |-> s, in |-> before.in + in, out |-> before.out + out]
           W == WrittenIn(files)
           m == MaxTokens
<1>0. /\ UNCHANGED <<kind, overlong, table>>
      /\ spent' = spent + in + out
      /\ files' = Grown(files, f, e)
      /\ W < MaxEntries
  BY WrittenIs DEF WriteTurn, Grown
<1>1. /\ in \in Nat /\ out \in Nat /\ in <= m /\ out <= m
      /\ m \in Nat /\ MaxEntries \in Nat /\ spent \in Nat
  BY DEF IInv, TypeInv, Tokens, BoundAssumption
<1>2. TypeInv /\ files \in Files /\ n \in Nat /\ files[f] \in Seq(Entry)
  BY FilesAreTyped DEF IInv, TypeInv
<1>3. files' \in Files
  <2>1. PICK d : IsNext(kind, files, f, d) /\ files' = Grown(files, f, d)
    BY <1>2, WrittenEntry
  <2> QED
    BY <1>2, <2>1, LogGrows DEF TypeInv
<1>4. /\ m * n \in Nat /\ m * (n + 1) = m * n + m
      /\ W \in Nat /\ m * W \in Nat /\ m * (W + 1) = m * W + m
  BY <1>1, <1>2, Times, WrittenIsNat
<1>5. /\ counter \in Counts /\ counter.in \in Nat /\ counter.out \in Nat
      /\ counter.in <= m * W /\ counter.out <= m * W
  <2>1. Zero.in = 0 /\ Zero.out = 0
    BY DEF Zero
  <2>2. CASE kind = "codex"
    <3>1. counter = CounterOf(s)
      BY <2>2
    <3>2. counter \in Counts
      BY <1>2, <3>1, CounterTyped
    <3>3. counter.in <= m * W /\ counter.out <= m * W
      BY <1>2, <3>1, CounterIsBounded DEF BoundInv
    <3> QED
      BY <3>2, <3>3, CountsAreTyped
  <2>3. CASE kind # "codex"
    <3>1. counter = Zero
      BY <2>3
    <3> HIDE DEF counter
    <3>2. counter.in = 0 /\ counter.out = 0 /\ counter \in Counts
      BY <2>1, <3>1, CountsAreTyped
    <3> QED
      BY <1>4, <3>2
  <2> QED
    BY <2>2, <2>3
<1>6. /\ before.in \in Nat /\ before.out \in Nat
      /\ before.in <= m * W /\ before.out <= m * W
  <2>1. Zero.in = 0 /\ Zero.out = 0
    BY DEF Zero
  <2> HIDE DEF counter
  <2>2. CASE restarted
    <3>1. before.in = 0 /\ before.out = 0
      BY <2>1, <2>2
    <3> HIDE DEF before
    <3> QED
      BY <1>4, <3>1
  <2>3. CASE ~ restarted
    <3>1. before = counter
      BY <2>3
    <3> QED
      BY <1>5, <3>1
  <2> QED
    BY <2>2, <2>3
<1>7. e.in = before.in + in /\ e.out = before.out + out /\ e.id = <<f, n + 1>>
  OBVIOUS
<1>8. files'[f] = Append(files[f], e) /\ \A g \in File : g # f => files'[g] = files[g]
  BY <1>0, <1>2 DEF Grown, Files
<1> HIDE DEF counter, before, e
<1>9. e.in <= m * (W + 1) /\ e.out <= m * (W + 1)
  <2> DEFINE x == m * W
             y == m * (W + 1)
             p == before.in
             q == before.out
  <2>1. /\ x \in Nat /\ y = x + m /\ p \in Nat /\ q \in Nat /\ p <= x /\ q <= x
        /\ e.in = p + in /\ e.out = q + out
    BY <1>4, <1>6, <1>7
  <2> HIDE DEF x, y, p, q, m
  <2>2. e.in <= y /\ e.out <= y
    BY <1>1, <2>1
  <2> QED
    BY <2>2 DEF y
<1>10. \A i \in DOMAIN files[f] : i \in DOMAIN files'[f] /\ files'[f][i] = files[f][i]
  BY <1>2, <1>8
<1>11. /\ \A i \in DOMAIN files'[f] : i \in DOMAIN files[f] \/ i = n + 1
       /\ files'[f][n + 1] = e /\ Len(files'[f]) = n + 1
  BY <1>2, <1>8
<1>13. W \in Nat /\ WrittenIn(files') = W + 1
  <2>1. Len(files'[f]) = Len(files[f]) + 1 /\ 1 \in Nat
    BY <1>11
  <2>2. \A g \in File : g # f => files'[g] = files[g]
    BY <1>8
  <2> HIDE DEF W, n, m
  <2> QED
    BY <1>2, <1>3, <2>1, <2>2, WrittenGrows DEF W
<1>12. EntriesBounded(files')
  <2> SUFFICES ASSUME NEW g \in File, NEW i \in DOMAIN files'[g]
               PROVE  files'[g][i].in <= m * (W + 1) /\ files'[g][i].out <= m * (W + 1)
    BY <1>13 DEF EntriesBounded
  <2>1. CASE g = f /\ i = n + 1
    BY <1>9, <1>11, <2>1
  <2>2. CASE ~ (g = f /\ i = n + 1)
    <3>1. i \in DOMAIN files[g] /\ files'[g][i] = files[g][i]
      BY <1>8, <1>10, <1>11, <2>2
    <3>2. files[g][i].in <= m * W /\ files[g][i].out <= m * W
      BY <3>1 DEF BoundInv, EntriesBounded
    <3>3. files[g][i].in \in Nat /\ files[g][i].out \in Nat
      BY <1>2, <3>1, FilesAreTyped DEF Entry
    <3> DEFINE x == m * W
               p == files[g][i].in
               q == files[g][i].out
    <3>4. /\ x \in Nat /\ m * (W + 1) = x + m /\ p <= x /\ q <= x /\ p \in Nat /\ q \in Nat
          /\ files'[g][i].in = p /\ files'[g][i].out = q
      BY <1>4, <3>1, <3>2, <3>3
    <3> HIDE DEF x, p, q, m
    <3>5. p <= x + m /\ q <= x + m
      BY <1>1, <3>4
    <3> QED
      BY <3>4, <3>5
  <2> QED
    BY <2>1, <2>2
<1>14. WrittenIn(files') <= MaxEntries
  BY <1>0, <1>1, <1>13
<1>15. spent' <= 2 * (m * WrittenIn(files'))
  <2> DEFINE x == m * W
  <2>1. x \in Nat /\ m * (W + 1) = x + m
    BY <1>1, <1>13, Times
  <2>2. spent <= 2 * x
    BY DEF BoundInv
  <2> HIDE DEF x, m
  <2>3. spent' <= 2 * (x + m)
    BY <1>0, <1>1, <2>1, <2>2
  <2>4. m * WrittenIn(files') = x + m
    BY <1>13, <2>1
  <2> QED
    BY <2>3, <2>4
<1>16. ASSUME kind' = "copilot", NEW g \in File
       PROVE  InOf(files'[g]) <= m * Len(files'[g]) /\ OutOf(files'[g]) <= m * Len(files'[g])
  <2>1. CASE g # f
    <3>1. files'[g] = files[g]
      BY <1>8, <2>1
    <3> QED
      BY <1>0, <1>16, <3>1 DEF BoundInv
  <2>2. CASE g = f
    <3>1. e.in = in /\ e.out = out
      <4>1. kind # "codex" /\ Zero.in = 0 /\ Zero.out = 0
        BY <1>0, <1>16 DEF Zero
      <4>2. before.in = 0 /\ before.out = 0
        BY <4>1 DEF before, counter
      <4> QED
        BY <1>1, <1>7, <4>2
    <3>2. e \in Entry
      <4>1. s \in Session
        BY DEF SessionsOf, Session, File, BoundAssumption
      <4>2. e.in \in Nat /\ e.out \in Nat /\ e.id \in Id
        BY <1>1, <1>2, <1>7, <3>1 DEF Id
      <4>3. e = [id |-> e.id, session |-> s, in |-> e.in, out |-> e.out]
        BY DEF e
      <4> QED
        BY <4>1, <4>2, <4>3 DEF Entry
    <3>3. /\ InOf(files[f]) \in Nat /\ OutOf(files[f]) \in Nat
          /\ InOf(files'[f]) = InOf(files[f]) + in
          /\ OutOf(files'[f]) = OutOf(files[f]) + out
      BY <1>2, <1>8, <3>1, <3>2, OneMoreEntry
    <3>4. InOf(files[f]) <= m * n /\ OutOf(files[f]) <= m * n
      BY <1>0, <1>16 DEF BoundInv
    <3> DEFINE x == m * n
               y == m * (n + 1)
               p == InOf(files[f])
               q == OutOf(files[f])
    <3>5. /\ x \in Nat /\ y = x + m /\ p \in Nat /\ q \in Nat /\ p <= x /\ q <= x
          /\ InOf(files'[f]) = p + in /\ OutOf(files'[f]) = q + out
      BY <1>4, <3>3, <3>4
    <3> HIDE DEF x, y, p, q, m
    <3>6. InOf(files'[f]) <= y /\ OutOf(files'[f]) <= y
      BY <1>1, <3>5
    <3> QED
      BY <1>11, <2>2, <3>6 DEF y
  <2> QED
    BY <2>1, <2>2
<1>17. overlong' \in SUBSET File /\ table' \subseteq StoredRow
  BY <1>0 DEF BoundInv
<1> QED
  BY <1>12, <1>14, <1>15, <1>16, <1>17 DEF BoundInv

LEMMA ResumeIsBounded ==
  ASSUME BoundAssumption, IInv, BoundInv, NEW f \in File, NEW g \in File, ResumeInNewFile(f, g)
  PROVE  BoundInv'
<1>1. /\ UNCHANGED <<kind, table, spent, unnoticed>>
      /\ kind \in Resumes /\ files[f] # <<>> /\ files[g] = <<>>
      /\ WrittenIn(files) + Len(files[f]) <= MaxEntries
      /\ files' = [files EXCEPT ![g] = files[f]]
      /\ overlong' \in SUBSET (overlong \cup {g})
  BY WrittenIs DEF ResumeInNewFile, Resumes
<1>2. files \in Files /\ files' \in Files /\ spent \in Nat
  BY <1>1, LogIsResumed DEF IInv, TypeInv
<1>3. files'[g] = files[f] /\ \A h \in File : h # g => files'[h] = files[h]
  BY <1>1, <1>2 DEF Files
<1> DEFINE W == WrittenIn(files)
           k == Len(files[f])
           m == MaxTokens
<1>4. k \in Nat /\ m \in Nat
  BY <1>2, FilesAreTyped DEF BoundAssumption
<1>5. Len(files'[g]) = Len(files[g]) + k
  <2>1. Len(files[g]) = 0
    BY <1>1
  <2> QED
    BY <1>3, <1>4, <2>1
<1>6. W \in Nat /\ WrittenIn(files') = W + k
  <2>1. \A h \in File : h # g => files'[h] = files[h]
    BY <1>3
  <2> HIDE DEF W, k, m
  <2> QED
    BY <1>2, <1>4, <1>5, <2>1, WrittenGrows DEF W
<1>a. W <= W + k /\ m * W \in Nat /\ m * (W + k) \in Nat /\ m * W <= m * (W + k)
  <2>1. W + k \in Nat /\ W <= W + k
    BY <1>4, <1>6
  <2> QED
    BY <1>4, <1>6, <2>1, Times
<1>7. EntriesBounded(files')
  <2> SUFFICES ASSUME NEW h \in File, NEW i \in DOMAIN files'[h]
               PROVE  files'[h][i].in <= m * (W + k) /\ files'[h][i].out <= m * (W + k)
    BY <1>6 DEF EntriesBounded
  <2> DEFINE a == IF h = g THEN f ELSE h
  <2>1. a \in File /\ files'[h] = files[a]
    BY <1>3
  <2> HIDE DEF a
  <2>2. i \in DOMAIN files[a] /\ files'[h][i] = files[a][i]
    BY <2>1
  <2>3. files[a][i].in <= m * W /\ files[a][i].out <= m * W
    BY <2>1, <2>2 DEF BoundInv, EntriesBounded
  <2>4. files[a][i].in \in Nat /\ files[a][i].out \in Nat
    BY <1>2, <2>1, <2>2, FilesAreTyped DEF Entry
  <2> DEFINE x == m * W
             y == m * (W + k)
             p == files[a][i].in
             q == files[a][i].out
  <2>5. /\ x \in Nat /\ y \in Nat /\ x <= y /\ p <= x /\ q <= x /\ p \in Nat /\ q \in Nat
        /\ files'[h][i].in = p /\ files'[h][i].out = q
    BY <1>a, <2>2, <2>3, <2>4
  <2> HIDE DEF x, y, p, q
  <2>6. p <= y /\ q <= y
    BY <2>5
  <2> QED
    BY <2>5, <2>6 DEF y
<1>8. spent' <= 2 * (m * WrittenIn(files'))
  <2> DEFINE x == m * W
             y == m * WrittenIn(files')
  <2>1. WrittenIn(files') \in Nat /\ W <= WrittenIn(files')
    BY <1>4, <1>6
  <2>2. x \in Nat /\ y \in Nat /\ x <= y
    BY <1>4, <1>6, <2>1, Times
  <2>3. spent <= 2 * x
    BY DEF BoundInv
  <2> HIDE DEF x, y
  <2>4. spent <= 2 * y
    BY <1>2, <2>2, <2>3
  <2> QED
    BY <1>1, <2>4 DEF y
<1>9. kind' # "copilot"
  BY <1>1 DEF Resumes
<1>10. overlong' \in SUBSET File /\ table' \subseteq StoredRow
  BY <1>1 DEF BoundInv
<1>11. WrittenIn(files') <= MaxEntries
  BY <1>1, <1>6
<1> QED
  BY <1>7, <1>8, <1>9, <1>10, <1>11 DEF BoundInv

LEMMA OthersAreBounded ==
  ASSUME BoundInv, UNCHANGED vars \/ \E f \in File : WriteLongLine(f)
  PROVE  BoundInv'
<1>1. UNCHANGED <<kind, files, table, spent>> /\ overlong' \in SUBSET (overlong \cup File)
  BY DEF vars, WriteLongLine
<1> QED
  BY <1>1 DEF BoundInv

\* Whatever is written in the files is within the bounds.
LEMMA EntriesAreBounded ==
  ASSUME BoundAssumption, IInv, BoundInv, NEW f \in File, NEW n \in DOMAIN files[f]
  PROVE  /\ files[f][n] \in Entry /\ n \in 0..MaxEntries
         /\ files[f][n].in \in Totals /\ files[f][n].out \in Totals
         /\ files[f][n].id \in Ids
<1> DEFINE m == MaxTokens
           W == WrittenIn(files)
           top == m * MaxEntries
           x == m * W
           p == files[f][n].in
           q == files[f][n].out
<1>1. files \in Files /\ LogInv(kind, files)
  BY DEF IInv, TypeInv
<1>2. /\ files[f][n] \in Entry /\ DOMAIN files[f] = 1..Len(files[f]) /\ Len(files[f]) \in Nat
  BY <1>1, FilesAreTyped
<1>3. m \in Nat /\ MaxEntries \in Nat /\ W \in Nat /\ W <= MaxEntries
  BY <1>1, WrittenIsNat DEF BoundInv, BoundAssumption
<1>4. top \in Nat /\ x \in Nat /\ x <= top
  BY <1>3, Times
<1>5. n \in 0..MaxEntries
  <2>1. Len(files[f]) = Len(files[f]) + 0 /\ 0 \in Nat
    BY <1>2
  <2>2. Len(files[f]) <= W
    BY <1>1, <2>1, WrittenGrows
  <2> QED
    BY <1>2, <1>3, <2>2
<1>6. p \in Nat /\ q \in Nat /\ p <= x /\ q <= x
  BY <1>2 DEF BoundInv, EntriesBounded, Entry
<1>7. files[f][n].id \in Ids
  <2>1. files[f][n].id \in Id /\ files[f][n].id[1] \in File /\ files[f][n].id[2] = n
    BY <1>1, <1>2 DEF LogInv, EntryIsKnown, Entry
  <2> QED
    BY <1>5, <2>1 DEF Id, Ids
<1>8. Totals = 0..top
  BY DEF Totals
<1> HIDE DEF p, q, x, top
<1>9. p \in 0..top /\ q \in 0..top
  BY <1>4, <1>6
<1> QED
  BY <1>2, <1>5, <1>7, <1>8, <1>9 DEF p, q

\* So is whatever a run reads of them.
LEMMA EmittedRowsAreBounded ==
  ASSUME BoundAssumption, KindsAssumption, "gemini" \notin Kinds, IInv, BoundInv, NEW skipped
  PROVE  ToSet(Emit(Without(files, skipped))) \subseteq StoredRow
<1> DEFINE read == Without(files, skipped)
           es == Emit(read)
           top == MaxTokens * MaxEntries
<1>1. /\ TypeInv /\ files \in Files /\ LogInv(kind, files)
      /\ kind \in {"claude", "codex", "antigravity", "copilot", "cursor"}
  BY DEF IInv, TypeInv, KindsAssumption
<1>2. read \in Files /\ \A f \in File : read[f] = <<>> \/ read[f] = files[f]
  BY <1>1, FewerFiles DEF Without
<1>3. /\ es \in Seq(Row) /\ \A r \in ToSet(es) : r.key = r.turn
      /\ kind = "copilot" => ToSet(es) \subseteq SessionRows(files)
      /\ kind \notin {"copilot", "codex"} => ToSet(es) \subseteq Events
  BY <1>1, EmitLemma DEF Cuts
<1>4. kind = "codex" => \A r \in ToSet(es) : WithinLine(r, files)
  BY <1>1, EmittedRowsAreOfLines
<1> HIDE DEF es, read
<1>5. SUFFICES ASSUME NEW r \in ToSet(es) PROVE r \in StoredRow
  BY DEF es, read
<1>6. r \in Row /\ r.key = r.turn /\ r.in \in Nat /\ r.out \in Nat
  <2>1. r \in Row
    <3>1. PICK i \in DOMAIN es : r = es[i]
      BY <1>5 DEF ToSet
    <3> QED
      BY <1>3, <3>1
  <2> QED
    BY <1>3, <2>1 DEF Row
<1>7. top \in Nat /\ Totals = 0..top /\ MaxTokens \in Nat /\ MaxEntries \in Nat
  <2>1. MaxTokens \in Nat /\ MaxEntries \in Nat
    BY DEF BoundAssumption
  <2> QED
    BY <2>1, Times DEF Totals
<1> HIDE DEF top
<1>8. r.key \in Ids /\ r.in \in Totals /\ r.out \in Totals
  <2>1. CASE kind = "codex"
    <3>1. PICK f \in File : \E i \in DOMAIN files[f] :
            r.key = files[f][i].id /\ r.in <= files[f][i].in /\ r.out <= files[f][i].out
      BY <1>4, <2>1 DEF WithinLine
    <3>2. PICK i \in DOMAIN files[f] :
            r.key = files[f][i].id /\ r.in <= files[f][i].in /\ r.out <= files[f][i].out
      BY <3>1
    <3> DEFINE p == files[f][i].in
               q == files[f][i].out
    <3>3. /\ r.key = files[f][i].id /\ r.in <= p /\ r.out <= q
          /\ p \in Totals /\ q \in Totals /\ files[f][i].id \in Ids
      BY <3>2, EntriesAreBounded
    <3> HIDE DEF p, q
    <3> QED
      BY <1>6, <1>7, <3>3
  <2>2. CASE kind \in Resumes
    <3>1. r \in RowsById(files)
      BY <1>3, <2>2 DEF Events, EventsOf, Resumes
    <3>2. PICK f \in File : \E n \in DOMAIN files[f] : r = RowOf(files[f][n])
      BY <3>1 DEF RowsById, RowsOfFile
    <3>3. PICK n \in DOMAIN files[f] : r = RowOf(files[f][n])
      BY <3>2
    <3>4. /\ files[f][n].in \in Totals /\ files[f][n].out \in Totals
          /\ files[f][n].id \in Ids
      BY EntriesAreBounded
    <3> QED
      BY <3>3, <3>4 DEF RowOf, Event
  <2>3. CASE kind = "copilot"
    <3>1. PICK f \in File : /\ r.key = <<f, 0>>
                            /\ r.in = InOf(files[f]) /\ r.out = OutOf(files[f])
      BY <1>3, <2>3 DEF SessionRows, SessionRow, Event
    <3> DEFINE x == MaxTokens * Len(files[f])
    <3>2. r.in <= x /\ r.out <= x
      BY <2>3, <3>1 DEF BoundInv
    <3>3. x \in Nat /\ x <= top
      <4>1. Len(files[f]) \in Nat
        BY <1>1, FilesAreTyped
      <4>2. Len(files[f]) = Len(files[f]) + 0 /\ 0 \in Nat
        BY <4>1
      <4>3. Len(files[f]) <= WrittenIn(files) /\ WrittenIn(files) \in Nat
        BY <1>1, <4>2, WrittenGrows
      <4>4. Len(files[f]) <= MaxEntries
        BY <1>7, <4>1, <4>3 DEF BoundInv
      <4> QED
        BY <1>7, <4>1, <4>4, Times DEF top
    <3> HIDE DEF x
    <3>4. <<f, 0>> \in Ids
      BY <1>7 DEF Ids
    <3> QED
      BY <1>6, <1>7, <3>1, <3>2, <3>3, <3>4
  <2>4. CASE kind = "cursor"
    BY <1>3, <1>5, <2>4 DEF Events, EventsOf, Resumes
  <2> QED
    BY <1>1, <2>1, <2>2, <2>3, <2>4 DEF Resumes
<1> QED
  BY <1>6, <1>8 DEF Row, StoredRow

LEMMA RunIsBounded ==
  ASSUME BoundAssumption, KindsAssumption, "gemini" \notin Kinds, IInv, BoundInv,
         NEW skipped \in SUBSET File, CollectRun(skipped)
  PROVE  BoundInv'
<1> DEFINE es == Emit(Without(files, skipped))
<1>1. /\ UNCHANGED <<kind, files, overlong, spent>>
      /\ table' = FoldLeft(InsertOrIgnore, table, es)
  BY DEF CollectRun, Without
<1>2. es \in Seq(Row) /\ table \in SUBSET Row
  BY EmitLemma DEF IInv, TypeInv
<1>3. ToSet(es) \subseteq StoredRow
  BY EmittedRowsAreBounded
<1> HIDE DEF es
<1>4. table' \subseteq table \cup ToSet(es)
  BY <1>1, <1>2, StoreLemma
<1> QED
  BY <1>1, <1>3, <1>4 DEF BoundInv

LEMMA InitIsBounded ==
  ASSUME BoundAssumption, Init
  PROVE  BoundInv
<1>1. IInv /\ files \in Files
  BY InitHolds DEF IInv, TypeInv
<1>2. \A f \in File : files[f] = <<>>
  BY DEF Init
<1>3. \A f \in File : Len(files[f]) = 0 /\ DOMAIN files[f] = {}
  <2>1. Len(<<>>) = 0 /\ DOMAIN <<>> = {}
    OBVIOUS
  <2> QED
    BY <1>2, <2>1
<1>4. WrittenIn(files) = 0
  <2> DEFINE w == LengthsOf(files)
  <2>1. IsWeight(w, File) /\ IsFiniteSet(File) /\ \A f \in File : w[f] = 0
    BY <1>1, <1>3, LengthsAreWeights, FileIsFinite DEF LengthsOf
  <2>2. PICK W : Additive(W, File, w) /\ WrittenIn(files) = W[File]
    BY <1>1, WrittenIsSum
  <2>3. File \in SUBSET File
    OBVIOUS
  <2> HIDE DEF w
  <2> QED
    BY <2>1, <2>2, <2>3, SumOfZeros
<1>5. \A f \in File : InOf(files[f]) = 0 /\ OutOf(files[f]) = 0
  BY <1>1, <1>2, FilesAreTyped, OneMoreEntry
<1>6. MaxTokens * 0 = 0
  BY DEF BoundAssumption
<1>7. EntriesBounded(files)
  BY <1>3 DEF EntriesBounded
<1>8. overlong = {} /\ spent = 0 /\ table = {} /\ 0 <= MaxEntries
  BY DEF Init, BoundAssumption
<1>9. \A f \in File : /\ InOf(files[f]) <= MaxTokens * Len(files[f])
                      /\ OutOf(files[f]) <= MaxTokens * Len(files[f])
  BY <1>3, <1>5, <1>6
<1> QED
  BY <1>4, <1>6, <1>7, <1>8, <1>9 DEF BoundInv

\* In a state of the invariant and within the bounds, everything has its type.
LEMMA TypeFollows ==
  ASSUME BoundAssumption, IInv, BoundInv
  PROVE  TypeOK
<1> DEFINE W == WrittenIn(files)
           m == MaxTokens
           top == MaxTokens * MaxEntries
<1>1. m \in Nat /\ MaxEntries \in Nat /\ top \in Nat
  <2>1. MaxTokens \in Nat /\ MaxEntries \in Nat
    BY DEF BoundAssumption
  <2> QED
    BY <2>1, Times
<1>2. /\ TypeInv /\ files \in Files /\ LogInv(kind, files) /\ table \in SUBSET Row
      /\ spent \in Nat /\ kind \in Kinds
      /\ current \in BOOLEAN /\ unnoticed \in BOOLEAN /\ cut \in BOOLEAN
  BY DEF IInv, TypeInv
<1>4. \A k \in 0..MaxEntries : k \in Nat /\ m * k \in Nat /\ m * k <= top
  BY <1>1, Times
<1>6. files \in [File -> Seq([id : Ids, session : Session, in : Totals, out : Totals])]
  <2> DEFINE T == [id : Ids, session : Session, in : Totals, out : Totals]
  <2>1. ASSUME NEW f \in File PROVE files[f] \in Seq(T)
    <3>1. \A n \in DOMAIN files[f] : files[f][n] \in T
      BY EntriesAreBounded DEF Entry
    <3>2. files[f] \in Seq(Entry) /\ DOMAIN files[f] = 1..Len(files[f])
      BY <1>2, FilesAreTyped
    <3> HIDE DEF T
    <3> QED
      BY <3>1, <3>2
  <2> QED
    BY <1>2, <2>1 DEF Files
<1>7. table \subseteq [key : Ids, turn : Ids, in : Totals, out : Totals]
  BY DEF BoundInv, StoredRow
<1>8. spent \in 0..(2 * MaxTokens * MaxEntries)
  <2> DEFINE x == m * W
  <2>1. W \in Nat
    BY <1>2, WrittenIsNat
  <2>2. W \in 0..MaxEntries
    BY <1>1, <2>1 DEF BoundInv
  <2>3. x \in Nat /\ x <= top
    BY <1>4, <2>2
  <2>4. spent <= 2 * x
    BY DEF BoundInv
  <2>5. 2 * MaxTokens * MaxEntries = 2 * top
    BY <1>1
  <2> HIDE DEF x, top
  <2>6. spent \in 0..(2 * top)
    BY <1>1, <1>2, <2>3, <2>4
  <2> QED
    BY <2>5, <2>6
<1> QED
  BY <1>2, <1>6, <1>7, <1>8 DEF TypeOK, BoundInv

\* Everything keeps its type, within the bounds of the model.
THEOREM TypeCorrect ==
  ASSUME "gemini" \notin Kinds
  PROVE  Spec => []TypeOK
<1>1. Init => IInv /\ BoundInv
  BY BoundAssumption, InitHolds, InitIsBounded
<1>2. (IInv /\ BoundInv) /\ [Next]_vars => (IInv /\ BoundInv)'
  <2> SUFFICES ASSUME IInv, BoundInv, [Next]_vars PROVE IInv' /\ BoundInv'
    OBVIOUS
  <2>1. IInv'
    BY BoundAssumption, KindsAssumption, StepHolds
  <2>2. ASSUME NEW f \in File, NEW in \in Tokens, NEW out \in Tokens, NEW s \in SessionsOf(f),
               NEW restarted \in BOOLEAN, WriteTurn(f, s, in, out, restarted)
        PROVE  BoundInv'
    BY <2>2, BoundAssumption, TurnIsBounded
  <2>3. ASSUME NEW f \in File, NEW g \in File, ResumeInNewFile(f, g)
        PROVE  BoundInv'
    BY <2>3, BoundAssumption, ResumeIsBounded
  <2>4. ASSUME NEW skipped \in SUBSET File, CollectRun(skipped)
        PROVE  BoundInv'
    BY <2>4, BoundAssumption, KindsAssumption, RunIsBounded
  <2>5. BoundInv'
    BY <2>2, <2>3, <2>4, OthersAreBounded DEF Next
  <2> QED
    BY <2>1, <2>5
<1>3. IInv /\ BoundInv => TypeOK
  BY BoundAssumption, TypeFollows
<1> QED
  BY <1>1, <1>2, <1>3, PTL DEF Spec
=============================================================================

---------------------------- MODULE ReportsProofs ----------------------------
(***************************************************************************)
(* What the commands do with the events, and what they say of them.        *)
(*                                                                         *)
(* First, the commands implement FollowThrough, whatever events are        *)
(* collected, whatever windows are asked for, and however deliveries end.  *)
(* Of the metrics that proof needs only that their levels are levels, so   *)
(* that it holds for any metrics engine.  What it does need is that a      *)
(* table never has two records of one finding: Reports updates all that it *)
(* has loaded, FollowThrough one of them.                                  *)
(*                                                                         *)
(* Then, the invariants of Analytics, which Reports extends: every fold    *)
(* over the events is given step by step, and what it yields follows by    *)
(* induction on the list of events, for any events, prices and projects.   *)
(***************************************************************************)
EXTENDS Reports, FoldLemmas

AtMostOne(table) == \A k \in Metric : \A r1, r2 \in table[k] : r1 = r2

IInv == TypeOK /\ AtMostOne(records) /\ \A p \in Proc : AtMostOne(stored[p])

\* Whatever a metric is, a level between 0 and Scale stands for it.
LEMMA LevelOfLemma == \A v : LevelOf(v) \in Level
<1> SUFFICES ASSUME NEW v PROVE LevelOf(v) \in Level
  OBVIOUS
<1> DEFINE T == {l \in 1..Scale : l * v.d <= v.n * Scale}
<1>1. IsFiniteSet(1..Scale) /\ Cardinality(1..Scale) = Scale
  BY FS_Interval, BoundAssumption
<1>2. T \in SUBSET (1..Scale)
  OBVIOUS
<1>3. IsFiniteSet(T) /\ Cardinality(T) <= Scale
  <2> HIDE DEF T
  <2> QED BY <1>1, <1>2, FS_Subset
<1>4. Cardinality(T) \in Nat
  BY <1>3, FS_CardinalityType
<1> QED
  BY <1>3, <1>4, BoundAssumption DEF LevelOf, Level

\* Every limit is a number of hundredths.
LEMMA LimitLemma == \A k \in Metric : Limit[k] \in Nat
<1> SUFFICES ASSUME NEW k \in Metric PROVE Limit[k] \in Nat
  OBVIOUS
<1>1. k \in Finding
  BY MetricAssumption
<1>2. Limit[k] \in {40, 20, 50, 10, 25, 15, 100 * CostLimit}
  BY <1>1, ZenonT(60) DEF Limit, Finding
<1>3. 100 * CostLimit \in Nat
  BY CostLimitAssumption
<1> QED
  BY <1>2, <1>3

\* A finding has a recommendation at the levels that FollowThrough calls active.
LEMMA ActiveLemma ==
  ASSUME NEW k \in Metric, NEW level \in Level
  PROVE  IsRecommended(k, level) <=> FT!Active(k, level)
<1> DEFINE L == Limit[k] * Scale
<1>1. L \in Nat
  BY LimitLemma, BoundAssumption
<1>2. level \in Nat
  BY BoundAssumption DEF Level
<1>3. IsBelow(ValueOf(level), Limit[k]) <=> level * 100 < L
  BY DEF IsBelow, ValueOf
<1>4. Exceeds(ValueOf(level), Limit[k]) <=> level * 100 > L
  BY DEF Exceeds, ValueOf
<1>5. (L + 99) \div 100 = ThresholdLevel[k] \/ k # "cache-miss"
  BY DEF ThresholdLevel
<1>6. L \div 100 = ThresholdLevel[k] \/ k = "cache-miss"
  BY DEF ThresholdLevel
<1> HIDE DEF L
<1>7. level * 100 < L <=> level < (L + 99) \div 100
  BY <1>1, <1>2
<1>8. level * 100 > L <=> level > L \div 100
  BY <1>1, <1>2
<1>9. CASE k = "cache-miss"
  BY <1>3, <1>5, <1>7, <1>9 DEF IsRecommended, IsActive, FT!Active
<1>10. CASE k # "cache-miss"
  BY <1>4, <1>6, <1>8, <1>10 DEF IsRecommended, IsActive, FT!Active
<1> QED
  BY <1>9, <1>10

\* A value is better where FollowThrough says that its level is.
LEMMA BetterLemma ==
  ASSUME NEW k \in Metric, NEW a \in Level, NEW b \in Level
  PROVE  IsBetter(k, ValueOf(a), ValueOf(b)) <=> FT!IsImproving(k, a, b)
<1>1. a \in Nat /\ b \in Nat /\ Scale \in Nat /\ Scale > 0
  BY BoundAssumption DEF Level
<1>2. (a * Scale < b * Scale <=> a < b) /\ (b * Scale < a * Scale <=> b < a)
  BY <1>1
<1> QED
  BY <1>1, <1>2 DEF IsBetter, ValueOf, FT!IsImproving

\* So a sync says of two levels what FollowThrough says.
LEMMA StatusLemma ==
  ASSUME NEW k \in Metric, NEW e \in Record, NEW cur \in Level
  PROVE  /\ StatusOf(k, e, cur) = FT!Verdict(k, e, cur)
         /\ StatusOf(k, e, cur) \in Status
<1>1. e.base \in Level
  BY DEF Record
<1> QED
  BY <1>1, ActiveLemma, BetterLemma
  DEF StatusOf, FT!Verdict, FT!IsResolved, Status

-----------------------------------------------------------------------------

\* What Sync returns for a finding is FollowThrough's record, and is well-formed.
LEMMA UpdatedLemma ==
  ASSUME IInv, NEW p \in Proc, NEW k \in Metric
  PROVE  /\ FT!Active(k, measured[p][k]) =>
              Updated(p)[k] = {FT!Updated(k, measured[p][k], at[p], stored[p][k])}
         /\ ~FT!Active(k, measured[p][k]) => Updated(p)[k] = {}
         /\ Updated(p)[k] \in SUBSET Record
<1> DEFINE cur == measured[p][k]
           old == stored[p][k]
<1>1. cur \in Level /\ at[p] \in 0..MaxRuns /\ old \in SUBSET Record
  BY DEF IInv, TypeOK, Table
<1>2. \A r1, r2 \in old : r1 = r2
  BY DEF IInv, AtMostOne
<1>3. IsRecommended(k, cur) <=> FT!Active(k, cur)
  BY <1>1, ActiveLemma
<1>4. CASE ~IsRecommended(k, cur)
  BY <1>3, <1>4 DEF Updated
<1>5. CASE IsRecommended(k, cur) /\ old = {}
  <2>1. Updated(p)[k] = {[base |-> cur, baseAt |-> at[p], cur |-> cur, curAt |-> at[p],
                          status |-> "improving"]}
    BY <1>5 DEF Updated
  <2>2. FT!Updated(k, cur, at[p], old) =
          [base |-> cur, baseAt |-> at[p], cur |-> cur, curAt |-> at[p],
           status |-> "improving"]
    BY <1>5 DEF FT!Updated
  <2> QED
    BY <1>1, <1>3, <1>5, <2>1, <2>2 DEF Record, Status
<1>6. CASE IsRecommended(k, cur) /\ old # {}
  <2> DEFINE e == CHOOSE r \in old : TRUE
             new == [base |-> e.base, baseAt |-> e.baseAt, cur |-> cur, curAt |-> at[p],
                     status |-> StatusOf(k, e, cur)]
  <2>1. e \in old /\ e \in Record
    BY <1>1, <1>6
  <2>2. old = {e}
    BY <1>2, <2>1
  <2>3. Updated(p)[k] = {[base |-> r.base, baseAt |-> r.baseAt, cur |-> cur,
                          curAt |-> at[p], status |-> StatusOf(k, r, cur)] : r \in old}
    BY <1>6 DEF Updated
  <2>4. FT!Updated(k, cur, at[p], old) =
          [base |-> e.base, baseAt |-> e.baseAt, cur |-> cur, curAt |-> at[p],
           status |-> FT!Verdict(k, e, cur)]
    BY <1>6 DEF FT!Updated
  <2> HIDE DEF e
  <2>5. Updated(p)[k] = {new}
    BY <2>2, <2>3
  <2>6. StatusOf(k, e, cur) = FT!Verdict(k, e, cur) /\ StatusOf(k, e, cur) \in Status
    BY <1>1, <2>1, StatusLemma
  <2>7. new \in Record
    BY <1>1, <2>1, <2>6 DEF Record
  <2> QED
    BY <1>3, <1>6, <2>4, <2>5, <2>6, <2>7
<1> QED
  BY <1>4, <1>5, <1>6

\* Upsert does to the table what FollowThrough's upsert does.
LEMMA UpsertLemma ==
  ASSUME IInv, NEW p \in Proc
  PROVE  /\ Updated(p) \in Table /\ AtMostOne(Updated(p))
         /\ Upsert(Updated(p)) \in Table /\ AtMostOne(Upsert(Updated(p)))
         /\ Upsert(Updated(p)) =
              [k \in Metric |-> IF FT!Active(k, measured[p][k])
                                THEN {FT!Updated(k, measured[p][k], at[p], stored[p][k])}
                                ELSE records[k]]
<1>1. \A k \in Metric :
        /\ FT!Active(k, measured[p][k]) =>
             Updated(p)[k] = {FT!Updated(k, measured[p][k], at[p], stored[p][k])}
        /\ ~FT!Active(k, measured[p][k]) => Updated(p)[k] = {}
        /\ Updated(p)[k] \in SUBSET Record
  BY UpdatedLemma
<1>2. Updated(p) = [k \in Metric |-> Updated(p)[k]]
  BY DEF Updated
<1>3. records \in Table /\ AtMostOne(records)
  BY DEF IInv, TypeOK
<1>4. \A k \in Metric : Upsert(Updated(p))[k] = IF FT!Active(k, measured[p][k])
                                                THEN Updated(p)[k] ELSE records[k]
  BY <1>1 DEF Upsert
<1>5. Upsert(Updated(p)) = [k \in Metric |-> Upsert(Updated(p))[k]]
  BY DEF Upsert
<1>6. Updated(p) \in Table
  BY <1>1, <1>2 DEF Table
<1>7. AtMostOne(Updated(p))
  BY <1>1 DEF AtMostOne
<1>8. Upsert(Updated(p)) \in Table
  BY <1>1, <1>3, <1>4, <1>5 DEF Table
<1>9. AtMostOne(Upsert(Updated(p)))
  BY <1>3, <1>4, <1>7 DEF AtMostOne
<1> QED
  BY <1>1, <1>4, <1>5, <1>6, <1>7, <1>8, <1>9

\* Wherever an event is inserted, the table remains a list of events.
LEMMA InsertLemma ==
  ASSUME NEW e \in Event, events \in Seq(Event), NEW i \in 1..(Len(events) + 1)
  PROVE  InsertAt(events, i, e) \in Seq(Event)
<1>1. SubSeq(events, 1, i - 1) \in Seq(Event) /\ SubSeq(events, i, Len(events)) \in Seq(Event)
  OBVIOUS
<1> QED
  BY <1>1 DEF InsertAt

\* The invariant holds at first, and every step keeps it.
LEMMA InitInv == Init => IInv
<1> SUFFICES ASSUME Init PROVE IInv
  OBVIOUS
<1>1. 0 \in Level /\ 0 \in 0..MaxRuns /\ NoRecords \in Table /\ <<>> \in Seq(Event)
  BY BoundAssumption DEF Level, NoRecords, Table
<1>2. TypeOK
  BY <1>1 DEF Init, StoreInit, TypeOK
<1>3. AtMostOne(NoRecords)
  BY DEF AtMostOne, NoRecords
<1> QED
  BY <1>2, <1>3 DEF Init, IInv

\* One step of each command, and of the collection.
LEMMA NextInv == IInv /\ [Next]_vars => IInv'
<1> SUFFICES ASSUME IInv, [Next]_vars PROVE IInv'
  OBVIOUS
<1> USE DEF IInv, TypeOK, AtMostOne
<1>1. ASSUME NEW s \in Session, NEW t \in Time, NEW turn \in Turn,
             Collect([session |-> s, ts |-> t, turn |-> turn])
      PROVE  IInv'
  <2>1. [session |-> s, ts |-> t, turn |-> turn] \in Event
    BY DEF Event
  <2>2. events' \in Seq(Event)
    BY <1>1, <2>1, InsertLemma DEF Collect, Store
  <2> QED
    BY <1>1, <2>2 DEF Collect
<1>2. ASSUME NEW p \in Proc, Measure(p)
      PROVE  IInv'
  <2>1. measured' \in [Proc -> [Metric -> Level]]
    BY <1>2, LevelOfLemma DEF Measure
  <2>2. runs' \in 0..MaxRuns /\ at' \in [Proc -> 0..MaxRuns]
    BY <1>2, BoundAssumption DEF Measure
  <2>3. overlapped' \in BOOLEAN
    BY <1>2, Zenon DEF Measure
  <2> QED
    BY <1>2, <2>1, <2>2, <2>3 DEF Measure
<1>3. ASSUME NEW p \in Proc, LoadRecords(p)
      PROVE  IInv'
  BY <1>3 DEF LoadRecords
<1>4. ASSUME NEW p \in Proc, UpsertRecords(p)
      PROVE  IInv'
  <2>1. /\ records' \in Table /\ \A k \in Metric : \A r1, r2 \in records'[k] : r1 = r2
        /\ Updated(p) \in Table
    BY <1>4, UpsertLemma DEF UpsertRecords
  <2>2. raced' \in BOOLEAN
    BY <1>4, Zenon DEF UpsertRecords
  <2>3. outcomes' \subseteq [at : 0..MaxRuns, updated : Table]
    BY <1>4, <2>1 DEF UpsertRecords
  <2> QED
    BY <1>4, <2>1, <2>2, <2>3 DEF UpsertRecords
<1>5. ASSUME NEW p \in Proc, Fail(p)
      PROVE  IInv'
  BY <1>5 DEF Fail
<1>6. ASSUME NEW p \in Proc, Deliver(p)
      PROVE  IInv'
  BY <1>6 DEF Deliver
<1>7. CASE UNCHANGED vars
  BY <1>7 DEF vars
<1> QED
  BY <1>1, <1>2, <1>3, <1>4, <1>5, <1>6, <1>7 DEF Next, Command

\* So it always holds.
LEMMA Invariance == Spec => []IInv
  BY InitInv, NextInv, PTL DEF Spec

\* The commands, with their history, are type-correct, for any metrics engine's
\* values, any processes and any bounds.
THEOREM TypeCorrect == Spec => []TypeOK
<1>1. IInv => TypeOK
  BY DEF IInv
<1> QED
  BY <1>1, Invariance, PTL

-----------------------------------------------------------------------------

\* An empty table with idle processes is one of FollowThrough.
LEMMA InitRefines == Init => FT!Init
<1> SUFFICES ASSUME Init PROVE FT!Init
  OBVIOUS
<1>1. [p \in Proc |-> IF pc[p] \in {"synced", "undelivered"} THEN "ok" ELSE pc[p]] =
        [p \in Proc |-> "idle"]
  BY DEF Init
<1> QED
  BY <1>1 DEF Init, FT!Init, NoRecords, FT!NoRecords

\* Every step is one of FollowThrough's, or changes nothing that it knows of.
LEMMA StepRefines == IInv /\ [Next]_vars => [FT!Next]_(FT!vars)
<1> SUFFICES ASSUME IInv, [Next]_vars PROVE [FT!Next]_(FT!vars)
  OBVIOUS
<1> DEFINE Seen(f) == [p \in Proc |-> IF f[p] \in {"synced", "undelivered"} THEN "ok" ELSE f[p]]
<1>1. pc \in [Proc -> {"idle", "measured", "loaded", "synced", "ok", "failed", "undelivered"}]
  BY DEF IInv, TypeOK
<1>2. Level = FT!Level
  BY DEF Level, FT!Level
<1>3. ASSUME NEW s \in Session, NEW t \in Time, NEW turn \in Turn,
             Collect([session |-> s, ts |-> t, turn |-> turn])
      PROVE  UNCHANGED FT!vars
  BY <1>3 DEF Collect, FT!vars
<1>4. ASSUME NEW p \in Proc, Measure(p)
      PROVE  FT!Next
  <2>1. PICK m \in [Metric -> Level] : measured' = [measured EXCEPT ![p] = m]
    BY <1>4, LevelOfLemma DEF Measure, IInv, TypeOK
  <2>2. Seen(pc)' = [Seen(pc) EXCEPT ![p] = "measured"]
    BY <1>1, <1>4 DEF Measure
  <2>3. Seen(pc)[p] \in {"idle", "ok", "failed"}
    BY <1>1, <1>4 DEF Measure, Running
  <2>4. FT!Measure(p, m)
    BY <1>4, <2>1, <2>2, <2>3 DEF Measure, FT!Measure
  <2> QED
    BY <1>2, <2>4 DEF FT!Next, FT!Command
<1>5. ASSUME NEW p \in Proc, LoadRecords(p)
      PROVE  FT!Next
  <2>1. Seen(pc)' = [Seen(pc) EXCEPT ![p] = "loaded"] /\ Seen(pc)[p] = "measured"
    BY <1>1, <1>5 DEF LoadRecords
  <2>2. FT!LoadRecords(p)
    BY <1>5, <2>1 DEF LoadRecords, FT!LoadRecords
  <2> QED
    BY <2>2 DEF FT!Next, FT!Command
<1>6. ASSUME NEW p \in Proc, UpsertRecords(p)
      PROVE  FT!Next
  <2>1. Seen(pc)' = [Seen(pc) EXCEPT ![p] = "ok"] /\ Seen(pc)[p] = "loaded"
    BY <1>1, <1>6 DEF UpsertRecords
  <2>2. records' = [k \in Metric |-> IF FT!Active(k, measured[p][k])
                                     THEN {FT!Updated(k, measured[p][k], at[p], stored[p][k])}
                                     ELSE records[k]]
    BY <1>6, UpsertLemma DEF UpsertRecords
  <2>3. FT!UpsertRecords(p)
    BY <1>6, <2>1, <2>2 DEF UpsertRecords, FT!UpsertRecords
  <2> QED
    BY <2>3 DEF FT!Next, FT!Command
<1>7. ASSUME NEW p \in Proc, Fail(p)
      PROVE  FT!Next
  <2>1. Seen(pc)' = [Seen(pc) EXCEPT ![p] = "failed"] /\ Seen(pc)[p] \in {"measured", "loaded"}
    BY <1>1, <1>7 DEF Fail, Running
  <2>2. FT!Fail(p)
    BY <1>7, <2>1 DEF Fail, FT!Fail
  <2> QED
    BY <2>2 DEF FT!Next, FT!Command
<1>8. ASSUME NEW p \in Proc, Deliver(p)
      PROVE  UNCHANGED FT!vars
  <2>1. Seen(pc)' = Seen(pc)
    BY <1>1, <1>8 DEF Deliver
  <2> QED
    BY <1>8, <2>1 DEF Deliver, FT!vars
<1>9. CASE UNCHANGED vars
  BY <1>9 DEF vars, FT!vars
<1> QED
  BY <1>3, <1>4, <1>5, <1>6, <1>7, <1>8, <1>9 DEF Next, Command

\* The commands implement follow-through.
THEOREM FollowThroughRefinement == Spec => ImplementsFollowThrough
  BY InitRefines, StepRefines, Invariance, PTL DEF Spec, ImplementsFollowThrough, FT!Spec

-----------------------------------------------------------------------------
(* No command that is still to write finds a record with its own time.      *)

\* No baseline in a table was taken by the command p is running.
NotYetWritten(p, table) == \A k \in Metric : \A r \in table[k] : r.baseAt # at[p]

FreshInv ==
  /\ \A p \in Proc : at[p] <= runs
  /\ \A k \in Metric : \A r \in records[k] : r.baseAt <= runs
  /\ \A p \in Proc : \A k \in Metric : \A r \in stored[p][k] : r.baseAt <= runs
  /\ \A p \in Proc : pc[p] \in Running =>
       /\ NotYetWritten(p, records)
       /\ \A q \in Proc : NotYetWritten(p, stored[q])
       /\ \A q \in Proc : q # p => at[q] # at[p]

\* A command that loads its events has a time of its own.
LEMMA FreshMeasure ==
  ASSUME IInv, FreshInv, NEW p \in Proc, Measure(p)
  PROVE  FreshInv'
<1> USE DEF Measure
<1>1. runs \in Nat /\ runs' = runs + 1 /\ at'[p] = runs + 1
  BY BoundAssumption DEF IInv, TypeOK
<1>2. \A q \in Proc : q # p => at'[q] = at[q] /\ pc'[q] = pc[q]
  BY DEF IInv, TypeOK
<1>3. /\ \A k \in Metric : \A r \in records[k] : r.baseAt \in Nat
      /\ \A q \in Proc : \A k \in Metric : \A r \in stored[q][k] : r.baseAt \in Nat
      /\ \A q \in Proc : at[q] \in Nat
  BY BoundAssumption DEF IInv, TypeOK, Table, Record
<1>4. /\ \A k \in Metric : \A r \in records[k] : r.baseAt <= runs' /\ r.baseAt # runs'
      /\ \A q \in Proc : \A k \in Metric : \A r \in stored[q][k] :
           r.baseAt <= runs' /\ r.baseAt # runs'
      /\ \A q \in Proc : at[q] <= runs' /\ at[q] # runs'
  BY <1>1, <1>3 DEF FreshInv
<1>5. \A q \in Proc : at'[q] <= runs'
  BY <1>1, <1>2, <1>4
<1>6. ASSUME NEW q \in Proc, pc'[q] \in Running
      PROVE  /\ NotYetWritten(q, records)'
             /\ \A o \in Proc : NotYetWritten(q, stored[o])'
             /\ \A o \in Proc : o # q => at'[o] # at'[q]
  <2>1. CASE q = p
    BY <1>1, <1>2, <1>4, <2>1 DEF NotYetWritten
  <2>2. CASE q # p
    BY <1>1, <1>2, <1>4, <1>6, <2>2 DEF NotYetWritten, FreshInv
  <2> QED
    BY <2>1, <2>2
<1> QED
  BY <1>4, <1>5, <1>6 DEF FreshInv

\* A sync stamps its baselines with its own time, or keeps those it has loaded.
LEMMA FreshUpsert ==
  ASSUME IInv, FreshInv, NEW p \in Proc, UpsertRecords(p)
  PROVE  FreshInv'
<1>1. /\ UNCHANGED <<at, stored, runs>> /\ records' = Upsert(Updated(p))
      /\ \A q \in Proc : pc'[q] \in Running => q # p /\ pc[q] \in Running
  BY DEF UpsertRecords, IInv, TypeOK, Running
<1>2. ASSUME NEW k \in Metric, NEW r \in records'[k]
      PROVE  r \in records[k] \/ r.baseAt = at[p] \/ \E e \in stored[p][k] : r.baseAt = e.baseAt
  <2>1. r \in records[k] \/ r \in Updated(p)[k]
    BY <1>1, <1>2 DEF Upsert
  <2> QED
    BY <2>1 DEF Updated
<1>3. \A k \in Metric : \A r \in records'[k] : r.baseAt <= runs
  BY <1>2 DEF FreshInv
<1>4. ASSUME NEW q \in Proc, pc'[q] \in Running PROVE NotYetWritten(q, records')
  <2>1. /\ q # p /\ at[p] # at[q]
        /\ NotYetWritten(q, records) /\ NotYetWritten(q, stored[p])
    BY <1>1, <1>4 DEF FreshInv
  <2> QED
    BY <1>2, <2>1 DEF NotYetWritten
<1> QED
  BY <1>1, <1>3, <1>4 DEF FreshInv, NotYetWritten

LEMMA NextFresh == IInv /\ FreshInv /\ [Next]_vars => FreshInv'
<1> SUFFICES ASSUME IInv, FreshInv, [Next]_vars PROVE FreshInv'
  OBVIOUS
<1>1. CASE UNCHANGED <<records, pc, at, stored, runs>>
  BY <1>1 DEF FreshInv, NotYetWritten
<1>2. ASSUME NEW p \in Proc, LoadRecords(p)
      PROVE  FreshInv'
  <2>1. /\ \A q \in Proc : stored'[q] = IF q = p THEN records ELSE stored[q]
        /\ \A q \in Proc : pc'[q] \in Running => pc[q] \in Running
        /\ UNCHANGED <<records, at, runs>>
    BY <1>2 DEF LoadRecords, IInv, TypeOK, Running
  <2> QED
    BY <2>1 DEF FreshInv, NotYetWritten
<1>3. ASSUME NEW p \in Proc, Fail(p) \/ Deliver(p)
      PROVE  FreshInv'
  <2>1. /\ \A q \in Proc : pc'[q] \in Running => pc[q] \in Running
        /\ UNCHANGED <<records, at, stored, runs>>
    BY <1>3 DEF Fail, Deliver, IInv, TypeOK, Running
  <2> QED
    BY <2>1 DEF FreshInv, NotYetWritten
<1> QED
  BY <1>1, <1>2, <1>3, FreshMeasure, FreshUpsert DEF Next, Command, Collect, vars

\* So the commands always have times of their own.
LEMMA Fresh == Spec => []FreshInv
<1>1. Init => FreshInv
  BY BoundAssumption DEF Init, FreshInv, NoRecords, Running
<1> QED
  BY <1>1, NextFresh, Invariance, PTL DEF Spec

-----------------------------------------------------------------------------
(* Verdicts are reproducible, as long as every sync writes over what it has *)
(* loaded: then whatever has been told of a finding goes back to the one    *)
(* baseline on record, and a verdict depends on baseline and value alone.   *)

\* A record that was returned has the verdict that its values deserve, or has
\* just been given its baseline.
Deserved(k, r) ==
  /\ r.curAt = r.baseAt => r.cur = r.base /\ r.status = "improving"
  /\ r.curAt # r.baseAt => r.status = IF FT!IsImproving(k, r.base, r.cur)
                                      THEN "improving" ELSE "regressing"

OneBaseline ==
  \A o \in outcomes : \A k \in Metric : \A r \in o.updated[k] :
    /\ Deserved(k, r)
    /\ ~raced => records[k] # {} /\ \A q \in records[k] : q.base = r.base /\ q.baseAt = r.baseAt

\* The outcome of a sync: its verdicts, and its baselines.
LEMMA OutcomeLemma ==
  ASSUME IInv, FreshInv, NEW p \in Proc, pc[p] = "loaded",
         NEW k \in Metric, NEW r \in Updated(p)[k]
  PROVE  /\ Deserved(k, r)
         /\ \A e \in stored[p][k] : e.base = r.base /\ e.baseAt = r.baseAt
<1>1. \A e1, e2 \in stored[p][k] : e1 = e2
  BY DEF IInv, AtMostOne
<1>2. IsRecommended(k, measured[p][k])
  BY DEF Updated
<1>3. CASE stored[p][k] = {}
  BY <1>2, <1>3 DEF Updated, Deserved
<1>4. CASE stored[p][k] # {}
  <2>1. PICK e \in stored[p][k] :
          r = [base |-> e.base, baseAt |-> e.baseAt, cur |-> measured[p][k], curAt |-> at[p],
               status |-> StatusOf(k, e, measured[p][k])]
    BY <1>2, <1>4 DEF Updated
  <2>2. e.base \in Level /\ measured[p][k] \in Level
    BY DEF IInv, TypeOK, Table, Record
  <2>3. IsBetter(k, ValueOf(e.base), ValueOf(measured[p][k]))
          <=> FT!IsImproving(k, e.base, measured[p][k])
    BY <2>2, BetterLemma
  <2>4. r.status = IF FT!IsImproving(k, e.base, measured[p][k])
                   THEN "improving" ELSE "regressing"
    BY <1>2, <2>1, <2>3 DEF StatusOf
  <2>5. r.base = e.base /\ r.baseAt = e.baseAt /\ r.cur = measured[p][k] /\ r.curAt = at[p]
    BY <2>1
  <2>6. e.baseAt # at[p]
    BY DEF FreshInv, NotYetWritten, Running
  <2> QED
    BY <1>1, <2>4, <2>5, <2>6 DEF Deserved
<1> QED
  BY <1>3, <1>4

\* Before any sync there is no outcome.
LEMMA InitOneBaseline == Init => OneBaseline
  BY DEF Init, OneBaseline

\* A step of a process adds an outcome only with the baseline of the table.
LEMMA NextOneBaseline == IInv /\ FreshInv /\ OneBaseline /\ [Next]_vars => OneBaseline'
<1> SUFFICES ASSUME IInv, FreshInv, OneBaseline, [Next]_vars PROVE OneBaseline'
  OBVIOUS
<1>1. CASE UNCHANGED <<records, outcomes, raced>>
  BY <1>1 DEF OneBaseline, Deserved, FT!IsImproving
<1>2. ASSUME NEW p \in Proc, UpsertRecords(p)
      PROVE  OneBaseline'
  <2>1. /\ records' = Upsert(Updated(p))
        /\ outcomes' = outcomes \cup {[at |-> at[p], updated |-> Updated(p)]}
        /\ raced' = (raced \/ stored[p] # records)
        /\ pc[p] = "loaded"
    BY <1>2 DEF UpsertRecords
  <2>2. \A k \in Metric : Updated(p)[k] # {} => records'[k] = Updated(p)[k]
    BY <2>1 DEF Upsert
  <2>3. \A k \in Metric : Updated(p)[k] = {} => records'[k] = records[k]
    BY <2>1 DEF Upsert
  <2>4. \A k \in Metric : \A r1, r2 \in Updated(p)[k] : r1 = r2
    BY UpsertLemma DEF AtMostOne
  <2>5. ~raced' => ~raced /\ stored[p] = records
    BY <2>1
  <2>6. ASSUME NEW k \in Metric, NEW r \in Updated(p)[k]
        PROVE  /\ Deserved(k, r)
               /\ records'[k] # {} /\ \A q \in records'[k] : q.base = r.base /\ q.baseAt = r.baseAt
    BY <2>1, <2>2, <2>4, <2>6, OutcomeLemma
  <2>7. ASSUME NEW o \in outcomes, NEW k \in Metric, NEW r \in o.updated[k]
        PROVE  /\ Deserved(k, r)
               /\ ~raced' => records'[k] # {} /\ \A q \in records'[k] :
                                                   q.base = r.base /\ q.baseAt = r.baseAt
    <3>1. /\ Deserved(k, r)
          /\ ~raced => records[k] # {} /\ \A q \in records[k] :
                                            q.base = r.base /\ q.baseAt = r.baseAt
      BY <2>7 DEF OneBaseline
    <3>2. CASE Updated(p)[k] = {}
      BY <2>3, <2>5, <3>1, <3>2
    <3>3. CASE Updated(p)[k] # {}
      BY <2>1, <2>2, <2>5, <3>1, <3>3, OutcomeLemma
    <3> QED
      BY <3>2, <3>3
  <2>8. \A k : \A r : Deserved(k, r) <=> Deserved(k, r)'
    BY DEF Deserved, FT!IsImproving
  <2> QED
    BY <2>1, <2>6, <2>7, <2>8 DEF OneBaseline
<1> QED
  BY <1>1, <1>2 DEF Next, Command, Collect, Measure, LoadRecords, Fail, Deliver, vars

\* With one baseline the verdicts on one value are the same.
LEMMA ReproducibleLemma == IInv /\ OneBaseline => VerdictsAreReproducible
<1> SUFFICES ASSUME IInv, OneBaseline, ~raced,
                    NEW o1 \in outcomes, NEW o2 \in outcomes, NEW k \in Metric,
                    NEW r1 \in o1.updated[k], NEW r2 \in o2.updated[k]
             PROVE  /\ r1.base = r2.base /\ r1.baseAt = r2.baseAt
                    /\ r1.cur = r2.cur /\ r1.cur # r1.base => r1.status = r2.status
                    /\ r1.cur = r1.base =>
                         r1.status = IF r1.curAt = r1.baseAt THEN "improving" ELSE "regressing"
  BY DEF VerdictsAreReproducible
<1>1. PICK q \in records[k] : TRUE
  BY DEF OneBaseline
<1>2. r1.base = r2.base /\ r1.baseAt = r2.baseAt
  BY <1>1 DEF OneBaseline
<1>3. Deserved(k, r1) /\ Deserved(k, r2)
  BY DEF OneBaseline
<1>4. r1.cur = r1.base => ~FT!IsImproving(k, r1.base, r1.cur)
  <2>1. r1.base \in Nat
    BY BoundAssumption DEF IInv, TypeOK, Table, Record, Level
  <2> QED
    BY <2>1 DEF FT!IsImproving
<1>5. r1.cur = r2.cur /\ r1.cur # r1.base => r1.status = r2.status
  BY <1>2, <1>3 DEF Deserved
<1>6. r1.cur = r1.base =>
        r1.status = IF r1.curAt = r1.baseAt THEN "improving" ELSE "regressing"
  BY <1>3, <1>4 DEF Deserved
<1> QED
  BY <1>2, <1>5, <1>6

\* As long as no two syncs race, all outcomes that name a finding agree on its
\* baseline, and on the verdict for a value, but for that of the baseline: it is
\* improving when it is taken and regressing when it is measured again.
THEOREM VerdictsAreReproducibleHolds == Spec => []VerdictsAreReproducible
  BY Invariance, Fresh, InitOneBaseline, NextOneBaseline, ReproducibleLemma, PTL DEF Spec

-----------------------------------------------------------------------------
(* Records are current, as long as commands do not overlap: then the one    *)
(* that runs is the latest of all that have measured.                       *)

OneAtATime ==
  /\ \A p \in Proc : at[p] <= runs
  /\ \A o \in outcomes : o.at <= runs
  /\ ~overlapped => \A p \in Proc : pc[p] \in Running =>
       /\ \A q \in Proc : pc[q] \in Running => q = p
       /\ \A o \in outcomes : o.at < at[p]

CurrentInv == OneAtATime /\ RecordsAreCurrent

\* Before any command nothing has been told.
LEMMA InitCurrent == Init => CurrentInv
  BY DEF Init, CurrentInv, OneAtATime, RecordsAreCurrent, Running, NoRecords

\* Who starts while another is at it has overlapped.
LEMMA NextOneAtATime == IInv /\ OneAtATime /\ [Next]_vars => OneAtATime'
<1> SUFFICES ASSUME IInv, OneAtATime, [Next]_vars PROVE OneAtATime'
  OBVIOUS
<1>1. /\ runs \in Nat /\ at \in [Proc -> Nat] /\ \A o \in outcomes : o.at \in Nat
      /\ DOMAIN pc = Proc
  BY BoundAssumption DEF IInv, TypeOK
<1> USE DEF OneAtATime, Running
<1>2. ASSUME NEW s \in Session, NEW t \in Time, NEW turn \in Turn,
             Collect([session |-> s, ts |-> t, turn |-> turn])
      PROVE  OneAtATime'
  BY <1>2 DEF Collect
<1>3. ASSUME NEW p \in Proc, Measure(p)
      PROVE  OneAtATime'
  <2>1. /\ runs' = runs + 1 /\ at' = [at EXCEPT ![p] = runs + 1]
        /\ pc' = [pc EXCEPT ![p] = "measured"] /\ outcomes' = outcomes
        /\ overlapped' = (overlapped \/ \E q \in Proc : pc[q] \in Running)
    BY <1>3 DEF Measure
  <2>2. ~overlapped' => \A q \in Proc : pc'[q] \in Running => q = p
    BY <1>1, <2>1
  <2> QED
    BY <1>1, <2>1, <2>2
<1>4. ASSUME NEW p \in Proc, LoadRecords(p)
      PROVE  OneAtATime'
  BY <1>1, <1>4 DEF LoadRecords
<1>5. ASSUME NEW p \in Proc, UpsertRecords(p)
      PROVE  OneAtATime'
  <2>1. /\ outcomes' = outcomes \cup {[at |-> at[p], updated |-> Updated(p)]}
        /\ pc[p] = "loaded" /\ pc' = [pc EXCEPT ![p] = "synced"]
        /\ UNCHANGED <<at, runs, overlapped>>
    BY <1>5 DEF UpsertRecords
  <2>2. ~overlapped' => \A q \in Proc : pc'[q] \notin Running
    BY <1>1, <2>1
  <2> QED
    BY <1>1, <2>1, <2>2
<1>6. ASSUME NEW p \in Proc, Fail(p)
      PROVE  OneAtATime'
  BY <1>1, <1>6 DEF Fail
<1>7. ASSUME NEW p \in Proc, Deliver(p)
      PROVE  OneAtATime'
  BY <1>1, <1>7 DEF Deliver
<1>8. CASE UNCHANGED vars
  BY <1>8 DEF vars
<1> QED
  BY <1>2, <1>3, <1>4, <1>5, <1>6, <1>7, <1>8 DEF Next, Command

\* So what is written last has been measured last.
LEMMA NextCurrent == IInv /\ CurrentInv /\ [Next]_vars => RecordsAreCurrent'
<1> SUFFICES ASSUME IInv, CurrentInv, [Next]_vars, ~overlapped', NEW k \in Metric
             PROVE  LET told == {o \in outcomes' : o.updated[k] # {}}
                    IN  IF told = {} THEN records'[k] = {}
                        ELSE \E o \in told : /\ \A other \in told : other.at <= o.at
                                             /\ records'[k] = o.updated[k]
  BY DEF RecordsAreCurrent
<1>1. ~overlapped
  BY DEF Next, Command, Collect, Measure, LoadRecords, UpsertRecords, Fail, Deliver, vars
<1> DEFINE told == {o \in outcomes : o.updated[k] # {}}
<1>2. IF told = {} THEN records[k] = {}
      ELSE \E o \in told : /\ \A other \in told : other.at <= o.at
                           /\ records[k] = o.updated[k]
  BY <1>1 DEF CurrentInv, RecordsAreCurrent
<1>3. CASE UNCHANGED <<records, outcomes>>
  BY <1>2, <1>3
<1>4. ASSUME NEW p \in Proc, UpsertRecords(p)
      PROVE  LET now == {o \in outcomes' : o.updated[k] # {}}
             IN  IF now = {} THEN records'[k] = {}
                 ELSE \E o \in now : /\ \A other \in now : other.at <= o.at
                                     /\ records'[k] = o.updated[k]
  <2> DEFINE new == [at |-> at[p], updated |-> Updated(p)]
  <2>1. /\ records' = Upsert(Updated(p)) /\ outcomes' = outcomes \cup {new}
        /\ pc[p] \in Running
    BY <1>4 DEF UpsertRecords, Running
  <2>2. \A o \in outcomes : o.at < at[p]
    BY <1>1, <2>1 DEF CurrentInv, OneAtATime
  <2>3. at[p] \in Nat /\ \A o \in outcomes : o.at \in Nat
    BY BoundAssumption DEF IInv, TypeOK
  <2>4. CASE Updated(p)[k] = {}
    <3>1. records'[k] = records[k] /\ {o \in outcomes' : o.updated[k] # {}} = told
      BY <2>1, <2>4 DEF Upsert
    <3> QED
      BY <1>2, <3>1
  <2>5. CASE Updated(p)[k] # {}
    <3>1. records'[k] = new.updated[k] /\ new \in {o \in outcomes' : o.updated[k] # {}}
      BY <2>1, <2>5 DEF Upsert
    <3>2. \A other \in outcomes' : other.at <= new.at
      BY <2>1, <2>2, <2>3
    <3> QED
      BY <3>1, <3>2
  <2> QED
    BY <2>4, <2>5
<1> QED
  BY <1>3, <1>4 DEF Next, Command, Collect, Measure, LoadRecords, Fail, Deliver, vars

\* As long as commands do not overlap, no value that was measured earlier takes
\* the place of a later one, whatever is delivered.
THEOREM RecordsAreCurrentHolds == Spec => []RecordsAreCurrent
<1>1. CurrentInv => RecordsAreCurrent
  BY DEF CurrentInv
<1>2. IInv /\ CurrentInv /\ [Next]_vars => CurrentInv'
  BY NextOneAtATime, NextCurrent DEF CurrentInv
<1> QED
  BY <1>1, <1>2, Invariance, InitCurrent, PTL DEF Spec

-----------------------------------------------------------------------------
(* The folds of the metrics engine and of the session statistics, event by   *)
(* event.                                                                    *)

\* What an event is made of.
LEMMA EventTyped ==
  \A e \in Event : e.session \in Session /\ e.ts \in Time /\ e.turn \in TurnType
BY TurnAssumption DEF Event

\* An event has an activity, and weights that are natural numbers.
LEMMA WeightsTyped ==
  /\ ActivityOf \in [Event -> Activity]
  /\ InputOf \in [Event -> Nat] /\ SpendOf \in [Event -> Nat]
  /\ CacheReadOf \in [Event -> Nat] /\ CacheCreationOf \in [Event -> Nat]
  /\ AllTokens \in [Event -> Nat] /\ CostOf \in [Event -> Nat]
<1>1. ActivityOf \in [Event -> Activity]
  BY DEF ActivityOf, Classify, Activity
<1>2. \A e \in Event : /\ e.turn.input \in Nat /\ e.turn.output \in Nat
                       /\ e.turn.cacheRead \in Nat /\ e.turn.cacheCreation \in Nat
                       /\ e.turn.model \in Model
  BY EventTyped DEF TurnType
<1>3. SpendOf \in [Event -> Nat]
  BY <1>2 DEF SpendOf
<1>4. AllTokens \in [Event -> Nat]
  BY <1>2, <1>3 DEF AllTokens
<1>5. \A e \in Event : CostOf[e] \in Nat
  <2> SUFFICES ASSUME NEW e \in Event PROVE CostOf[e] \in Nat
    OBVIOUS
  <2>1. CASE IsPriced(e)
    <3> DEFINE price == Price[e.turn.model]
    <3>1. /\ price.input \in Nat /\ price.output \in Nat
          /\ price.cacheRead \in Nat /\ price.cacheCreation \in Nat
      BY <2>1, PriceAssumption DEF IsPriced
    <3>2. CostOf[e] = e.turn.input * price.input + e.turn.output * price.output +
                      e.turn.cacheRead * price.cacheRead + e.turn.cacheCreation * price.cacheCreation
      BY <2>1 DEF CostOf
    <3>3. \A a, b \in Nat : a * b \in Nat
      OBVIOUS
    <3> HIDE DEF price
    <3>4. /\ e.turn.input * price.input \in Nat /\ e.turn.output * price.output \in Nat
          /\ e.turn.cacheRead * price.cacheRead \in Nat
          /\ e.turn.cacheCreation * price.cacheCreation \in Nat
      BY <1>2, <3>1, <3>3
    <3> QED
      BY <3>2, <3>4
  <2>2. CASE ~ IsPriced(e)
    BY <2>2 DEF CostOf
  <2> QED
    BY <2>1, <2>2
<1>6. CostOf = [e \in Event |-> CostOf[e]]
  BY DEF CostOf
<1>7. CostOf \in [Event -> Nat]
  BY <1>5, <1>6
<1>8. /\ InputOf \in [Event -> Nat]
      /\ CacheReadOf \in [Event -> Nat] /\ CacheCreationOf \in [Event -> Nat]
  BY <1>2 DEF InputOf, CacheReadOf, CacheCreationOf
<1> QED
  BY <1>1, <1>3, <1>4, <1>7, <1>8

\* A sum of which the set grows by one element.
Grows(S, T, x, w, v) ==
  /\ IsFiniteSet(S) /\ x \notin S /\ T = S \cup {x}
  /\ IsWeight(w, S) /\ IsWeight(v, T) /\ \A y \in S : v[y] = w[y]

\* The same, of two functions that are given.
LEMMA SumOfLarger ==
  ASSUME NEW S, NEW T, NEW x, NEW w, NEW v, Grows(S, T, x, w, v)
  PROVE  SumFunction(v) = SumFunction(w) + v[x]
<1>1. /\ IsFiniteSet(S) /\ x \notin S /\ IsWeight(w, S) /\ IsWeight(v, S \cup {x})
      /\ \A y \in S : v[y] = w[y]
  BY DEF Grows
<1> QED
  BY <1>1, SumWithOneMore

\* What events add up to, one by one.
Weight(w, e, U) == IF e \in U THEN w[e] ELSE 0

\* SumIn, event by event: it starts at nothing and grows by the event's weight.
LEMMA SumInLemma ==
  ASSUME NEW w \in [Event -> Nat], NEW U, NEW es \in Seq(Event)
  PROVE  /\ SumIn(w, <<>>, U) = 0
         /\ SumIn(w, es, U) \in Nat
         /\ \A e \in Event : Weight(w, e, U) \in Nat
         /\ \A e \in Event : SumIn(w, Append(es, e), U) = SumIn(w, es, U) + Weight(w, e, U)
<1> DEFINE I(s) == {j \in DOMAIN s : s[j] \in U}
           v(s) == [i \in I(s) |-> w[s[i]]]
           n == Len(es)
<1>0. n \in Nat /\ DOMAIN es = 1..n /\ \A k \in 1..n : es[k] \in Event
  OBVIOUS
<1>1. \A s : SumIn(w, s, U) = SumFunction(v(s))
  BY DEF SumIn
<1>2. ASSUME NEW s \in Seq(Event) PROVE IsFiniteSet(I(s)) /\ IsWeight(v(s), I(s))
  <2>1. IsFiniteSet(1..Len(s))
    BY FS_Interval
  <2>2. I(s) \subseteq 1..Len(s) /\ IsWeight(v(s), I(s))
    BY DEF IsWeight
  <2> HIDE DEF I, v
  <2> QED
    BY <2>1, <2>2, FS_Subset
<1>3. SumIn(w, <<>>, U) = 0
  <2>1. I(<<>>) = {} /\ <<>> \in Seq(Event)
    OBVIOUS
  <2>2. IsWeight(v(<<>>), {})
    <3> HIDE DEF I, v
    <3> QED
      BY <1>2, <2>1
  <2> HIDE DEF I, v
  <2> QED
    BY <1>1, <2>2, SumOfNone
<1>4. SumIn(w, es, U) \in Nat
  <2> HIDE DEF I, v
  <2> QED
    BY <1>1, <1>2, SumIsNatural
<1>5. ASSUME NEW e \in Event
      PROVE  SumIn(w, Append(es, e), U) = SumIn(w, es, U) + IF e \in U THEN w[e] ELSE 0
  <2> DEFINE more == Append(es, e)
  <2>1. /\ more \in Seq(Event) /\ DOMAIN more = 1..(n + 1) /\ more[n + 1] = e
        /\ \A i \in 1..n : more[i] = es[i]
    OBVIOUS
  <2> HIDE DEF more, n
  <2>2. CASE e \in U
    <3>1. I(more) = I(es) \cup {n + 1} /\ n + 1 \notin I(es)
      BY <1>0, <2>1, <2>2
    <3>2. IsWeight(v(more), I(es) \cup {n + 1})
      <4> HIDE DEF I, v
      <4> QED
        BY <1>2, <2>1, <3>1
    <3>3. (\A i \in I(es) : v(more)[i] = v(es)[i]) /\ v(more)[n + 1] = w[e]
      BY <1>0, <2>1, <3>1
    <3>4. IsFiniteSet(I(es)) /\ IsWeight(v(es), I(es))
      <4> HIDE DEF I, v
      <4> QED
        BY <1>2
    <3> HIDE DEF I, v
    <3>5. SumFunction(v(more)) = SumFunction(v(es)) + v(more)[n + 1]
      <4> DEFINE J == I(es)
                 K == I(more)
                 z == n + 1
                 a == v(es)
                 b == v(more)
      <4>1. Grows(J, K, z, a, b)
        BY <3>1, <3>2, <3>3, <3>4 DEF Grows
      <4> HIDE DEF J, K, z, a, b
      <4>3. SumFunction(b) = SumFunction(a) + b[z]
        BY <4>1, SumOfLarger
      <4> QED
        BY <4>3 DEF a, b, z
    <3>6. SumIn(w, more, U) = SumFunction(v(more)) /\ SumIn(w, es, U) = SumFunction(v(es))
      BY <1>1
    <3>7. SumIn(w, more, U) = SumIn(w, es, U) + w[e]
      BY <3>3, <3>5, <3>6
    <3>8. (IF e \in U THEN w[e] ELSE 0) = w[e]
      BY <2>2
    <3> QED
      BY <3>7, <3>8 DEF more
  <2>3. CASE e \notin U
    <3>1. I(more) = I(es)
      BY <1>0, <2>1, <2>3
    <3>2. \A i \in I(es) : w[more[i]] = w[es[i]]
      BY <1>0, <2>1
    <3>3. v(more) = v(es)
      <4> HIDE DEF I
      <4> QED
        BY <3>1, <3>2
    <3> HIDE DEF I, v
    <3> QED
      BY <1>1, <1>4, <2>3, <3>3 DEF more
  <2> QED
    BY <2>2, <2>3
<1>6. \A e \in Event : Weight(w, e, U) \in Nat
  BY DEF Weight
<1>7. \A e \in Event : SumIn(w, Append(es, e), U) = SumIn(w, es, U) + Weight(w, e, U)
  BY <1>5 DEF Weight
<1> QED
  BY <1>3, <1>4, <1>6, <1>7

\* All of them, that is.
LEMMA SumIsSumIn ==
  ASSUME NEW w, NEW es \in Seq(Event)
  PROVE  Sum(w, es) = SumIn(w, es, Event)
<1>0. \A j \in DOMAIN es : es[j] \in Event
  OBVIOUS
<1>1. {j \in DOMAIN es : es[j] \in Event} = DOMAIN es
  BY <1>0
<1> QED
  BY <1>1 DEF Sum, SumIn

NoEvents == <<>>
KeepOf(U, kept, e) == IF e \in U THEN Append(kept, e) ELSE kept
KeepAct(U) == [e \in Event |-> [kept \in Seq(Event) |-> KeepOf(U, kept, e)]]

\* Keeping, as an action on what is kept so far.
LEMMA KeepTyped ==
  ASSUME NEW U
  PROVE  NoEvents \in Seq(Event) /\ KeepAct(U) \in [Event -> [Seq(Event) -> Seq(Event)]]
BY DEF KeepAct, KeepOf, NoEvents

\* The events of a set are kept one by one.
LEMMA KeepFold ==
  ASSUME NEW U, NEW es \in Seq(Event)
  PROVE  IsFoldOf(Keep(es, U), es, NoEvents, KeepAct(U), Seq(Event))
<1> DEFINE n == Len(es)
           A == Seq(Event)
           base == NoEvents
           step == Acts(KeepAct(U), es)
           F(f) == [s \in SUBSET (1..n) |->
                      IF s = {} THEN base ELSE KeepOf(U, f[s \ {Max(s)}], es[Max(s)])]
           it == CHOOSE f : f = F(f)
<1>0. n \in Nat /\ DOMAIN es = 1..n /\ \A k \in 1..n : es[k] \in Event
  OBVIOUS
<1>1. Keep(es, U) = it[1..n]
  BY <1>0, ZenonT(60) DEF Keep, KeepOf, NoEvents, FoldLeft, MapThenFoldSet
<1>2. base \in A /\ KeepAct(U) \in [Event -> [A -> A]]
  BY KeepTyped
<1>3. \A k \in 1..n, a \in A : step[k][a] = KeepOf(U, a, es[k])
  BY <1>0 DEF Acts, KeepAct
<1>4. IsStep(step, n, A)
  BY <1>0, <1>2 DEF IsStep, Acts
<1> HIDE DEF A, step, n, base
<1>5. PICK f \in [SUBSET (1..n) -> A] : Folds(f, n, base, step)
  BY <1>0, <1>2, <1>4, FoldLemma
<1>6. f = F(f)
  <2>1. \A s \in SUBSET (1..n) : s # {} =>
          Max(s) \in 1..n /\ s \ {Max(s)} \in SUBSET (1..n)
    BY <1>0, MaxInInterval
  <2> QED
    BY <1>3, <1>5, <2>1 DEF Folds
<1>7. it = F(it)
  <2> HIDE DEF F
  <2> QED
    BY <1>6
<1>8. it[{}] = base
  <2>1. {} \in SUBSET (1..n)
    OBVIOUS
  <2> HIDE DEF it
  <2> QED
    BY <1>7, <2>1
<1>9. ASSUME NEW s \in SUBSET (1..n), s # {}, it[s \ {Max(s)}] \in A
      PROVE  it[s] = step[Max(s)][it[s \ {Max(s)}]]
  <2>1. Max(s) \in 1..n
    BY <1>0, <1>9, MaxInInterval
  <2> HIDE DEF it
  <2>2. it[s] = KeepOf(U, it[s \ {Max(s)}], es[Max(s)])
    BY <1>7, <1>9
  <2> QED
    BY <1>3, <1>9, <2>1, <2>2
<1> HIDE DEF it, F
<1>10. LargestLast(it, n, base, step, A)
  BY <1>8, <1>9 DEF LargestLast
<1>11. \E g \in [0..n -> A] : TakesSteps(g, n, base, step) /\ it[1..n] = g[n]
  BY <1>0, <1>2, <1>4, <1>10, FoldTakesSteps
<1> QED
  BY <1>1, <1>11 DEF IsFoldOf, n, A, base, step


\* Keep, event by event.
LEMMA KeepLemma ==
  ASSUME NEW U, NEW es \in Seq(Event)
  PROVE  /\ Keep(<<>>, U) = <<>>
         /\ Keep(es, U) \in Seq(Event)
         /\ \A e \in Event :
              Keep(Append(es, e), U) = IF e \in U THEN Append(Keep(es, U), e) ELSE Keep(es, U)
<1>0. <<>> \in Seq(Event)
  OBVIOUS
<1>1. \A s \in Seq(Event) : IsFoldOf(Keep(s, U), s, NoEvents, KeepAct(U), Seq(Event))
  BY KeepFold
<1>2. Keep(<<>>, U) = <<>>
  <2>1. Keep(<<>>, U) = NoEvents
    BY <1>0, <1>1, FoldOfNone
  <2> QED
    BY <2>1 DEF NoEvents
<1>3. ASSUME NEW e \in Event
      PROVE  Keep(es, U) \in Seq(Event) /\ Keep(Append(es, e), U) = KeepAct(U)[e][Keep(es, U)]
  <2>1. Append(es, e) \in Seq(Event)
    OBVIOUS
  <2>2. /\ IsFoldOf(Keep(es, U), es, NoEvents, KeepAct(U), Seq(Event))
        /\ IsFoldOf(Keep(Append(es, e), U), Append(es, e), NoEvents, KeepAct(U), Seq(Event))
    BY <1>1, <2>1
  <2>3. NoEvents \in Seq(Event) /\ KeepAct(U) \in [Event -> [Seq(Event) -> Seq(Event)]]
    BY KeepTyped
  <2> QED
    BY <2>1, <2>2, <2>3, FoldOfAppended
<1>4. Keep(es, U) \in Seq(Event)
  <2>1. PICK g \in [0..Len(es) -> Seq(Event)] : Keep(es, U) = g[Len(es)]
    BY <1>1 DEF IsFoldOf
  <2>2. Len(es) \in 0..Len(es)
    OBVIOUS
  <2> QED
    BY <2>1, <2>2
<1>5. \A e \in Event, kept \in Seq(Event) :
        KeepAct(U)[e][kept] = IF e \in U THEN Append(kept, e) ELSE kept
  BY DEF KeepAct, KeepOf
<1> QED
  BY <1>2, <1>3, <1>4, <1>5

\* What pass 1 knows of a session.
SessionState == [turns : Nat, spend : Nat, cold : Nat, retry : Nat, hasError : BOOLEAN,
                 lastTS : Int, contextPerTurn : Seq(Nat)]
Sessions == [Session -> SessionState]
NoSessions == [s \in Session |-> NewSession]
PassAct == [e \in Event |-> [sessions \in Sessions |-> Accumulate(sessions, e)]]

\* AddTurn makes one state of a session of another.
LEMMA AddTurnTyped ==
  /\ NewSession \in SessionState
  /\ \A ss \in SessionState, e \in Event : AddTurn(ss, e) \in SessionState
<1>1. NewSession \in SessionState
  BY DEF NewSession, SessionState, NoTime
<1>2. ASSUME NEW ss \in SessionState, NEW e \in Event PROVE AddTurn(ss, e) \in SessionState
  <2>1. /\ SpendOf[e] \in Nat /\ e.turn.input \in Nat /\ e.turn.cacheRead \in Nat
        /\ e.turn.isError \in BOOLEAN /\ e.ts \in Int
    BY WeightsTyped, EventTyped, TimeAssumption DEF TurnType, Time
  <2>2. /\ ss.turns \in Nat /\ ss.spend \in Nat /\ ss.cold \in Nat /\ ss.retry \in Nat
        /\ ss.contextPerTurn \in Seq(Nat)
    BY DEF SessionState
  <2>3. (ss.cold + IF IsColdRestart(ss.lastTS, e.ts) THEN e.turn.input ELSE 0) \in Nat
    BY <2>1, <2>2
  <2>4. (ss.retry + IF ss.hasError /\ ~e.turn.isError THEN SpendOf[e] ELSE 0) \in Nat
    BY <2>1, <2>2
  <2>5. Append(ss.contextPerTurn, e.turn.input + e.turn.cacheRead) \in Seq(Nat)
    <3>1. \A q \in Seq(Nat) : \A n \in Nat : Append(q, n) \in Seq(Nat)
      OBVIOUS
    <3>2. e.turn.input + e.turn.cacheRead \in Nat
      BY <2>1
    <3> QED
      BY <2>2, <3>1, <3>2
  <2> QED
    <3>1. ss.turns + 1 \in Nat /\ ss.spend + SpendOf[e] \in Nat
      BY <2>1, <2>2
    <3> QED
      BY <2>1, <2>3, <2>4, <2>5, <3>1 DEF AddTurn, SessionState
<1> QED
  BY <1>1, <1>2

\* Pass 1, as an action on the states of all sessions.
LEMMA PassTyped == NoSessions \in Sessions /\ PassAct \in [Event -> [Sessions -> Sessions]]
<1>1. NoSessions \in Sessions
  BY AddTurnTyped DEF NoSessions, Sessions
<1>2. ASSUME NEW e \in Event, NEW sessions \in Sessions PROVE Accumulate(sessions, e) \in Sessions
  BY AddTurnTyped, EventTyped DEF Accumulate, Sessions
<1> QED
  BY <1>1, <1>2 DEF PassAct

\* Pass 1 takes event after event.
LEMMA Pass1Fold ==
  ASSUME NEW es \in Seq(Event)
  PROVE  IsFoldOf(Pass1(es), es, NoSessions, PassAct, Sessions)
<1> DEFINE n == Len(es)
           A == Sessions
           base == NoSessions
           step == Acts(PassAct, es)
           F(f) == [s \in SUBSET (1..n) |->
                      IF s = {} THEN base ELSE Accumulate(f[s \ {Max(s)}], es[Max(s)])]
           it == CHOOSE f : f = F(f)
<1>0. n \in Nat /\ DOMAIN es = 1..n /\ \A k \in 1..n : es[k] \in Event
  OBVIOUS
<1>1. Pass1(es) = it[1..n]
  BY <1>0 DEF Pass1, NoSessions, FoldLeft, MapThenFoldSet
<1>2. base \in A /\ PassAct \in [Event -> [A -> A]]
  BY PassTyped
<1>3. \A k \in 1..n, a \in A : step[k][a] = Accumulate(a, es[k])
  BY <1>0 DEF Acts, PassAct
<1>4. IsStep(step, n, A)
  BY <1>0, <1>2 DEF IsStep, Acts
<1> HIDE DEF A, step, n, base
<1>5. PICK f \in [SUBSET (1..n) -> A] : Folds(f, n, base, step)
  BY <1>0, <1>2, <1>4, FoldLemma
<1>6. f = F(f)
  <2>1. \A s \in SUBSET (1..n) : s # {} =>
          Max(s) \in 1..n /\ s \ {Max(s)} \in SUBSET (1..n)
    BY <1>0, MaxInInterval
  <2> QED
    BY <1>3, <1>5, <2>1 DEF Folds
<1>7. it = F(it)
  <2> HIDE DEF F
  <2> QED
    BY <1>6
<1>8. it[{}] = base
  <2>1. {} \in SUBSET (1..n)
    OBVIOUS
  <2> HIDE DEF it
  <2> QED
    BY <1>7, <2>1
<1>9. ASSUME NEW s \in SUBSET (1..n), s # {}, it[s \ {Max(s)}] \in A
      PROVE  it[s] = step[Max(s)][it[s \ {Max(s)}]]
  <2>1. Max(s) \in 1..n
    BY <1>0, <1>9, MaxInInterval
  <2> HIDE DEF it
  <2>2. it[s] = Accumulate(it[s \ {Max(s)}], es[Max(s)])
    BY <1>7, <1>9
  <2> QED
    BY <1>3, <1>9, <2>1, <2>2
<1> HIDE DEF it, F
<1>10. LargestLast(it, n, base, step, A)
  BY <1>8, <1>9 DEF LargestLast
<1>11. \E g \in [0..n -> A] : TakesSteps(g, n, base, step) /\ it[1..n] = g[n]
  BY <1>0, <1>2, <1>4, <1>10, FoldTakesSteps
<1> QED
  BY <1>1, <1>11 DEF IsFoldOf, n, A, base, step


\* Pass1, event by event.
LEMMA Pass1Lemma ==
  ASSUME NEW es \in Seq(Event)
  PROVE  /\ Pass1(<<>>) = NoSessions
         /\ Pass1(es) \in Sessions
         /\ \A e \in Event : Pass1(Append(es, e)) = Accumulate(Pass1(es), e)
<1>0. <<>> \in Seq(Event)
  OBVIOUS
<1>1. \A s \in Seq(Event) : IsFoldOf(Pass1(s), s, NoSessions, PassAct, Sessions)
  BY Pass1Fold
<1>2. Pass1(<<>>) = NoSessions
  BY <1>0, <1>1, FoldOfNone
<1>3. ASSUME NEW e \in Event
      PROVE  Pass1(es) \in Sessions /\ Pass1(Append(es, e)) = PassAct[e][Pass1(es)]
  <2>1. Append(es, e) \in Seq(Event)
    OBVIOUS
  <2>2. /\ IsFoldOf(Pass1(es), es, NoSessions, PassAct, Sessions)
        /\ IsFoldOf(Pass1(Append(es, e)), Append(es, e), NoSessions, PassAct, Sessions)
    BY <1>1, <2>1
  <2> QED
    BY PassTyped, <2>2, FoldOfAppended
<1>4. Pass1(es) \in Sessions
  <2>1. PICK g \in [0..Len(es) -> Sessions] : Pass1(es) = g[Len(es)]
    BY <1>1 DEF IsFoldOf
  <2>2. Len(es) \in 0..Len(es)
    OBVIOUS
  <2> QED
    BY <2>1, <2>2
<1>5. \A e \in Event, sessions \in Sessions : PassAct[e][sessions] = Accumulate(sessions, e)
  BY DEF PassAct
<1> QED
  BY <1>2, <1>3, <1>4, <1>5

\* What buildStat knows of the turns so far.
Stat == [turns : Nat, spend : Nat, cost : Nat, errorTurns : Nat, fixIterations : Nat,
         coldTurns : Nat, coldTokens : Nat, prevActivity : Activity \cup {""}, prevTime : Int,
         tokens : Seq(Nat)]
StatAct == [e \in Event |-> [st \in Stat |-> StatOf(st, e)]]

\* buildStat, as an action on the statistics so far.
LEMMA StatTyped == NewStat \in Stat /\ StatAct \in [Event -> [Stat -> Stat]]
<1>1. NewStat \in Stat
  BY DEF NewStat, Stat, NoTime
<1>2. ASSUME NEW st \in Stat, NEW e \in Event PROVE StatOf(st, e) \in Stat
  <2>1. /\ AllTokens[e] \in Nat /\ CostOf[e] \in Nat /\ ActivityOf[e] \in Activity
        /\ e.ts \in Int
    BY WeightsTyped, EventTyped, TimeAssumption DEF Time
  <2>2. /\ st.turns \in Nat /\ st.spend \in Nat /\ st.cost \in Nat /\ st.errorTurns \in Nat
        /\ st.fixIterations \in Nat /\ st.coldTurns \in Nat /\ st.coldTokens \in Nat
        /\ st.tokens \in Seq(Nat)
    BY DEF Stat
  <2>3. Append(st.tokens, AllTokens[e]) \in Seq(Nat)
    BY <2>1, <2>2
  <2>4. \A n \in Nat : \A b : (n + IF b THEN 1 ELSE 0) \in Nat
    OBVIOUS
  <2>5. \A b : (st.coldTokens + IF b THEN AllTokens[e] ELSE 0) \in Nat
    BY <2>1, <2>2
  <2>0. \A a, b \in Nat : a + b \in Nat
    OBVIOUS
  <2>6. st.turns + 1 \in Nat /\ st.spend + AllTokens[e] \in Nat /\ st.cost + CostOf[e] \in Nat
    BY <2>0, <2>1, <2>2
  <2>7. /\ (st.errorTurns + IF e.turn.isError THEN 1 ELSE 0) \in Nat
        /\ (st.fixIterations + IF st.prevActivity = "testing" /\ ActivityOf[e] = "coding"
                              THEN 1 ELSE 0) \in Nat
        /\ (st.coldTurns + IF HasGoneCold(st.prevTime, e.ts) THEN 1 ELSE 0) \in Nat
        /\ (st.coldTokens + IF HasGoneCold(st.prevTime, e.ts) THEN AllTokens[e] ELSE 0) \in Nat
    BY <2>2, <2>4, <2>5
  <2> QED
    BY <2>1, <2>3, <2>6, <2>7 DEF StatOf, Stat
<1> QED
  BY <1>1, <1>2 DEF StatAct

\* The turns of a session make its statistics one after the other.
LEMMA StatFold ==
  ASSUME NEW es \in Seq(Event)
  PROVE  IsFoldOf(BuildStat(es), es, NewStat, StatAct, Stat)
<1> DEFINE n == Len(es)
           A == Stat
           base == NewStat
           step == Acts(StatAct, es)
           F(f) == [s \in SUBSET (1..n) |->
                      IF s = {} THEN base ELSE StatOf(f[s \ {Max(s)}], es[Max(s)])]
           it == CHOOSE f : f = F(f)
<1>0. n \in Nat /\ DOMAIN es = 1..n /\ \A k \in 1..n : es[k] \in Event
  OBVIOUS
<1>1. BuildStat(es) = it[1..n]
  BY <1>0 DEF BuildStat, FoldLeft, MapThenFoldSet
<1>2. base \in A /\ StatAct \in [Event -> [A -> A]]
  BY StatTyped
<1>3. \A k \in 1..n, a \in A : step[k][a] = StatOf(a, es[k])
  BY <1>0 DEF Acts, StatAct
<1>4. IsStep(step, n, A)
  BY <1>0, <1>2 DEF IsStep, Acts
<1> HIDE DEF A, step, n, base
<1>5. PICK f \in [SUBSET (1..n) -> A] : Folds(f, n, base, step)
  BY <1>0, <1>2, <1>4, FoldLemma
<1>6. f = F(f)
  <2>1. \A s \in SUBSET (1..n) : s # {} =>
          Max(s) \in 1..n /\ s \ {Max(s)} \in SUBSET (1..n)
    BY <1>0, MaxInInterval
  <2> QED
    BY <1>3, <1>5, <2>1 DEF Folds
<1>7. it = F(it)
  <2> HIDE DEF F
  <2> QED
    BY <1>6
<1>8. it[{}] = base
  <2>1. {} \in SUBSET (1..n)
    OBVIOUS
  <2> HIDE DEF it
  <2> QED
    BY <1>7, <2>1
<1>9. ASSUME NEW s \in SUBSET (1..n), s # {}, it[s \ {Max(s)}] \in A
      PROVE  it[s] = step[Max(s)][it[s \ {Max(s)}]]
  <2>1. Max(s) \in 1..n
    BY <1>0, <1>9, MaxInInterval
  <2> HIDE DEF it
  <2>2. it[s] = StatOf(it[s \ {Max(s)}], es[Max(s)])
    BY <1>7, <1>9
  <2> QED
    BY <1>3, <1>9, <2>1, <2>2
<1> HIDE DEF it, F
<1>10. LargestLast(it, n, base, step, A)
  BY <1>8, <1>9 DEF LargestLast
<1>11. \E g \in [0..n -> A] : TakesSteps(g, n, base, step) /\ it[1..n] = g[n]
  BY <1>0, <1>2, <1>4, <1>10, FoldTakesSteps
<1> QED
  BY <1>1, <1>11 DEF IsFoldOf, n, A, base, step


\* BuildStat, turn by turn.
LEMMA StatLemma ==
  ASSUME NEW es \in Seq(Event)
  PROVE  /\ BuildStat(<<>>) = NewStat
         /\ BuildStat(es) \in Stat
         /\ \A e \in Event : BuildStat(Append(es, e)) = StatOf(BuildStat(es), e)
<1>0. <<>> \in Seq(Event)
  OBVIOUS
<1>1. \A s \in Seq(Event) : IsFoldOf(BuildStat(s), s, NewStat, StatAct, Stat)
  BY StatFold
<1>2. BuildStat(<<>>) = NewStat
  BY <1>0, <1>1, FoldOfNone
<1>3. ASSUME NEW e \in Event
      PROVE  BuildStat(es) \in Stat /\ BuildStat(Append(es, e)) = StatAct[e][BuildStat(es)]
  <2>1. Append(es, e) \in Seq(Event)
    OBVIOUS
  <2>2. /\ IsFoldOf(BuildStat(es), es, NewStat, StatAct, Stat)
        /\ IsFoldOf(BuildStat(Append(es, e)), Append(es, e), NewStat, StatAct, Stat)
    BY <1>1, <2>1
  <2> QED
    BY StatTyped, <2>2, FoldOfAppended
<1>4. BuildStat(es) \in Stat
  <2>1. PICK g \in [0..Len(es) -> Stat] : BuildStat(es) = g[Len(es)]
    BY <1>1 DEF IsFoldOf
  <2>2. Len(es) \in 0..Len(es)
    OBVIOUS
  <2> QED
    BY <2>1, <2>2
<1>5. \A e \in Event, st \in Stat : StatAct[e][st] = StatOf(st, e)
  BY DEF StatAct
<1> QED
  BY <1>2, <1>3, <1>4, <1>5

-----------------------------------------------------------------------------
(* Parts of the events, and what they add up to. *)

\* What is kept of a part is what is kept of both.
LEMMA SumOfKept ==
  ASSUME NEW w \in [Event -> Nat], NEW U, NEW V, NEW es \in Seq(Event)
  PROVE  SumIn(w, Keep(es, U), V) = SumIn(w, es, U \cap V)
<1> DEFINE Holds(s) == SumIn(w, Keep(s, U), V) = SumIn(w, s, U \cap V)
           T == {s \in Seq(Event) : Holds(s)}
<1>1. Holds(<<>>)
  <2>1. <<>> \in Seq(Event)
    OBVIOUS
  <2> QED
    BY <2>1, KeepLemma, SumInLemma
<1>2. ASSUME NEW s \in Seq(Event), NEW e \in Event, Holds(s) PROVE Holds(Append(s, e))
  <2>1. Keep(s, U) \in Seq(Event)
    BY KeepLemma
  <2>2. Keep(Append(s, e), U) = IF e \in U THEN Append(Keep(s, U), e) ELSE Keep(s, U)
    BY KeepLemma
  <2>3. SumIn(w, Append(s, e), U \cap V) = SumIn(w, s, U \cap V) + Weight(w, e, U \cap V)
    BY SumInLemma
  <2>4. SumIn(w, Append(Keep(s, U), e), V) = SumIn(w, Keep(s, U), V) + Weight(w, e, V)
    BY <2>1, SumInLemma
  <2>5. SumIn(w, Keep(s, U), V) \in Nat
    BY <2>1, SumInLemma
  <2>6. /\ e \in U => Weight(w, e, U \cap V) = Weight(w, e, V)
        /\ e \notin U => Weight(w, e, U \cap V) = 0
    BY DEF Weight
  <2>7. CASE e \in U
    BY <1>2, <2>2, <2>3, <2>4, <2>6, <2>7
  <2>8. CASE e \notin U
    BY <1>2, <2>2, <2>3, <2>5, <2>6, <2>8
  <2> QED
    BY <2>7, <2>8
<1> HIDE DEF Holds
<1>3. <<>> \in T /\ \A s \in Seq(Event) : \A e \in Event : s \in T => Append(s, e) \in T
  BY <1>1, <1>2
<1> HIDE DEF T
<1>4. Seq(Event) \subseteq T
  BY <1>3, SequenceInduction
<1> QED
  BY <1>4 DEF T, Holds

\* And it is the same list.
LEMMA KeptOfKept ==
  ASSUME NEW U, NEW V, NEW es \in Seq(Event)
  PROVE  Keep(Keep(es, U), V) = Keep(es, U \cap V)
<1> DEFINE Holds(s) == Keep(Keep(s, U), V) = Keep(s, U \cap V)
           T == {s \in Seq(Event) : Holds(s)}
<1>1. Holds(<<>>)
  <2>1. <<>> \in Seq(Event)
    OBVIOUS
  <2> QED
    BY <2>1, KeepLemma
<1>2. ASSUME NEW s \in Seq(Event), NEW e \in Event, Holds(s) PROVE Holds(Append(s, e))
  <2>1. Keep(s, U) \in Seq(Event)
    BY KeepLemma
  <2>2. Keep(Append(s, e), U) = IF e \in U THEN Append(Keep(s, U), e) ELSE Keep(s, U)
    BY KeepLemma
  <2>3. Keep(Append(s, e), U \cap V) =
          IF e \in U \cap V THEN Append(Keep(s, U \cap V), e) ELSE Keep(s, U \cap V)
    BY KeepLemma
  <2>4. Keep(Append(Keep(s, U), e), V) =
          IF e \in V THEN Append(Keep(Keep(s, U), V), e) ELSE Keep(Keep(s, U), V)
    BY <2>1, KeepLemma
  <2>5. CASE e \in U
    <3>1. Keep(Append(s, e), U) = Append(Keep(s, U), e)
      BY <2>2, <2>5
    <3>2. CASE e \in V
      BY <1>2, <2>3, <2>4, <2>5, <3>1, <3>2
    <3>3. CASE e \notin V
      BY <1>2, <2>3, <2>4, <3>1, <3>3
    <3> QED
      BY <3>2, <3>3
  <2>6. CASE e \notin U
    BY <1>2, <2>2, <2>3, <2>6
  <2> QED
    BY <2>5, <2>6
<1> HIDE DEF Holds
<1>3. <<>> \in T /\ \A s \in Seq(Event) : \A e \in Event : s \in T => Append(s, e) \in T
  BY <1>1, <1>2
<1> HIDE DEF T
<1>4. Seq(Event) \subseteq T
  BY <1>3, SequenceInduction
<1> QED
  BY <1>4 DEF T, Holds

\* A part, with lighter events, adds up to less.
LEMMA SumOfLess ==
  ASSUME NEW w \in [Event -> Nat], NEW v \in [Event -> Nat], NEW U, NEW V, NEW es \in Seq(Event),
         \A e \in Event : e \in U => e \in V /\ w[e] <= v[e]
  PROVE  SumIn(w, es, U) <= SumIn(v, es, V)
<1> DEFINE Holds(s) == SumIn(w, s, U) <= SumIn(v, s, V)
           T == {s \in Seq(Event) : Holds(s)}
<1>1. Holds(<<>>)
  <2>1. <<>> \in Seq(Event)
    OBVIOUS
  <2>2. SumIn(w, <<>>, U) = 0 /\ SumIn(v, <<>>, V) = 0
    BY <2>1, SumInLemma
  <2> QED
    BY <2>2
<1>2. ASSUME NEW s \in Seq(Event), NEW e \in Event, Holds(s) PROVE Holds(Append(s, e))
  <2>1. SumIn(w, Append(s, e), U) = SumIn(w, s, U) + Weight(w, e, U)
    BY SumInLemma
  <2>2. SumIn(v, Append(s, e), V) = SumIn(v, s, V) + Weight(v, e, V)
    BY SumInLemma
  <2>3. SumIn(w, s, U) \in Nat /\ SumIn(v, s, V) \in Nat
    BY SumInLemma
  <2>4. w[e] \in Nat /\ v[e] \in Nat /\ (e \in U => e \in V /\ w[e] <= v[e])
    OBVIOUS
  <2>5. Weight(w, e, U) \in Nat /\ Weight(v, e, V) \in Nat /\ Weight(w, e, U) <= Weight(v, e, V)
    BY <2>4 DEF Weight
  <2> QED
    BY <1>2, <2>1, <2>2, <2>3, <2>5
<1> HIDE DEF Holds
<1>3. <<>> \in T /\ \A s \in Seq(Event) : \A e \in Event : s \in T => Append(s, e) \in T
  BY <1>1, <1>2
<1> HIDE DEF T
<1>4. Seq(Event) \subseteq T
  BY <1>3, SequenceInduction
<1> QED
  BY <1>4 DEF T, Holds

\* The same events add up to the same.
LEMMA SumOfSame ==
  ASSUME NEW w \in [Event -> Nat], NEW U, NEW V, NEW es \in Seq(Event),
         \A e \in Event : e \in U <=> e \in V
  PROVE  SumIn(w, es, U) = SumIn(w, es, V)
<1>1. \A e \in Event : w[e] <= w[e]
  OBVIOUS
<1>2. SumIn(w, es, U) <= SumIn(w, es, V)
  BY <1>1, SumOfLess
<1>3. SumIn(w, es, V) <= SumIn(w, es, U)
  BY <1>1, SumOfLess
<1>4. SumIn(w, es, U) \in Nat /\ SumIn(w, es, V) \in Nat
  BY SumInLemma
<1> QED
  BY <1>2, <1>3, <1>4

\* Every event of U is in one of the parts, and no other event in any.
Partition(part, K, U) ==
  \A e \in Event :
    /\ e \in U => \E k \in K : e \in part[k] /\ \A j \in K \ {k} : e \notin part[j]
    /\ e \notin U => \A k \in K : e \notin part[k]

\* The parts add up to the whole, event by event.
LEMMA SumOfPartition ==
  ASSUME NEW w \in [Event -> Nat], NEW K, IsFiniteSet(K), NEW part, NEW U, Partition(part, K, U),
         NEW es \in Seq(Event)
  PROVE  SumFunction([k \in K |-> SumIn(w, es, part[k])]) = SumIn(w, es, U)
<1> DEFINE v(s) == [k \in K |-> SumIn(w, s, part[k])]
           Holds(s) == SumFunction(v(s)) = SumIn(w, s, U)
           T == {s \in Seq(Event) : Holds(s)}
<1>0. \A s \in Seq(Event) : IsWeight(v(s), K)
  <2>1. \A s \in Seq(Event), k \in K : SumIn(w, s, part[k]) \in Nat
    BY SumInLemma
  <2> QED
    BY <2>1 DEF IsWeight
<1>1. Holds(<<>>)
  <2>1. <<>> \in Seq(Event)
    OBVIOUS
  <2>2. SumIn(w, <<>>, U) = 0 /\ \A k \in K : SumIn(w, <<>>, part[k]) = 0
    BY <2>1, SumInLemma
  <2>3. \A k \in K : v(<<>>)[k] = 0
    BY <2>2
  <2> HIDE DEF v
  <2>4. SumFunction(v(<<>>)) = 0
    BY <1>0, <2>1, <2>3, SumIsNatural
  <2> QED
    BY <2>2, <2>4
<1>2. ASSUME NEW s \in Seq(Event), NEW e \in Event, Holds(s) PROVE Holds(Append(s, e))
  <2> DEFINE more == Append(s, e)
  <2>0. more \in Seq(Event)
    OBVIOUS
  <2>1. SumIn(w, more, U) = SumIn(w, s, U) + Weight(w, e, U)
    BY SumInLemma
  <2>2. \A k \in K : SumIn(w, more, part[k]) = SumIn(w, s, part[k]) + Weight(w, e, part[k])
    BY SumInLemma
  <2>3. w[e] \in Nat /\ SumIn(w, s, U) \in Nat /\ \A k \in K : SumIn(w, s, part[k]) \in Nat
    BY SumInLemma
  <2>w. \A V : /\ e \in V => Weight(w, e, V) = w[e]
              /\ e \notin V => Weight(w, e, V) = 0
    BY DEF Weight
  <2> HIDE DEF more
  <2>4. CASE e \in U
    <3>1. PICK k \in K : e \in part[k] /\ \A j \in K \ {k} : e \notin part[j]
      BY <2>4 DEF Partition
    <3>2. v(more)[k] = v(s)[k] + w[e] /\ v(s)[k] \in Nat
      <4>1. Weight(w, e, part[k]) = w[e]
        BY <3>1 DEF Weight
      <4> QED
        BY <2>2, <2>3, <4>1
    <3>3. \A j \in K \ {k} : v(more)[j] = v(s)[j]
      <4> SUFFICES ASSUME NEW j \in K \ {k} PROVE v(more)[j] = v(s)[j]
        OBVIOUS
      <4>1. e \notin part[j]
        BY <3>1
      <4>2. Weight(w, e, part[j]) = 0
        BY <4>1 DEF Weight
      <4> QED
        BY <2>2, <2>3, <4>2
    <3>4. IsWeight(v(more), K) /\ IsWeight(v(s), K)
      BY <1>0, <2>0
    <3> HIDE DEF v
    <3>5. SumFunction(v(more)) + v(s)[k] = SumFunction(v(s)) + v(more)[k]
      BY <3>3, <3>4, SumWithOneChanged
    <3>6. SumFunction(v(more)) \in Nat /\ SumFunction(v(s)) \in Nat
      BY <3>4, SumIsNatural
    <3> QED
      <4>1. SumIn(w, more, U) = SumIn(w, s, U) + w[e]
        <5>1. Weight(w, e, U) = w[e]
          BY <2>4 DEF Weight
        <5> QED
          BY <2>1, <5>1
      <4>2. SumFunction(v(more)) = SumFunction(v(s)) + w[e]
        BY <2>3, <3>2, <3>5, <3>6
      <4>3. SumFunction(v(s)) = SumIn(w, s, U)
        BY <1>2
      <4> QED
        BY <4>1, <4>2, <4>3 DEF more
  <2>5. CASE e \notin U
    <3>1. \A k \in K : SumIn(w, more, part[k]) = SumIn(w, s, part[k])
      <4> SUFFICES ASSUME NEW k \in K PROVE SumIn(w, more, part[k]) = SumIn(w, s, part[k])
        OBVIOUS
      <4>1. e \notin part[k]
        BY <2>5 DEF Partition
      <4>2. Weight(w, e, part[k]) = 0
        BY <4>1 DEF Weight
      <4> QED
        BY <2>2, <2>3, <4>2
    <3>2. v(more) = v(s)
      BY <3>1
    <3> HIDE DEF v
    <3> QED
      <4>1. SumIn(w, more, U) = SumIn(w, s, U)
        BY <2>1, <2>3, <2>5, <2>w
      <4> QED
        BY <1>2, <3>2, <4>1 DEF more
  <2> QED
    BY <2>4, <2>5
<1> HIDE DEF Holds
<1>3. <<>> \in T /\ \A s \in Seq(Event) : \A e \in Event : s \in T => Append(s, e) \in T
  BY <1>1, <1>2
<1> HIDE DEF T
<1>4. Seq(Event) \subseteq T
  BY <1>3, SequenceInduction
<1> QED
  BY <1>4 DEF T, Holds
PartSums(w, es, part, K) == SumFunction([k \in K |-> SumIn(w, es, part[k])])

\* The same, of a partition that is given as a function.
LEMMA SumOverPartition ==
  \A w \in [Event -> Nat] : \A es \in Seq(Event) : \A K : \A part : \A U :
    IsFiniteSet(K) /\ Partition(part, K, U) => PartSums(w, es, part, K) = SumIn(w, es, U)
BY SumOfPartition DEF PartSums

-----------------------------------------------------------------------------
(* The metrics. *)

\* What the engine computes, field by field.
LEMMA ComputeFields ==
  ASSUME NEW es
  PROVE  /\ Compute(es).sessions = Cardinality(SessionsOf(es))
         /\ Compute(es).spend = SumFunction([s \in Session |-> Pass1(es)[s].spend])
         /\ Compute(es).cold = SumFunction([s \in Session |-> Pass1(es)[s].cold])
         /\ Compute(es).retry = SumFunction([s \in Session |-> Pass1(es)[s].retry])
         /\ Compute(es).bloated = Cardinality({s \in Session : IsBloated(Pass1(es)[s])})
         /\ Compute(es).long = Cardinality({s \in Session : IsLong(Pass1(es)[s])})
         /\ Compute(es).input = Sum(InputOf, es)
         /\ Compute(es).cost = Sum(CostOf, es)
         /\ Compute(es).byActivity = ByActivity(es)
         /\ Compute(es).byModel = ByModel(es)
         /\ Compute(es).premium = PremiumWaste(es)
BY DEF Compute

\* And the ratios of them.
LEMMA ComputeRatios ==
  ASSUME NEW es
  PROVE  /\ Compute(es).cacheHitRatio =
              SafeDiv(Sum(CacheReadOf, es),
                      Compute(es).input + Sum(CacheReadOf, es) + Sum(CacheCreationOf, es))
         /\ Compute(es).reworkRatio = SafeDiv(Compute(es).retry, Compute(es).spend)
         /\ Compute(es).retryShare = SafeDiv(Compute(es).retry, Compute(es).spend)
         /\ Compute(es).thinkToCodeRatio =
              SafeDiv(ByActivity(es)["thinking"].tokens,
                      ByActivity(es)["thinking"].tokens + ByActivity(es)["coding"].tokens)
         /\ Compute(es).contextBloatShare = SafeDiv(Compute(es).bloated, Compute(es).long)
         /\ Compute(es).coldRestartShare = SafeDiv(Compute(es).cold, Compute(es).input)
         /\ Compute(es).premiumWasteShare = SafeDiv(PremiumWaste(es), Compute(es).spend)
BY DEF Compute

\* An event changes the state of its own session alone.
LEMMA AccumulateAt ==
  ASSUME NEW sessions \in Sessions, NEW e \in Event, NEW s \in Session
  PROVE  /\ s = e.session => Accumulate(sessions, e)[s] = AddTurn(sessions[s], e)
         /\ s # e.session => Accumulate(sessions, e)[s] = sessions[s]
         /\ sessions[s] \in SessionState
BY DEF Accumulate, Sessions

\* The sessions of a list of events.
LEMMA SessionsOfLemma ==
  ASSUME NEW es \in Seq(Event)
  PROVE  /\ SessionsOf(<<>>) = {}
         /\ SessionsOf(es) \subseteq Session
         /\ \A e \in Event : SessionsOf(Append(es, e)) = SessionsOf(es) \cup {e.session}
<1>0. DOMAIN es = 1..Len(es) /\ Len(es) \in Nat /\ \A i \in 1..Len(es) : es[i] \in Event
  OBVIOUS
<1>1. SessionsOf(<<>>) = {}
  BY DEF SessionsOf
<1>2. SessionsOf(es) \subseteq Session
  BY <1>0, EventTyped DEF SessionsOf
<1>3. ASSUME NEW e \in Event PROVE SessionsOf(Append(es, e)) = SessionsOf(es) \cup {e.session}
  <2> DEFINE more == Append(es, e)
             n == Len(es)
  <2>1. DOMAIN more = 1..(n + 1) /\ more[n + 1] = e /\ \A i \in 1..n : more[i] = es[i]
    OBVIOUS
  <2>2. DOMAIN es = 1..n /\ n \in Nat
    BY <1>0
  <2>3. n + 1 \in 1..(n + 1) /\ \A i \in 1..(n + 1) : i \in 1..n \/ i = n + 1
    BY <2>2
  <2>4. \A i \in 1..n : i \in 1..(n + 1)
    BY <2>2
  <2> HIDE DEF more, n
  <2>5. SessionsOf(more) = {more[i].session : i \in 1..(n + 1)}
    BY <2>1 DEF SessionsOf
  <2>6. SessionsOf(es) = {es[i].session : i \in 1..n}
    BY <2>2 DEF SessionsOf
  <2>7. SessionsOf(more) = SessionsOf(es) \cup {e.session}
    BY <2>1, <2>3, <2>4, <2>5, <2>6
  <2> QED
    BY <2>7 DEF more
<1> QED
  BY <1>1, <1>2, <1>3

\* What pass 1 knows of a session, as what the session's events add up to.
LEMMA SessionTotals ==
  ASSUME NEW es \in Seq(Event), NEW s \in Session
  PROVE  /\ Pass1(es)[s] \in SessionState
         /\ Pass1(es)[s].spend = SumIn(SpendOf, es, InSession(s))
         /\ Pass1(es)[s].cold <= SumIn(InputOf, es, InSession(s))
         /\ Pass1(es)[s].retry <= Pass1(es)[s].spend
         /\ s \notin SessionsOf(es) => Pass1(es)[s] = NewSession
         /\ s \in SessionsOf(es) => Pass1(es)[s].turns > 0
<1> DEFINE At(q) == Pass1(q)[s]
           Holds(q) == /\ At(q) \in SessionState
                       /\ At(q).spend = SumIn(SpendOf, q, InSession(s))
                       /\ At(q).cold <= SumIn(InputOf, q, InSession(s))
                       /\ At(q).retry <= At(q).spend
                       /\ s \notin SessionsOf(q) => At(q) = NewSession
                       /\ s \in SessionsOf(q) => At(q).turns > 0
           T == {q \in Seq(Event) : Holds(q)}
<1>1. Holds(<<>>)
  <2>1. <<>> \in Seq(Event) /\ Pass1(<<>>)[s] = NewSession
    BY Pass1Lemma DEF NoSessions
  <2>2. SumIn(SpendOf, <<>>, InSession(s)) = 0 /\ SumIn(InputOf, <<>>, InSession(s)) = 0
    BY <2>1, SumInLemma, WeightsTyped
  <2>3. SessionsOf(<<>>) = {}
    BY <2>1, SessionsOfLemma
  <2>4. NewSession.spend = 0 /\ NewSession.cold = 0 /\ NewSession.retry = 0
    BY DEF NewSession
  <2> QED
    BY <2>1, <2>2, <2>3, <2>4, AddTurnTyped
<1>2. ASSUME NEW q \in Seq(Event), NEW e \in Event, Holds(q) PROVE Holds(Append(q, e))
  <2> DEFINE more == Append(q, e)
             ss == Pass1(q)[s]
  <2>1. Pass1(more) = Accumulate(Pass1(q), e) /\ Pass1(q) \in Sessions
    BY Pass1Lemma
  <2>2. SumIn(SpendOf, more, InSession(s)) = SumIn(SpendOf, q, InSession(s)) + Weight(SpendOf, e, InSession(s))
    BY SumInLemma, WeightsTyped
  <2>3. SumIn(InputOf, more, InSession(s)) = SumIn(InputOf, q, InSession(s)) + Weight(InputOf, e, InSession(s))
    BY SumInLemma, WeightsTyped
  <2>4. SessionsOf(more) = SessionsOf(q) \cup {e.session}
    BY SessionsOfLemma
  <2>5. SumIn(SpendOf, q, InSession(s)) \in Nat /\ SumIn(InputOf, q, InSession(s)) \in Nat
    BY SumInLemma, WeightsTyped
  <2>6. ss \in SessionState
    BY <1>2
  <2>7. /\ ss.spend = SumIn(SpendOf, q, InSession(s)) /\ ss.cold <= SumIn(InputOf, q, InSession(s))
        /\ ss.retry <= ss.spend
        /\ s \notin SessionsOf(q) => ss = NewSession
        /\ s \in SessionsOf(q) => ss.turns > 0
    BY <1>2
  <2> HIDE DEF more, ss
  <2>8. CASE s = e.session
    <3>1. Pass1(more)[s] = AddTurn(ss, e)
      BY <2>1, <2>8, AccumulateAt DEF ss
    <3>2. Weight(SpendOf, e, InSession(s)) = SpendOf[e] /\ Weight(InputOf, e, InSession(s)) = e.turn.input
      BY <2>8 DEF Weight, InSession, InputOf
    <3>3. AddTurn(ss, e) \in SessionState
      BY <2>6, AddTurnTyped
    <3>4. SpendOf[e] \in Nat /\ e.turn.input \in Nat
      BY WeightsTyped, EventTyped DEF TurnType
    <3>5. /\ ss.spend \in Nat /\ ss.cold \in Nat /\ ss.retry \in Nat /\ ss.turns \in Nat
      BY <2>6 DEF SessionState
    <3> DEFINE cold == IF IsColdRestart(ss.lastTS, e.ts) THEN e.turn.input ELSE 0
               retry == IF ss.hasError /\ ~e.turn.isError THEN SpendOf[e] ELSE 0
               next == AddTurn(ss, e)
    <3>6. /\ next.turns = ss.turns + 1 /\ next.spend = ss.spend + SpendOf[e]
          /\ next.cold = ss.cold + cold /\ next.retry = ss.retry + retry
      BY DEF AddTurn
    <3>7. cold \in Nat /\ retry \in Nat /\ cold <= e.turn.input /\ retry <= SpendOf[e]
      BY <3>4
    <3> HIDE DEF cold, retry, next
    <3>8. next.spend = SumIn(SpendOf, more, InSession(s))
      BY <2>2, <2>7, <3>2, <3>6
    <3>9. next.cold <= SumIn(InputOf, more, InSession(s))
      <4>1. ASSUME NEW a \in Nat, NEW b \in Nat, NEW c \in Nat, NEW d \in Nat, a <= b, c <= d
            PROVE  a + c <= b + d
        BY <4>1
      <4>2. ss.cold + cold <= SumIn(InputOf, q, InSession(s)) + e.turn.input
        BY <2>5, <2>7, <3>4, <3>5, <3>7, <4>1
      <4>3. SumIn(InputOf, more, InSession(s)) = SumIn(InputOf, q, InSession(s)) + e.turn.input
        BY <2>3, <3>2
      <4> QED
        BY <3>6, <4>2, <4>3
    <3>10. next.retry <= next.spend
      BY <2>7, <3>4, <3>5, <3>6, <3>7
    <3>11. next.turns > 0 /\ s \in SessionsOf(more)
      BY <2>4, <2>8, <3>5, <3>6
    <3> QED
      BY <3>1, <3>3, <3>8, <3>9, <3>10, <3>11 DEF next, more
  <2>9. CASE s # e.session
    <3>1. Pass1(more)[s] = ss
      BY <2>1, <2>9, AccumulateAt DEF ss
    <3>2. Weight(SpendOf, e, InSession(s)) = 0 /\ Weight(InputOf, e, InSession(s)) = 0
      BY <2>9 DEF Weight, InSession
    <3>3. SumIn(SpendOf, more, InSession(s)) = SumIn(SpendOf, q, InSession(s))
      BY <2>2, <2>5, <3>2
    <3>4. SumIn(InputOf, more, InSession(s)) = SumIn(InputOf, q, InSession(s))
      BY <2>3, <2>5, <3>2
    <3>5. s \in SessionsOf(more) <=> s \in SessionsOf(q)
      BY <2>4, <2>9
    <3> QED
      BY <2>6, <2>7, <3>1, <3>3, <3>4, <3>5 DEF more
  <2> QED
    BY <2>8, <2>9
<1> HIDE DEF Holds
<1>3. <<>> \in T /\ \A q \in Seq(Event) : \A e \in Event : q \in T => Append(q, e) \in T
  BY <1>1, <1>2
<1> HIDE DEF T
<1>4. Seq(Event) \subseteq T
  BY <1>3, SequenceInduction
<1> QED
  BY <1>4 DEF T, Holds

\* The sessions partition the events.
LEMMA BySessions == Partition([s \in Session |-> InSession(s)], Session, Event)
BY EventTyped DEF Partition, InSession

\* And so the engine's totals are those of all events.
LEMMA TotalsOfCompute ==
  ASSUME NEW es \in Seq(Event)
  PROVE  /\ Compute(es).spend = Sum(SpendOf, es) /\ Compute(es).spend \in Nat
         /\ Compute(es).input \in Nat /\ Compute(es).cost \in Nat
         /\ Compute(es).retry \in Nat /\ Compute(es).retry <= Compute(es).spend
         /\ Compute(es).cold \in Nat /\ Compute(es).cold <= Compute(es).input
         /\ Compute(es).input <= Compute(es).spend
<1> DEFINE ss == [s \in Session |-> InSession(s)]
           spend == [s \in Session |-> Pass1(es)[s].spend]
           cold == [s \in Session |-> Pass1(es)[s].cold]
           retry == [s \in Session |-> Pass1(es)[s].retry]
           spendIn == [s \in Session |-> SumIn(SpendOf, es, ss[s])]
           inputIn == [s \in Session |-> SumIn(InputOf, es, ss[s])]
<1>f. IsFiniteSet(Session)
  BY FiniteAssumption
<1>1. IsWeight(spend, Session) /\ IsWeight(cold, Session) /\ IsWeight(retry, Session)
  BY SessionTotals DEF IsWeight, SessionState
<1>2. IsWeight(inputIn, Session)
  BY SumInLemma, WeightsTyped DEF IsWeight
<1>3. spend = spendIn
  BY SessionTotals
<1>4. (\A s \in Session : cold[s] <= inputIn[s]) /\ \A s \in Session : retry[s] <= spend[s]
  BY SessionTotals
<1>5. Partition(ss, Session, Event)
  BY BySessions
<1>6. /\ Compute(es).spend = SumFunction(spend) /\ Compute(es).cold = SumFunction(cold)
      /\ Compute(es).retry = SumFunction(retry)
      /\ Compute(es).input = Sum(InputOf, es) /\ Compute(es).cost = Sum(CostOf, es)
  BY ComputeFields
<1> HIDE DEF ss, spend, cold, retry
<1>7. SumFunction(spendIn) = SumIn(SpendOf, es, Event) /\ SumFunction(inputIn) = SumIn(InputOf, es, Event)
  <2>1. SpendOf \in [Event -> Nat] /\ InputOf \in [Event -> Nat]
    BY WeightsTyped
  <2>2. ASSUME NEW w \in [Event -> Nat]
        PROVE  SumFunction([s \in Session |-> SumIn(w, es, ss[s])]) = SumIn(w, es, Event)
    BY <1>f, <1>5, SumOfPartition
  <2> QED
    BY <2>1, <2>2
<1> HIDE DEF spendIn, inputIn
<1>8. /\ Sum(SpendOf, es) = SumIn(SpendOf, es, Event) /\ Sum(InputOf, es) = SumIn(InputOf, es, Event)
      /\ Sum(CostOf, es) = SumIn(CostOf, es, Event)
  BY SumIsSumIn
<1>9. SumFunction(retry) <= SumFunction(spend) /\ SumFunction(cold) <= SumFunction(inputIn)
  BY <1>f, <1>1, <1>2, <1>4, SumGrows
<1>10. SumFunction(retry) \in Nat /\ SumFunction(cold) \in Nat /\ SumFunction(spend) \in Nat
  BY <1>f, <1>1, SumIsNatural
<1>11. /\ SumIn(InputOf, es, Event) \in Nat /\ SumIn(CostOf, es, Event) \in Nat
  BY SumInLemma, WeightsTyped
<1>12. \A e \in Event : InputOf[e] <= SpendOf[e]
  BY EventTyped DEF InputOf, SpendOf, TurnType
<1>13. SumIn(InputOf, es, Event) <= SumIn(SpendOf, es, Event)
  BY <1>12, SumOfLess, WeightsTyped
<1> QED
  BY <1>3, <1>6, <1>7, <1>8, <1>9, <1>10, <1>11, <1>13

-----------------------------------------------------------------------------
(* The table of the events. *)

EventsOK == events \in Seq(Event) /\ IsByTime(events)

\* Whatever is stored, the table has events in the order of their times.
LEMMA EventsInvariant == StoreSpec => []EventsOK
<1>1. StoreInit => EventsOK
  BY DEF StoreInit, EventsOK, IsByTime
<1>2. ASSUME EventsOK, [StoreNext]_events PROVE EventsOK'
  <2>1. CASE UNCHANGED events
    BY <1>2, <2>1 DEF EventsOK, IsByTime
  <2>2. CASE StoreNext
    <3>1. PICK s \in Session, t \in Time, turn \in Turn : Store([session |-> s, ts |-> t, turn |-> turn])
      BY <2>2 DEF StoreNext
    <3> DEFINE e == [session |-> s, ts |-> t, turn |-> turn]
    <3>2. e \in Event
      BY DEF Event
    <3> HIDE DEF e
    <3>3. /\ \E i \in 1..(Len(events) + 1) : events' = InsertAt(events, i, e)
          /\ IsByTime(events)'
      BY <3>1 DEF Store, e
    <3>4. PICK i \in 1..(Len(events) + 1) : events' = InsertAt(events, i, e)
      BY <3>3
    <3>5. events \in Seq(Event)
      BY <1>2 DEF EventsOK
    <3>6. InsertAt(events, i, e) \in Seq(Event)
      <4>1. SubSeq(events, 1, i - 1) \in Seq(Event) /\ SubSeq(events, i, Len(events)) \in Seq(Event)
        BY <3>5
      <4>2. <<e>> \in Seq(Event)
        BY <3>2
      <4>3. \A a, b \in Seq(Event) : a \o b \in Seq(Event)
        OBVIOUS
      <4> QED
        BY <4>1, <4>2, <4>3 DEF InsertAt
    <3> QED
      BY <3>3, <3>4, <3>6 DEF EventsOK
  <2> QED
    BY <1>2, <2>1, <2>2
<1> QED
  BY <1>1, <1>2, PTL DEF StoreSpec

-----------------------------------------------------------------------------
(* The two halves of a window. *)

\* Two parts that share no event add up to both together.
Halves(U, V, W) == \A e \in Event : (e \in W <=> e \in U \/ e \in V) /\ ~(e \in U /\ e \in V)

\* Event by event, for any weights.
LEMMA SumOfHalves ==
  ASSUME NEW w \in [Event -> Nat], NEW U, NEW V, NEW W, Halves(U, V, W), NEW es \in Seq(Event)
  PROVE  SumIn(w, es, U) + SumIn(w, es, V) = SumIn(w, es, W)
<1> DEFINE Holds(s) == SumIn(w, s, U) + SumIn(w, s, V) = SumIn(w, s, W)
           T == {s \in Seq(Event) : Holds(s)}
<1>1. Holds(<<>>)
  <2>1. <<>> \in Seq(Event)
    OBVIOUS
  <2>2. SumIn(w, <<>>, U) = 0 /\ SumIn(w, <<>>, V) = 0 /\ SumIn(w, <<>>, W) = 0
    BY <2>1, SumInLemma
  <2> QED
    BY <2>2
<1>2. ASSUME NEW s \in Seq(Event), NEW e \in Event, Holds(s) PROVE Holds(Append(s, e))
  <2>1. SumIn(w, Append(s, e), U) = SumIn(w, s, U) + Weight(w, e, U)
    BY SumInLemma
  <2>2. SumIn(w, Append(s, e), V) = SumIn(w, s, V) + Weight(w, e, V)
    BY SumInLemma
  <2>3. SumIn(w, Append(s, e), W) = SumIn(w, s, W) + Weight(w, e, W)
    BY SumInLemma
  <2>4. SumIn(w, s, U) \in Nat /\ SumIn(w, s, V) \in Nat /\ SumIn(w, s, W) \in Nat
    BY SumInLemma
  <2>5. Weight(w, e, W) = Weight(w, e, U) + Weight(w, e, V)
    <3>1. w[e] \in Nat
      OBVIOUS
    <3> QED
      BY <3>1 DEF Weight, Halves
  <2>6. Weight(w, e, U) \in Nat /\ Weight(w, e, V) \in Nat
    BY SumInLemma
  <2> QED
    BY <1>2, <2>1, <2>2, <2>3, <2>4, <2>5, <2>6
<1> HIDE DEF Holds
<1>3. <<>> \in T /\ \A s \in Seq(Event) : \A e \in Event : s \in T => Append(s, e) \in T
  BY <1>1, <1>2
<1> HIDE DEF T
<1>4. Seq(Event) \subseteq T
  BY <1>3, SequenceInduction
<1> QED
  BY <1>4 DEF T, Holds

\* A change that is no change elsewhere is the change of the whole.
LEMMA SumOfChanges ==
  ASSUME NEW S, IsFiniteSet(S), NEW p, IsWeight(p, S), NEW q, IsWeight(q, S),
         NEW t \in SUBSET S, \A x \in S \ t : p[x] = q[x]
  PROVE  SumFunction([x \in t |-> p[x] - q[x]]) = SumFunction(p) - SumFunction(q)
<1> DEFINE In(w) == [x \in S |-> IF x \in t THEN w[x] ELSE 0]
           Out(w) == [x \in S |-> IF x \in t THEN 0 ELSE w[x]]
           On(w) == [x \in t |-> w[x]]
<1>0. IsFiniteSet(t)
  BY FS_Subset
<1>1. ASSUME NEW w, IsWeight(w, S)
      PROVE  /\ SumFunction(w) = SumFunction(On(w)) + SumFunction(Out(w))
             /\ IsWeight(On(w), t)
             /\ SumFunction(On(w)) \in Nat /\ SumFunction(Out(w)) \in Nat
  <2>1. IsWeight(In(w), S) /\ IsWeight(Out(w), S) /\ IsWeight(On(w), t)
    BY <1>1 DEF IsWeight
  <2>2. \A x \in S : w[x] = In(w)[x] + Out(w)[x]
    BY <1>1 DEF IsWeight
  <2>3. (\A x \in t : On(w)[x] = In(w)[x]) /\ \A x \in S \ t : In(w)[x] = 0
    OBVIOUS
  <2> DEFINE a == In(w)
             b == Out(w)
             c == On(w)
  <2> HIDE DEF In, Out, On
  <2>4. IsWeight(a, S) /\ IsWeight(b, S) /\ IsWeight(c, t)
    BY <2>1
  <2>5. (\A x \in S : w[x] = a[x] + b[x]) /\ (\A x \in t : c[x] = a[x]) /\ \A x \in S \ t : a[x] = 0
    BY <2>2, <2>3
  <2> HIDE DEF a, b, c
  <2>6. SumFunction(w) = SumFunction(a) + SumFunction(b)
    BY <1>1, <2>4, <2>5, SumsAdd
  <2>7. SumFunction(a) = SumFunction(c)
    BY <2>4, <2>5, SumOfPart
  <2>8. SumFunction(c) \in Nat /\ SumFunction(b) \in Nat
    BY <1>0, <2>4, SumIsNatural
  <2> QED
    BY <2>4, <2>6, <2>7, <2>8 DEF a, b, c
<1>2. Out(p) = Out(q)
  OBVIOUS
<1> DEFINE d == [x \in t |-> On(p)[x] - On(q)[x]]
<1>3. [x \in t |-> p[x] - q[x]] = d
  OBVIOUS
<1>d. d = [x \in t |-> On(p)[x] - On(q)[x]]
  OBVIOUS
<1> HIDE DEF In, Out, On, d
<1>4. SumFunction(d) = SumFunction(On(p)) - SumFunction(On(q))
  <2>1. IsWeight(On(p), t) /\ IsWeight(On(q), t)
    BY <1>1
  <2> QED
    BY <1>0, <1>d, <2>1, SumOfDifferences
<1>5. /\ SumFunction(p) = SumFunction(On(p)) + SumFunction(Out(p))
      /\ SumFunction(On(p)) \in Nat /\ SumFunction(Out(p)) \in Nat
  BY <1>1
<1>6. /\ SumFunction(q) = SumFunction(On(q)) + SumFunction(Out(q))
      /\ SumFunction(On(q)) \in Nat /\ SumFunction(Out(q)) \in Nat
  BY <1>1
<1>7. SumFunction(d) = SumFunction(p) - SumFunction(q)
  BY <1>2, <1>4, <1>5, <1>6
<1> QED
  BY <1>3, <1>7

\* The projects partition the events.
LEMMA ByProjects == Partition([p \in Project |-> InProject(p)], Project, Event)
BY EventTyped DEF Partition, InProject, TurnType

\* The projects that have moved account for the change between any two lists.
LEMMA MoversOfEvents ==
  ASSUME NEW es \in Seq(Event), NEW cutoff
  PROVE  LET halves == SplitWindow(es, cutoff)
             cur == Compute(halves.current).spend
             prev == Compute(halves.previous).spend
         IN  /\ cur + prev = Compute(es).spend
             /\ SumFunction(ProjectMovers(halves)) = cur - prev
<1> DEFINE new == Keep(es, After(cutoff))
           old == Keep(es, Event \ After(cutoff))
           halves == SplitWindow(es, cutoff)
<1>1. halves.current = new /\ halves.previous = old
  BY DEF SplitWindow
<1>2. new \in Seq(Event) /\ old \in Seq(Event)
  BY KeepLemma
<1>w. SpendOf \in [Event -> Nat]
  BY WeightsTyped
<1>3. Compute(new).spend + Compute(old).spend = Compute(es).spend
  <2>1. /\ Compute(new).spend = SumIn(SpendOf, new, Event)
        /\ Compute(old).spend = SumIn(SpendOf, old, Event)
        /\ Compute(es).spend = SumIn(SpendOf, es, Event)
    BY <1>2, TotalsOfCompute, SumIsSumIn
  <2>2. /\ SumIn(SpendOf, new, Event) = SumIn(SpendOf, es, After(cutoff) \cap Event)
        /\ SumIn(SpendOf, old, Event) = SumIn(SpendOf, es, (Event \ After(cutoff)) \cap Event)
    BY <1>w, SumOfKept
  <2>3. Halves(After(cutoff) \cap Event, (Event \ After(cutoff)) \cap Event, Event)
    BY DEF Halves
  <2> QED
    BY <1>w, <2>1, <2>2, <2>3, SumOfHalves
<1> HIDE DEF new, old, halves
<1> DEFINE part == [p \in Project |-> InProject(p)]
           Of(s) == [p \in Project |-> SumIn(SpendOf, s, part[p])]
<1>4. ASSUME NEW s \in Seq(Event)
      PROVE  IsWeight(Of(s), Project) /\ SumFunction(Of(s)) = Compute(s).spend
  <2>1. IsWeight(Of(s), Project)
    BY <1>w, SumInLemma DEF IsWeight
  <2>2. Partition(part, Project, Event) /\ IsFiniteSet(Project)
    BY ByProjects, FiniteAssumption
  <2> HIDE DEF part
  <2>p. ASSUME NEW w \in [Event -> Nat]
        PROVE  SumFunction([p \in Project |-> SumIn(w, s, part[p])]) = SumIn(w, s, Event)
    BY <2>2, SumOverPartition DEF PartSums
  <2>3. SumFunction([p \in Project |-> SumIn(SpendOf, s, part[p])]) = SumIn(SpendOf, s, Event)
    BY <1>w, <2>p
  <2>4. Compute(s).spend = SumIn(SpendOf, s, Event)
    BY TotalsOfCompute, SumIsSumIn
  <2> QED
    BY <2>1, <2>3, <2>4
<1> DEFINE moved == {q \in Project : Of(new)[q] - Of(old)[q] # 0}
<1>5. ProjectMovers(halves) = [p \in moved |-> Of(new)[p] - Of(old)[p]]
  <2>1. \A p \in Project : /\ SumIn(SpendOf, halves.current, InProject(p)) = Of(new)[p]
                           /\ SumIn(SpendOf, halves.previous, InProject(p)) = Of(old)[p]
    BY <1>1
  <2> HIDE DEF Of
  <2>2. {q \in Project : SumIn(SpendOf, halves.current, InProject(q)) -
                         SumIn(SpendOf, halves.previous, InProject(q)) # 0} = moved
    BY <2>1
  <2>3. \A p \in moved : SumIn(SpendOf, halves.current, InProject(p)) -
                         SumIn(SpendOf, halves.previous, InProject(p)) = Of(new)[p] - Of(old)[p]
    BY <2>1
  <2> HIDE DEF moved
  <2> QED
    BY <2>2, <2>3 DEF ProjectMovers
<1>6. moved \in SUBSET Project /\ \A p \in Project \ moved : Of(new)[p] = Of(old)[p]
  <2>1. \A p \in Project : Of(new)[p] \in Nat /\ Of(old)[p] \in Nat
    BY <1>2, <1>4 DEF IsWeight
  <2> HIDE DEF Of
  <2> QED
    BY <2>1
<1> DEFINE a == Of(new)
           b == Of(old)
<1>7. /\ IsWeight(a, Project) /\ IsWeight(b, Project) /\ IsFiniteSet(Project)
      /\ SumFunction(a) = Compute(new).spend /\ SumFunction(b) = Compute(old).spend
  BY <1>2, <1>4, FiniteAssumption
<1>8. \A p \in Project \ moved : a[p] = b[p]
  BY <1>6
<1>9. ProjectMovers(halves) = [p \in moved |-> a[p] - b[p]]
  BY <1>5
<1> HIDE DEF a, b, moved, Of
<1>10. SumFunction([p \in moved |-> a[p] - b[p]]) = SumFunction(a) - SumFunction(b)
  BY <1>6, <1>7, <1>8, SumOfChanges
<1> QED
  BY <1>1, <1>3, <1>7, <1>9, <1>10 DEF halves

\* SplitWindow's two halves lose no event and share none, and projectMovers, which
\* drops the projects without a change, accounts for the whole change in spend.
THEOREM MoversAddUpHolds == StoreSpec => []MoversAddUp
<1>1. EventsOK => MoversAddUp
  BY MoversOfEvents DEF EventsOK, MoversAddUp
<1> QED
  BY <1>1, EventsInvariant, PTL

-----------------------------------------------------------------------------
(* Ratios. *)

Ratio == [n : Nat, d : Nat \ {0}]

\* safeDiv never divides by nothing.
LEMMA SafeDivIsRatio == \A a, b \in Nat : SafeDiv(a, b) \in Ratio
BY DEF SafeDiv, Ratio

\* The ratios that findings, trends and personas are made of.
LEMMA RatiosOfCompute ==
  ASSUME NEW es \in Seq(Event)
  PROVE  /\ Compute(es).cacheHitRatio \in Ratio /\ Compute(es).reworkRatio \in Ratio
         /\ Compute(es).retryShare \in Ratio /\ Compute(es).thinkToCodeRatio \in Ratio
         /\ Compute(es).contextBloatShare \in Ratio /\ Compute(es).coldRestartShare \in Ratio
         /\ Compute(es).premiumWasteShare \in Ratio
<1>1. /\ Compute(es).spend \in Nat /\ Compute(es).input \in Nat
      /\ Compute(es).retry \in Nat /\ Compute(es).cold \in Nat
  BY TotalsOfCompute
<1>2. Sum(CacheReadOf, es) \in Nat /\ Sum(CacheCreationOf, es) \in Nat
  <2>1. ASSUME NEW w \in [Event -> Nat] PROVE Sum(w, es) \in Nat
    BY SumInLemma, SumIsSumIn
  <2> QED
    BY <2>1, WeightsTyped
<1>3. ASSUME NEW a \in Activity PROVE ByActivity(es)[a].tokens \in Nat
  <2>1. ByActivity(es)[a].tokens = SumIn(SpendOf, es, During(a))
    BY DEF ByActivity, Breakdown
  <2> QED
    <3>1. ASSUME NEW w \in [Event -> Nat] PROVE SumIn(w, es, During(a)) \in Nat
      BY SumInLemma
    <3> QED
      BY <2>1, <3>1, WeightsTyped
<1>4. ByActivity(es)["thinking"].tokens \in Nat /\ ByActivity(es)["coding"].tokens \in Nat
  BY <1>3 DEF Activity
<1>5. ASSUME NEW S \in SUBSET Session PROVE Cardinality(S) \in Nat
  BY FiniteAssumption, FS_Subset, FS_CardinalityType
<1>6. Compute(es).bloated \in Nat /\ Compute(es).long \in Nat
  BY <1>5, ComputeFields
<1>7. PremiumWaste(es) \in Nat
  <2>1. Cardinality(SessionsOf(es)) \in Nat
    BY <1>5, SessionsOfLemma
  <2>2. SumIn(SpendOf, es, PremiumOnLowValue) \in Nat
    BY SumInLemma, WeightsTyped
  <2>3. \A a, b \in Nat : a * b \in Nat
    OBVIOUS
  <2> QED
    BY <2>1, <2>2, <2>3 DEF PremiumWaste
<1>8. \A a, b, c \in Nat : a + b \in Nat /\ a + b + c \in Nat
  OBVIOUS
<1>9. Compute(es).cacheHitRatio \in Ratio
  <2>1. Compute(es).input + Sum(CacheReadOf, es) + Sum(CacheCreationOf, es) \in Nat
    BY <1>1, <1>2, <1>8
  <2> QED
    BY <1>2, <2>1, ComputeRatios, SafeDivIsRatio
<1>10. Compute(es).thinkToCodeRatio \in Ratio
  <2>1. ByActivity(es)["thinking"].tokens + ByActivity(es)["coding"].tokens \in Nat
    BY <1>4, <1>8
  <2> QED
    BY <1>4, <2>1, ComputeRatios, SafeDivIsRatio
<1>11. Compute(es).reworkRatio \in Ratio /\ Compute(es).retryShare \in Ratio
  BY <1>1, ComputeRatios, SafeDivIsRatio
<1>12. Compute(es).contextBloatShare \in Ratio
  BY <1>6, ComputeRatios, SafeDivIsRatio
<1>13. Compute(es).coldRestartShare \in Ratio
  BY <1>1, ComputeRatios, SafeDivIsRatio
<1>14. Compute(es).premiumWasteShare \in Ratio
  BY <1>1, <1>7, ComputeRatios, SafeDivIsRatio
<1> QED
  BY <1>9, <1>10, <1>11, <1>12, <1>13, <1>14

\* So are the values of the findings that trends are about.
LEMMA MetricValues ==
  ASSUME NEW es \in Seq(Event), NEW k \in TrendKey
  PROVE  MetricValue(k, Compute(es)) \in Ratio
<1>1. k \in {"cache-miss", "rework", "bloat", "cold-restart", "premium-waste", "retry-loop"}
  BY DEF TrendKey, Finding
<1> QED
  BY <1>1, RatiosOfCompute DEF MetricValue

\* A trend of more than two points is a difference in the same direction.
LEMMA TrendsAreDifferences ==
  ASSUME NEW k \in TrendKey, NEW cur \in Ratio, NEW prev \in Ratio
  PROVE  /\ TrendVerdict(k, cur, prev) = "up" => IsBetter(k, prev, cur)
         /\ TrendVerdict(k, cur, prev) = "down" => IsBetter(k, cur, prev)
<1> DEFINE a == cur.n * prev.d
           b == prev.n * cur.d
           c == cur.d * prev.d
           delta == [n |-> a - b, d |-> c]
<1>1. a \in Nat /\ b \in Nat /\ c \in Nat
  <2>1. cur.n \in Nat /\ cur.d \in Nat /\ prev.n \in Nat /\ prev.d \in Nat
    BY DEF Ratio
  <2>2. \A x, y \in Nat : x * y \in Nat
    OBVIOUS
  <2> QED
    BY <2>1, <2>2
<1>2. TrendVerdict(k, cur, prev) =
        IF Exceeds(delta, 2) THEN IF k = "cache-miss" THEN "up" ELSE "down"
        ELSE IF IsBelow(delta, -2) THEN IF k = "cache-miss" THEN "down" ELSE "up"
        ELSE "flat"
  BY DEF TrendVerdict
<1>3. /\ IsBetter(k, prev, cur) <=> IF k = "cache-miss" THEN a > b ELSE a < b
      /\ IsBetter(k, cur, prev) <=> IF k = "cache-miss" THEN b > a ELSE b < a
  BY DEF IsBetter
<1>4. Exceeds(delta, 2) => a > b
  <2>1. Exceeds(delta, 2) <=> (a - b) * 100 > 2 * c
    BY DEF Exceeds
  <2> HIDE DEF a, b, c
  <2> QED
    BY <1>1, <2>1
<1>5. IsBelow(delta, -2) => a < b
  <2>1. IsBelow(delta, -2) <=> (a - b) * 100 < (-2) * c
    BY DEF IsBelow
  <2> HIDE DEF a, b, c
  <2> QED
    BY <1>1, <2>1
<1> HIDE DEF a, b, c, delta
<1>6. a > b <=> b < a
  BY <1>1
<1>7. b > a <=> a < b
  BY <1>1
<1> QED
  BY <1>2, <1>3, <1>4, <1>5, <1>6, <1>7

\* A higher limit is exceeded only with a lower one, and never from below.
LEMMA LimitsOfRatios ==
  ASSUME NEW v \in Ratio, NEW lower \in Nat, NEW higher \in Nat, lower <= higher
  PROVE  /\ Exceeds(v, higher) => Exceeds(v, lower)
         /\ Exceeds(v, higher) => ~IsBelow(v, lower)
         /\ IsBelow(v, lower) => ~Exceeds(v, higher)
<1> DEFINE a == lower * v.d
           b == higher * v.d
<1>1. v.n \in Nat /\ v.d \in Nat
  BY DEF Ratio
<1>2. \A x, y \in Nat : x * y \in Nat
  OBVIOUS
<1>3. a <= b
  <2>1. higher - lower \in Nat
    OBVIOUS
  <2>2. (higher - lower) * v.d \in Nat
    BY <1>1, <1>2, <2>1
  <2>3. (higher - lower) * v.d = b - a
    BY <1>1
  <2>4. a \in Nat /\ b \in Nat
    BY <1>1, <1>2
  <2> HIDE DEF a, b
  <2> QED
    BY <2>2, <2>3, <2>4
<1>4. a \in Nat /\ b \in Nat
  BY <1>1, <1>2
<1> HIDE DEF a, b
<1> QED
  BY <1>1, <1>3, <1>4 DEF Exceeds, IsBelow, a, b

\* A persona that comes from a habit goes with the finding about it.
LEMMA PersonasAgree ==
  ASSUME NEW m, m.reworkRatio \in Ratio, m.retryShare \in Ratio, m.thinkToCodeRatio \in Ratio,
         m.cacheHitRatio \in Ratio, m.contextBloatShare \in Ratio
  PROVE  /\ Persona(m) = "firefighter" => ActiveFindings(m) \cap {"rework", "retry-loop"} # {}
         /\ Persona(m) = "architect" => "think-overcode" \in ActiveFindings(m)
         /\ Persona(m) = "sprinter" => "think-overcode" \notin ActiveFindings(m)
         /\ Persona(m) = "surgeon" => ActiveFindings(m) \cap {"cache-miss", "bloat"} = {}
<1>1. /\ "rework" \in ActiveFindings(m) <=> Exceeds(m.reworkRatio, 20)
      /\ "retry-loop" \in ActiveFindings(m) <=> Exceeds(m.retryShare, 15)
      /\ "think-overcode" \in ActiveFindings(m) <=> Exceeds(m.thinkToCodeRatio, 50)
      /\ "bloat" \in ActiveFindings(m) <=> Exceeds(m.contextBloatShare, 20)
      /\ "cache-miss" \in ActiveFindings(m) <=> IsBelow(m.cacheHitRatio, 40)
  BY DEF ActiveFindings, Finding, IsActive, MetricValue, Limit
<1>2. /\ Persona(m) = "firefighter" => Exceeds(m.reworkRatio, 25) \/ Exceeds(m.retryShare, 20)
      /\ Persona(m) = "architect" => Exceeds(m.thinkToCodeRatio, 60)
      /\ Persona(m) = "sprinter" => IsBelow(m.thinkToCodeRatio, 20)
      /\ Persona(m) = "surgeon" => Exceeds(m.cacheHitRatio, 60) /\ IsBelow(m.contextBloatShare, 10)
  BY DEF Persona
<1>3. Exceeds(m.reworkRatio, 25) => Exceeds(m.reworkRatio, 20)
  BY LimitsOfRatios
<1>4. Exceeds(m.retryShare, 20) => Exceeds(m.retryShare, 15)
  BY LimitsOfRatios
<1>5. Exceeds(m.thinkToCodeRatio, 60) => Exceeds(m.thinkToCodeRatio, 50)
  BY LimitsOfRatios
<1>6. IsBelow(m.thinkToCodeRatio, 20) => ~Exceeds(m.thinkToCodeRatio, 50)
  BY LimitsOfRatios
<1>7. Exceeds(m.cacheHitRatio, 60) => ~IsBelow(m.cacheHitRatio, 40)
  BY LimitsOfRatios
<1>8. IsBelow(m.contextBloatShare, 10) => ~Exceeds(m.contextBloatShare, 20)
  BY LimitsOfRatios
<1> QED
  BY <1>1, <1>2, <1>3, <1>4, <1>5, <1>6, <1>7, <1>8

\* What one report says of one window is consistent: trendRow never calls a change
\* up that isImproving would not, and Assign never names a habit that the findings
\* deny.  The five files' thresholds and limits are related here and nowhere else.
THEOREM ReportIsConsistentHolds == StoreSpec => []ReportIsConsistent
<1>1. ASSUME EventsOK, NEW cutoff \in Time
      PROVE  LET halves == SplitWindow(events, cutoff)
                 cur == Compute(halves.current)
                 prev == Compute(halves.previous)
                 rows == TrendRows(cur, prev)
                 active == ActiveFindings(cur)
                 persona == Persona(cur)
             IN  /\ \A k \in TrendKey :
                      /\ rows[k] = "up" => IsBetter(k, MetricValue(k, prev), MetricValue(k, cur))
                      /\ rows[k] = "down" => IsBetter(k, MetricValue(k, cur), MetricValue(k, prev))
                 /\ persona = "firefighter" => active \cap {"rework", "retry-loop"} # {}
                 /\ persona = "architect" => "think-overcode" \in active
                 /\ persona = "sprinter" => "think-overcode" \notin active
                 /\ persona = "surgeon" => active \cap {"cache-miss", "bloat"} = {}
  <2> DEFINE new == Keep(events, After(cutoff))
             old == Keep(events, Event \ After(cutoff))
             cur == Compute(new)
             prev == Compute(old)
  <2>1. new \in Seq(Event) /\ old \in Seq(Event)
    BY <1>1, KeepLemma DEF EventsOK
  <2>2. SplitWindow(events, cutoff).current = new /\ SplitWindow(events, cutoff).previous = old
    BY DEF SplitWindow
  <2> HIDE DEF new, old
  <2>3. ASSUME NEW k \in TrendKey
        PROVE  /\ TrendRows(cur, prev)[k] = "up" => IsBetter(k, MetricValue(k, prev), MetricValue(k, cur))
               /\ TrendRows(cur, prev)[k] = "down" => IsBetter(k, MetricValue(k, cur), MetricValue(k, prev))
    <3>1. MetricValue(k, cur) \in Ratio /\ MetricValue(k, prev) \in Ratio
      BY <2>1, MetricValues
    <3>2. TrendRows(cur, prev)[k] = TrendVerdict(k, MetricValue(k, cur), MetricValue(k, prev))
      BY DEF TrendRows
    <3> HIDE DEF cur, prev
    <3> QED
      BY <3>1, <3>2, TrendsAreDifferences
  <2>4. /\ cur.reworkRatio \in Ratio /\ cur.retryShare \in Ratio /\ cur.thinkToCodeRatio \in Ratio
        /\ cur.cacheHitRatio \in Ratio /\ cur.contextBloatShare \in Ratio
    BY <2>1, RatiosOfCompute
  <2>5. /\ Persona(cur) = "firefighter" => ActiveFindings(cur) \cap {"rework", "retry-loop"} # {}
        /\ Persona(cur) = "architect" => "think-overcode" \in ActiveFindings(cur)
        /\ Persona(cur) = "sprinter" => "think-overcode" \notin ActiveFindings(cur)
        /\ Persona(cur) = "surgeon" => ActiveFindings(cur) \cap {"cache-miss", "bloat"} = {}
    <3> HIDE DEF cur
    <3> QED
      BY <2>4, PersonasAgree
  <2> QED
    BY <2>2, <2>3, <2>5
<1>2. EventsOK => ReportIsConsistent
  BY <1>1 DEF ReportIsConsistent
<1> QED
  BY <1>2, EventsInvariant, PTL

-----------------------------------------------------------------------------
(* Sessions by themselves. *)

\* The events of a session alone give the session's state.
LEMMA StateAlone ==
  ASSUME NEW es \in Seq(Event), NEW s \in Session
  PROVE  /\ OfSession(es, s) \in Seq(Event)
         /\ SessionsOf(OfSession(es, s)) = SessionsOf(es) \cap {s}
         /\ Pass1(OfSession(es, s))[s] = Pass1(es)[s]
<1> DEFINE Holds(q) == /\ SessionsOf(OfSession(q, s)) = SessionsOf(q) \cap {s}
                       /\ Pass1(OfSession(q, s))[s] = Pass1(q)[s]
           T == {q \in Seq(Event) : Holds(q)}
<1>1. Holds(<<>>)
  <2>1. <<>> \in Seq(Event)
    OBVIOUS
  <2>2. OfSession(<<>>, s) = <<>>
    BY <2>1, KeepLemma DEF OfSession
  <2>3. SessionsOf(<<>>) = {}
    BY <2>1, SessionsOfLemma
  <2> QED
    BY <2>2, <2>3
<1>2. ASSUME NEW q \in Seq(Event), NEW e \in Event, Holds(q) PROVE Holds(Append(q, e))
  <2> DEFINE own == OfSession(q, s)
             more == Append(q, e)
  <2>1. own \in Seq(Event) /\ OfSession(more, s) = IF e \in InSession(s) THEN Append(own, e) ELSE own
    BY KeepLemma DEF OfSession
  <2>2. SessionsOf(more) = SessionsOf(q) \cup {e.session} /\ Pass1(more) = Accumulate(Pass1(q), e)
    BY SessionsOfLemma, Pass1Lemma
  <2>3. Pass1(q) \in Sessions
    BY Pass1Lemma
  <2>4. SessionsOf(own) = SessionsOf(q) \cap {s} /\ Pass1(own)[s] = Pass1(q)[s]
    BY <1>2
  <2> HIDE DEF own, more
  <2>5. CASE s = e.session
    <3>1. OfSession(more, s) = Append(own, e)
      BY <2>1, <2>5 DEF InSession
    <3>2. SessionsOf(Append(own, e)) = SessionsOf(own) \cup {e.session}
      BY <2>1, SessionsOfLemma
    <3>3. Pass1(Append(own, e)) = Accumulate(Pass1(own), e) /\ Pass1(own) \in Sessions
      BY <2>1, Pass1Lemma
    <3>4. Pass1(Append(own, e))[s] = AddTurn(Pass1(own)[s], e)
      BY <2>5, <3>3, AccumulateAt
    <3>5. Pass1(more)[s] = AddTurn(Pass1(q)[s], e)
      BY <2>2, <2>3, <2>5, AccumulateAt
    <3>6. SessionsOf(OfSession(more, s)) = SessionsOf(more) \cap {s}
      BY <2>2, <2>4, <2>5, <3>1, <3>2
    <3> QED
      BY <2>4, <3>1, <3>4, <3>5, <3>6 DEF more
  <2>6. CASE s # e.session
    <3>1. OfSession(more, s) = own
      BY <2>1, <2>6 DEF InSession
    <3>2. Pass1(more)[s] = Pass1(q)[s]
      BY <2>2, <2>3, <2>6, AccumulateAt
    <3>3. SessionsOf(more) \cap {s} = SessionsOf(q) \cap {s}
      BY <2>2, <2>6
    <3> QED
      BY <2>4, <3>1, <3>2, <3>3 DEF more
  <2> QED
    BY <2>5, <2>6
<1> HIDE DEF Holds
<1>3. <<>> \in T /\ \A q \in Seq(Event) : \A e \in Event : q \in T => Append(q, e) \in T
  BY <1>1, <1>2
<1> HIDE DEF T
<1>4. Seq(Event) \subseteq T
  BY <1>3, SequenceInduction
<1>5. OfSession(es, s) \in Seq(Event)
  BY KeepLemma DEF OfSession
<1> QED
  BY <1>4, <1>5 DEF T, Holds

\* And nothing of the others.
LEMMA OthersAlone ==
  ASSUME NEW es \in Seq(Event), NEW s \in Session, NEW t \in Session, t # s
  PROVE  Pass1(OfSession(es, s))[t] = NewSession
<1>1. OfSession(es, s) \in Seq(Event) /\ t \notin SessionsOf(OfSession(es, s))
  BY StateAlone
<1> QED
  BY <1>1, SessionTotals

\* The totals are the sums of what each session gives by itself.
LEMMA TotalsAlone ==
  ASSUME NEW es \in Seq(Event), NEW f \in {"spend", "cold", "retry"}
  PROVE  Compute(es)[f] = SumFunction([s \in Session |-> Compute(OfSession(es, s))[f]])
<1>1. \A q : Compute(q)[f] = SumFunction([s \in Session |-> Pass1(q)[s][f]])
  BY ComputeFields
<1>2. \A q \in Seq(Event), s \in Session : Pass1(q)[s][f] \in Nat
  BY SessionTotals DEF SessionState
<1>3. NewSession[f] = 0
  BY DEF NewSession
<1>4. ASSUME NEW s \in Session PROVE Compute(OfSession(es, s))[f] = Pass1(es)[s][f]
  <2> DEFINE own == OfSession(es, s)
             w == [t \in Session |-> Pass1(own)[t][f]]
  <2>1. own \in Seq(Event) /\ Pass1(own)[s] = Pass1(es)[s]
    BY StateAlone
  <2>2. IsWeight(w, Session)
    BY <1>2, <2>1 DEF IsWeight
  <2>3. \A t \in Session \ {s} : w[t] = 0
    BY <1>3, OthersAlone
  <2>4. w[s] = Pass1(es)[s][f]
    BY <2>1
  <2>5. Compute(own)[f] = SumFunction(w)
    BY <1>1
  <2> HIDE DEF own, w
  <2>6. SumFunction(w) = w[s]
    BY <2>2, <2>3, FiniteAssumption, SumOfOne
  <2> QED
    BY <2>4, <2>5, <2>6 DEF own
<1>5. [s \in Session |-> Pass1(es)[s][f]] = [s \in Session |-> Compute(OfSession(es, s))[f]]
  BY <1>4
<1> QED
  BY <1>1, <1>5

\* A set has as many elements as each session alone has, together.
LEMMA CountAlone ==
  ASSUME NEW X \in SUBSET Session, NEW A, \A s \in Session : A[s] = X \cap {s}
  PROVE  SumFunction([s \in Session |-> Cardinality(A[s])]) = Cardinality(X)
<1>1. ASSUME NEW s \in Session PROVE Cardinality(A[s]) = IF s \in X THEN 1 ELSE 0
  <2>1. CASE s \in X
    <3>1. A[s] = {s}
      BY <2>1
    <3> QED
      BY <2>1, <3>1, FS_Singleton
  <2>2. CASE s \notin X
    <3>1. A[s] = {}
      BY <2>2
    <3> QED
      BY <2>2, <3>1, FS_EmptySet
  <2> QED
    BY <2>1, <2>2
<1>2. [s \in Session |-> Cardinality(A[s])] = [s \in Session |-> IF s \in X THEN 1 ELSE 0]
  BY <1>1
<1>3. SumFunction([s \in Session |-> IF s \in X THEN 1 ELSE 0]) = Cardinality(X)
  BY FiniteAssumption, SumOfOnes
<1> QED
  BY <1>2, <1>3

\* The counts of sessions, of bloated and of long ones.
LEMMA CountsAlone ==
  ASSUME NEW es \in Seq(Event), NEW f \in {"sessions", "bloated", "long"}
  PROVE  Compute(es)[f] = SumFunction([s \in Session |-> Compute(OfSession(es, s))[f]])
<1> DEFINE Of(q) == IF f = "sessions" THEN SessionsOf(q)
                    ELSE IF f = "bloated" THEN {s \in Session : IsBloated(Pass1(q)[s])}
                    ELSE {s \in Session : IsLong(Pass1(q)[s])}
           A == [s \in Session |-> Of(OfSession(es, s))]
<1>1. \A q : Compute(q)[f] = Cardinality(Of(q))
  BY ComputeFields
<1>2. Of(es) \in SUBSET Session
  BY SessionsOfLemma
<1>3. ~IsLong(NewSession) /\ ~IsBloated(NewSession)
  BY TimeAssumption DEF IsLong, IsBloated, NewSession
<1>4. ASSUME NEW s \in Session PROVE Of(OfSession(es, s)) = Of(es) \cap {s}
  <2> DEFINE own == OfSession(es, s)
  <2>1. SessionsOf(own) = SessionsOf(es) \cap {s} /\ Pass1(own)[s] = Pass1(es)[s]
    BY StateAlone
  <2>2. \A t \in Session : t # s => ~IsLong(Pass1(own)[t]) /\ ~IsBloated(Pass1(own)[t])
    BY <1>3, OthersAlone
  <2> HIDE DEF own
  <2>3. {t \in Session : IsBloated(Pass1(own)[t])} = {t \in Session : IsBloated(Pass1(es)[t])} \cap {s}
    BY <2>1, <2>2
  <2>4. {t \in Session : IsLong(Pass1(own)[t])} = {t \in Session : IsLong(Pass1(es)[t])} \cap {s}
    BY <2>1, <2>2
  <2> QED
    BY <2>1, <2>3, <2>4 DEF own
<1>5. \A s \in Session : A[s] = Of(es) \cap {s}
  BY <1>4
<1>6. [s \in Session |-> Compute(OfSession(es, s))[f]] = [s \in Session |-> Cardinality(A[s])]
  BY <1>1
<1> HIDE DEF A, Of
<1>7. SumFunction([s \in Session |-> Cardinality(A[s])]) = Cardinality(Of(es))
  BY <1>2, <1>5, CountAlone
<1> QED
  BY <1>1, <1>6, <1>7

\* The input, which the engine counts in a pass of its own.
LEMMA InputAlone ==
  ASSUME NEW es \in Seq(Event)
  PROVE  Compute(es).input = SumFunction([s \in Session |-> Compute(OfSession(es, s)).input])
<1> DEFINE part == [s \in Session |-> InSession(s)]
<1>w. InputOf \in [Event -> Nat]
  BY WeightsTyped
<1>1. ASSUME NEW s \in Session PROVE Compute(OfSession(es, s)).input = SumIn(InputOf, es, part[s])
  <2>1. Compute(OfSession(es, s)).input = Sum(InputOf, OfSession(es, s))
    BY ComputeFields
  <2>2. OfSession(es, s) \in Seq(Event)
    BY StateAlone
  <2>3. Sum(InputOf, OfSession(es, s)) = SumIn(InputOf, OfSession(es, s), Event)
    BY <2>2, SumIsSumIn
  <2>4. SumIn(InputOf, Keep(es, InSession(s)), Event) = SumIn(InputOf, es, InSession(s) \cap Event)
    BY <1>w, SumOfKept
  <2>5. InSession(s) \cap Event = InSession(s)
    BY DEF InSession
  <2> QED
    BY <2>1, <2>3, <2>4, <2>5 DEF OfSession
<1>2. [s \in Session |-> Compute(OfSession(es, s)).input] = [s \in Session |-> SumIn(InputOf, es, part[s])]
  BY <1>1
<1>3. Partition(part, Session, Event) /\ IsFiniteSet(Session)
  BY BySessions, FiniteAssumption
<1> HIDE DEF part
<1>4. PartSums(InputOf, es, part, Session) = SumIn(InputOf, es, Event)
  BY <1>w, <1>3, SumOverPartition
<1>5. Compute(es).input = SumIn(InputOf, es, Event)
  BY ComputeFields, SumIsSumIn
<1> QED
  BY <1>2, <1>4, <1>5 DEF PartSums

\* The one pass of Compute keeps sessions apart: whatever the order in which their
\* turns alternate, its totals are the sums of what each session gives by itself.
THEOREM SessionsAreIndependentHolds == StoreSpec => []SessionsAreIndependent
<1>1. ASSUME NEW es \in Seq(Event), NEW f \in {"sessions", "spend", "input", "retry", "cold", "bloated", "long"}
      PROVE  Compute(es)[f] = SumFunction([s \in Session |-> Compute(OfSession(es, s))[f]])
  <2>1. CASE f \in {"spend", "cold", "retry"}
    BY <2>1, TotalsAlone
  <2>2. CASE f \in {"sessions", "bloated", "long"}
    BY <2>2, CountsAlone
  <2>3. CASE f = "input"
    BY <2>3, InputAlone
  <2> QED
    BY <2>1, <2>2, <2>3
<1>2. EventsOK => SessionsAreIndependent
  <2> SUFFICES ASSUME EventsOK,
                      NEW f \in {"sessions", "spend", "input", "retry", "cold", "bloated", "long"}
               PROVE  Compute(events)[f] =
                      SumFunction([s \in Session |->
                                     [t \in Session |-> Compute(OfSession(events, t))][s][f]])
    BY DEF SessionsAreIndependent
  <2>1. events \in Seq(Event)
    BY DEF EventsOK
  <2>2. \A s \in Session : [t \in Session |-> Compute(OfSession(events, t))][s] = Compute(OfSession(events, s))
    OBVIOUS
  <2> QED
    BY <1>1, <2>1, <2>2
<1> QED
  BY <1>2, EventsInvariant, PTL

-----------------------------------------------------------------------------
(* Windows that begin later. *)

\* Of events that are not in U none are kept.
LEMMA KeptOfNone ==
  ASSUME NEW U, NEW es \in Seq(Event), \A i \in DOMAIN es : es[i] \notin U
  PROVE  Keep(es, U) = <<>>
<1> DEFINE Holds(q) == (\A i \in DOMAIN q : q[i] \notin U) => Keep(q, U) = <<>>
           T == {q \in Seq(Event) : Holds(q)}
<1>1. Holds(<<>>)
  <2>1. <<>> \in Seq(Event)
    OBVIOUS
  <2> QED
    BY <2>1, KeepLemma
<1>2. ASSUME NEW q \in Seq(Event), NEW e \in Event, Holds(q) PROVE Holds(Append(q, e))
  <2> DEFINE more == Append(q, e)
  <2> SUFFICES ASSUME \A i \in DOMAIN more : more[i] \notin U PROVE Keep(more, U) = <<>>
    OBVIOUS
  <2>1. /\ DOMAIN q = 1..Len(q) /\ Len(q) \in Nat /\ DOMAIN more = 1..(Len(q) + 1)
        /\ more[Len(q) + 1] = e /\ \A i \in 1..Len(q) : more[i] = q[i]
    OBVIOUS
  <2>2. Keep(more, U) = IF e \in U THEN Append(Keep(q, U), e) ELSE Keep(q, U)
    BY KeepLemma
  <2> HIDE DEF more
  <2>3. e \notin U
    <3>1. Len(q) + 1 \in DOMAIN more
      BY <2>1
    <3> QED
      BY <2>1, <3>1
  <2>4. \A i \in DOMAIN q : q[i] \notin U
    <3>1. \A i \in 1..Len(q) : i \in DOMAIN more
      BY <2>1
    <3> QED
      BY <2>1, <3>1
  <2> QED
    BY <1>2, <2>2, <2>3, <2>4
<1> HIDE DEF Holds
<1>3. <<>> \in T /\ \A q \in Seq(Event) : \A e \in Event : q \in T => Append(q, e) \in T
  BY <1>1, <1>2
<1> HIDE DEF T
<1>4. Seq(Event) \subseteq T
  BY <1>3, SequenceInduction
<1> QED
  BY <1>4 DEF T, Holds

\* The last of the events that are in the order of their times is the latest.
LEMMA ByTimeOfAppended ==
  ASSUME NEW es \in Seq(Event), NEW e \in Event, IsByTime(Append(es, e))
  PROVE  IsByTime(es) /\ \A i \in DOMAIN Append(es, e) : Append(es, e)[i].ts <= e.ts
<1> DEFINE more == Append(es, e)
           n == Len(es)
<1>1. /\ DOMAIN es = 1..n /\ n \in Nat /\ DOMAIN more = 1..(n + 1)
      /\ more[n + 1] = e /\ \A i \in 1..n : more[i] = es[i]
  OBVIOUS
<1>2. \A i, j \in DOMAIN more : i < j => more[i].ts <= more[j].ts
  BY DEF IsByTime
<1> HIDE DEF more, n
<1>3. IsByTime(es)
  <2> SUFFICES ASSUME NEW i \in 1..n, NEW j \in 1..n, i < j PROVE es[i].ts <= es[j].ts
    BY <1>1 DEF IsByTime
  <2>1. i \in 1..(n + 1) /\ j \in 1..(n + 1)
    BY <1>1
  <2> QED
    BY <1>1, <1>2, <2>1
<1>4. ASSUME NEW i \in 1..(n + 1) PROVE more[i].ts <= e.ts
  <2>1. CASE i = n + 1
    <3>1. e.ts \in Int
      BY EventTyped, TimeAssumption DEF Time
    <3> QED
      BY <1>1, <2>1, <3>1
  <2>2. CASE i # n + 1
    <3>1. i < n + 1 /\ n + 1 \in 1..(n + 1)
      BY <1>1, <2>2
    <3> QED
      BY <1>1, <1>2, <3>1
  <2> QED
    BY <2>1, <2>2
<1>5. \A i \in DOMAIN more : more[i].ts <= e.ts
  BY <1>1, <1>4
<1> QED
  BY <1>3, <1>5 DEF more

\* What a shorter window knows of a session.
KnowsLess(short, long) ==
  /\ short.turns <= long.turns /\ short.spend <= long.spend
  /\ short.cold <= long.cold /\ short.retry <= long.retry
  /\ short = NewSession \/ (short.hasError = long.hasError /\ short.lastTS = long.lastTS)

\* A window without a turn of the session knows less than any.
LEMMA NewKnowsLess == \A ss \in SessionState : KnowsLess(NewSession, ss)
BY DEF KnowsLess, NewSession, SessionState

\* With a turn of both windows it still knows less.
LEMMA TurnOfBoth ==
  ASSUME NEW short \in SessionState, NEW long \in SessionState, KnowsLess(short, long),
         NEW e \in Event
  PROVE  KnowsLess(AddTurn(short, e), AddTurn(long, e))
<1> DEFINE cold(ss) == IF IsColdRestart(ss.lastTS, e.ts) THEN e.turn.input ELSE 0
           retry(ss) == IF ss.hasError /\ ~e.turn.isError THEN SpendOf[e] ELSE 0
           s == AddTurn(short, e)
           l == AddTurn(long, e)
<1>1. SpendOf[e] \in Nat /\ e.turn.input \in Nat
  BY WeightsTyped, EventTyped DEF TurnType
<1>2. /\ s.turns = short.turns + 1 /\ s.spend = short.spend + SpendOf[e]
      /\ s.cold = short.cold + cold(short) /\ s.retry = short.retry + retry(short)
      /\ s.hasError = e.turn.isError /\ s.lastTS = e.ts
  BY DEF AddTurn
<1>3. /\ l.turns = long.turns + 1 /\ l.spend = long.spend + SpendOf[e]
      /\ l.cold = long.cold + cold(long) /\ l.retry = long.retry + retry(long)
      /\ l.hasError = e.turn.isError /\ l.lastTS = e.ts
  BY DEF AddTurn
<1>4. /\ short.turns \in Nat /\ short.spend \in Nat /\ short.cold \in Nat /\ short.retry \in Nat
      /\ long.turns \in Nat /\ long.spend \in Nat /\ long.cold \in Nat /\ long.retry \in Nat
  BY DEF SessionState
<1>5. cold(long) \in Nat /\ retry(long) \in Nat /\ cold(short) \in Nat /\ retry(short) \in Nat
  BY <1>1
<1>6. cold(short) <= cold(long) /\ retry(short) <= retry(long)
  <2>1. CASE short = NewSession
    <3>1. cold(short) = 0 /\ retry(short) = 0
      BY <2>1 DEF IsColdRestart, NewSession
    <3> HIDE DEF cold, retry
    <3> QED
      BY <1>5, <3>1
  <2>2. CASE short.hasError = long.hasError /\ short.lastTS = long.lastTS
    <3>1. cold(short) = cold(long) /\ retry(short) = retry(long)
      BY <2>2
    <3> HIDE DEF cold, retry
    <3> QED
      BY <1>5, <3>1
  <2> QED
    BY <2>1, <2>2 DEF KnowsLess
<1> HIDE DEF cold, retry, s, l
<1>7. /\ short.turns <= long.turns /\ short.spend <= long.spend
      /\ short.cold <= long.cold /\ short.retry <= long.retry
  BY DEF KnowsLess
<1>8. s.turns <= l.turns /\ s.spend <= l.spend
  BY <1>1, <1>2, <1>3, <1>4, <1>7
<1>9. s.cold <= l.cold /\ s.retry <= l.retry
  BY <1>2, <1>3, <1>4, <1>5, <1>6, <1>7
<1> QED
  BY <1>2, <1>3, <1>8, <1>9 DEF KnowsLess, s, l

\* So of each session, when the events are in the order of their times.
LEMMA ShorterKnowsLess ==
  ASSUME NEW es \in Seq(Event), IsByTime(es), NEW c \in Int, NEW s \in Session
  PROVE  KnowsLess(Pass1(LoadEvents(es, c + 1, Project))[s], Pass1(LoadEvents(es, c, Project))[s])
<1> DEFINE Short(q) == LoadEvents(q, c + 1, Project)
           Long(q) == LoadEvents(q, c, Project)
           Holds(q) == IsByTime(q) => KnowsLess(Pass1(Short(q))[s], Pass1(Long(q))[s])
           T == {q \in Seq(Event) : Holds(q)}
<1>0. \A q \in Seq(Event) : /\ Short(q) \in Seq(Event) /\ Long(q) \in Seq(Event)
                            /\ Short(q) = Keep(q, Since(c + 1, Project))
                            /\ Long(q) = Keep(q, Since(c, Project))
  BY KeepLemma DEF LoadEvents
<1>e. <<>> \in Seq(Event) /\ Pass1(<<>>)[s] = NewSession
  BY Pass1Lemma DEF NoSessions
<1>1. Holds(<<>>)
  <2>1. Short(<<>>) = <<>> /\ Long(<<>>) = <<>>
    BY <1>e, KeepLemma DEF LoadEvents
  <2> HIDE DEF Short, Long
  <2> QED
    BY <1>e, <2>1, NewKnowsLess, AddTurnTyped
<1>2. ASSUME NEW q \in Seq(Event), NEW e \in Event, Holds(q) PROVE Holds(Append(q, e))
  <2> DEFINE more == Append(q, e)
  <2>1. /\ more \in Seq(Event)
        /\ Keep(more, Since(c + 1, Project)) =
             IF e \in Since(c + 1, Project) THEN Append(Short(q), e) ELSE Short(q)
        /\ Keep(more, Since(c, Project)) =
             IF e \in Since(c, Project) THEN Append(Long(q), e) ELSE Long(q)
    <3>1. ASSUME NEW U PROVE Keep(more, U) = IF e \in U THEN Append(Keep(q, U), e) ELSE Keep(q, U)
      BY KeepLemma
    <3>2. more \in Seq(Event)
      OBVIOUS
    <3> HIDE DEF more
    <3> QED
      BY <3>1, <3>2 DEF LoadEvents
  <2>2. e.ts \in Int /\ e.turn.project \in Project
    BY EventTyped, TimeAssumption DEF Time, TurnType
  <2>3. Pass1(Long(more))[s] \in SessionState
    BY <1>0, <2>1, SessionTotals
  <2> SUFFICES ASSUME IsByTime(more) PROVE KnowsLess(Pass1(Short(more))[s], Pass1(Long(more))[s])
    OBVIOUS
  <2>4. IsByTime(q) /\ \A i \in DOMAIN more : more[i].ts <= e.ts
    BY ByTimeOfAppended
  <2> HIDE DEF Short, Long, more
  <2>5. CASE e \in Since(c + 1, Project)
    <3>1. e \in Since(c, Project)
      BY <2>2, <2>5 DEF Since
    <3>2. Short(more) = Append(Short(q), e) /\ Long(more) = Append(Long(q), e)
      BY <1>0, <2>1, <2>5, <3>1
    <3>3. Short(q) \in Seq(Event) /\ Long(q) \in Seq(Event)
      BY <1>0
    <3>4. /\ Pass1(Short(more)) = Accumulate(Pass1(Short(q)), e)
          /\ Pass1(Long(more)) = Accumulate(Pass1(Long(q)), e)
          /\ Pass1(Short(q)) \in Sessions /\ Pass1(Long(q)) \in Sessions
      BY <3>2, <3>3, Pass1Lemma
    <3>5. KnowsLess(Pass1(Short(q))[s], Pass1(Long(q))[s])
      BY <1>2, <2>4
    <3>6. CASE s = e.session
      <4>1. /\ Pass1(Short(more))[s] = AddTurn(Pass1(Short(q))[s], e)
            /\ Pass1(Long(more))[s] = AddTurn(Pass1(Long(q))[s], e)
            /\ Pass1(Short(q))[s] \in SessionState /\ Pass1(Long(q))[s] \in SessionState
        BY <3>4, <3>6, AccumulateAt
      <4> QED
        BY <3>5, <4>1, TurnOfBoth
    <3>7. CASE s # e.session
      <4>1. /\ Pass1(Short(more))[s] = Pass1(Short(q))[s]
            /\ Pass1(Long(more))[s] = Pass1(Long(q))[s]
        BY <3>4, <3>7, AccumulateAt
      <4> QED
        BY <3>5, <4>1
    <3> QED
      BY <3>6, <3>7
  <2>6. CASE e \notin Since(c + 1, Project)
    <3>1. ~(e.ts >= c + 1)
      BY <2>2, <2>6 DEF Since
    <3>2. \A i \in DOMAIN more : more[i] \notin Since(c + 1, Project)
      <4> SUFFICES ASSUME NEW i \in DOMAIN more PROVE more[i] \notin Since(c + 1, Project)
        OBVIOUS
      <4>1. more[i].ts \in Int
        <5>1. more[i] \in Event
          BY <2>1
        <5> QED
          BY <5>1, EventTyped, TimeAssumption DEF Time
      <4>2. more[i].ts <= e.ts
        BY <2>4
      <4>3. ~(more[i].ts >= c + 1)
        BY <2>2, <3>1, <4>1, <4>2
      <4> QED
        BY <4>3 DEF Since
    <3>3. Short(more) = <<>>
      BY <1>0, <2>1, <3>2, KeptOfNone
    <3> QED
      BY <1>e, <2>3, <3>3, NewKnowsLess
  <2> QED
    BY <2>5, <2>6
<1> HIDE DEF Holds
<1>3. <<>> \in T /\ \A q \in Seq(Event) : \A e \in Event : q \in T => Append(q, e) \in T
  BY <1>1, <1>2
<1> HIDE DEF T
<1>4. Seq(Event) \subseteq T
  BY <1>3, SequenceInduction
<1> QED
  BY <1>4 DEF T, Holds

\* Session by session, and so in total.
LEMMA ShorterShowsLess ==
  ASSUME NEW es \in Seq(Event), IsByTime(es), NEW c \in Int,
         NEW f \in {"sessions", "spend", "cost", "retry", "cold", "long"}
  PROVE  Compute(LoadEvents(es, c + 1, Project))[f] <= Compute(LoadEvents(es, c, Project))[f]
<1> DEFINE short == LoadEvents(es, c + 1, Project)
           long == LoadEvents(es, c, Project)
<1>1. short \in Seq(Event) /\ long \in Seq(Event)
  BY KeepLemma DEF LoadEvents
<1>2. \A s \in Session : KnowsLess(Pass1(short)[s], Pass1(long)[s])
  BY ShorterKnowsLess
<1>3. \A s \in Session : Pass1(short)[s] \in SessionState /\ Pass1(long)[s] \in SessionState
  BY <1>1, SessionTotals
<1>4. CASE f = "cost"
  <2> DEFINE U == Since(c + 1, Project)
             V == Since(c, Project)
  <2>w. CostOf \in [Event -> Nat]
    BY WeightsTyped
  <2>1. Compute(short).cost = Sum(CostOf, short) /\ Compute(long).cost = Sum(CostOf, long)
    BY ComputeFields
  <2>2. Sum(CostOf, short) = SumIn(CostOf, short, Event) /\ Sum(CostOf, long) = SumIn(CostOf, long, Event)
    BY <1>1, SumIsSumIn
  <2>3. \A e \in Event : e \in U \cap Event => e \in V \cap Event
    BY EventTyped, TimeAssumption DEF Since, Time
  <2>4. \A e \in Event : CostOf[e] <= CostOf[e]
    BY <2>w
  <2> HIDE DEF U, V
  <2>5. SumIn(CostOf, es, U \cap Event) <= SumIn(CostOf, es, V \cap Event)
    BY <2>w, <2>3, <2>4, SumOfLess
  <2>6. /\ SumIn(CostOf, Keep(es, U), Event) = SumIn(CostOf, es, U \cap Event)
        /\ SumIn(CostOf, Keep(es, V), Event) = SumIn(CostOf, es, V \cap Event)
    BY <2>w, SumOfKept
  <2> QED
    BY <1>4, <2>1, <2>2, <2>5, <2>6 DEF LoadEvents, U, V
<1> HIDE DEF short, long
<1>5. CASE f \in {"spend", "retry", "cold"}
  <2> DEFINE v == [s \in Session |-> Pass1(short)[s][f]]
             w == [s \in Session |-> Pass1(long)[s][f]]
  <2>1. Compute(short)[f] = SumFunction(v) /\ Compute(long)[f] = SumFunction(w)
    BY <1>5, ComputeFields
  <2>2. IsWeight(v, Session) /\ IsWeight(w, Session)
    BY <1>3, <1>5 DEF IsWeight, SessionState
  <2>3. \A s \in Session : v[s] <= w[s]
    BY <1>2, <1>5 DEF KnowsLess
  <2> HIDE DEF v, w
  <2>4. SumFunction(v) <= SumFunction(w)
    BY <2>2, <2>3, FiniteAssumption, SumGrows
  <2> QED
    BY <2>1, <2>4 DEF short, long
<1>6. CASE f \in {"sessions", "long"}
  <2> DEFINE Of(q) == IF f = "sessions" THEN SessionsOf(q) ELSE {s \in Session : IsLong(Pass1(q)[s])}
  <2>1. \A q : Compute(q)[f] = Cardinality(Of(q))
    BY <1>6, ComputeFields
  <2>2. SessionsOf(short) \subseteq SessionsOf(long)
    <3> SUFFICES ASSUME NEW s \in SessionsOf(short), s \notin SessionsOf(long) PROVE FALSE
      OBVIOUS
    <3>1. s \in Session
      BY <1>1, SessionsOfLemma
    <3>2. Pass1(short)[s].turns > 0 /\ Pass1(long)[s] = NewSession
      BY <1>1, <3>1, SessionTotals
    <3>3. Pass1(short)[s].turns <= Pass1(long)[s].turns /\ Pass1(short)[s].turns \in Nat
      BY <1>2, <1>3, <3>1 DEF KnowsLess, SessionState
    <3>4. NewSession.turns = 0
      BY DEF NewSession
    <3> QED
      BY <3>2, <3>3, <3>4
  <2>3. {s \in Session : IsLong(Pass1(short)[s])} \subseteq {s \in Session : IsLong(Pass1(long)[s])}
    <3> SUFFICES ASSUME NEW s \in Session, IsLong(Pass1(short)[s]) PROVE IsLong(Pass1(long)[s])
      OBVIOUS
    <3>1. Pass1(short)[s].turns <= Pass1(long)[s].turns
      BY <1>2 DEF KnowsLess
    <3>2. Pass1(short)[s].turns \in Nat /\ Pass1(long)[s].turns \in Nat
      BY <1>3 DEF SessionState
    <3> QED
      BY <3>1, <3>2, TimeAssumption DEF IsLong
  <2>4. Of(short) \subseteq Of(long) /\ Of(long) \subseteq Session
    BY <1>1, <2>2, <2>3, SessionsOfLemma
  <2> HIDE DEF Of
  <2>5. IsFiniteSet(Of(long))
    BY <2>4, FiniteAssumption, FS_Subset
  <2>6. Cardinality(Of(short)) <= Cardinality(Of(long))
    BY <2>4, <2>5, FS_Subset
  <2> QED
    BY <2>1, <2>6 DEF short, long
<1> QED
  BY <1>4, <1>5, <1>6 DEF short, long

\* A shorter window never shows more.  It needs LoadEvents' order: with turns out
\* of the order of their times the first turn of a window need not be its oldest.
THEOREM WindowsAreMonotoneHolds == StoreSpec => []WindowsAreMonotone
<1>1. EventsOK => WindowsAreMonotone
  <2> SUFFICES ASSUME EventsOK, NEW c \in Time,
                      NEW f \in {"sessions", "spend", "cost", "retry", "cold", "long"}
               PROVE  Compute(LoadEvents(events, c + 1, Project))[f] <=
                      Compute(LoadEvents(events, c, Project))[f]
    BY DEF WindowsAreMonotone
  <2>1. events \in Seq(Event) /\ IsByTime(events) /\ c \in Int
    BY TimeAssumption DEF EventsOK, Time
  <2> QED
    BY <2>1, ShorterShowsLess
<1> QED
  BY <1>1, EventsInvariant, PTL

-----------------------------------------------------------------------------
(* The session statistics, beside what pass 1 knows. *)

Failing == {e \in Event : e.turn.isError}
HasInput(es) == \A e \in ToSet(es) : e.turn.input > 0

\* The statistics of a session, field by field.
LEMMA StatsOfSession ==
  ASSUME NEW es, NEW s \in SessionsOf(es)
  PROVE  LET st == BuildStat(OfSession(es, s))
             stats == SessionStats(es)
         IN  /\ DOMAIN stats = SessionsOf(es)
             /\ stats[s].turns = st.turns /\ stats[s].spend = st.spend /\ stats[s].cost = st.cost
             /\ stats[s].errorTurns = st.errorTurns /\ stats[s].coldTurns = st.coldTurns
             /\ stats[s].coldTokens = st.coldTokens
BY DEF SessionStats

\* What the two know of one session.
Agree(ss, st) ==
  /\ st.turns = ss.turns /\ st.prevTime = ss.lastTS
  /\ ss.cold <= st.coldTokens /\ (st.coldTurns = 0 => ss.cold = 0)
  /\ (st.errorTurns = 0 => ~ss.hasError /\ ss.retry = 0)

\* Before the first turn the two agree.
LEMMA NewAgree == Agree(NewSession, NewStat)
BY DEF Agree, NewSession, NewStat

\* One turn keeps them in agreement.
LEMMA TurnsAgree ==
  ASSUME NEW ss \in SessionState, NEW st \in Stat, Agree(ss, st), NEW e \in Event
  PROVE  /\ Agree(AddTurn(ss, e), StatOf(st, e))
         /\ e.turn.input > 0 /\ (st.coldTurns > 0 => ss.cold > 0)
              => (StatOf(st, e).coldTurns > 0 => AddTurn(ss, e).cold > 0)
<1> DEFINE gone == IsColdRestart(ss.lastTS, e.ts)
           cold == IF gone THEN e.turn.input ELSE 0
           retry == IF ss.hasError /\ ~e.turn.isError THEN SpendOf[e] ELSE 0
           tokens == IF gone THEN AllTokens[e] ELSE 0
           turns == IF gone THEN 1 ELSE 0
           failed == IF e.turn.isError THEN 1 ELSE 0
           s == AddTurn(ss, e)
           t == StatOf(st, e)
<1>1. /\ e.turn.input \in Nat /\ AllTokens[e] \in Nat /\ SpendOf[e] \in Nat
      /\ e.turn.input <= AllTokens[e] /\ e.turn.isError \in BOOLEAN
  <2>1. /\ e.turn.input \in Nat /\ e.turn.output \in Nat /\ e.turn.cacheRead \in Nat
        /\ e.turn.cacheCreation \in Nat /\ e.turn.isError \in BOOLEAN
    BY EventTyped DEF TurnType
  <2>2. /\ SpendOf[e] = e.turn.input + e.turn.output
        /\ AllTokens[e] = SpendOf[e] + e.turn.cacheRead + e.turn.cacheCreation
    BY DEF SpendOf, AllTokens
  <2> QED
    BY <2>1, <2>2
<1>2. /\ st.turns = ss.turns /\ st.prevTime = ss.lastTS
      /\ ss.cold <= st.coldTokens /\ (st.coldTurns = 0 => ss.cold = 0)
      /\ (st.errorTurns = 0 => ~ss.hasError /\ ss.retry = 0)
  BY DEF Agree
<1>3. HasGoneCold(st.prevTime, e.ts) <=> gone
  BY <1>2 DEF HasGoneCold, IsColdRestart
<1>4. /\ s.turns = ss.turns + 1 /\ s.lastTS = e.ts /\ s.hasError = e.turn.isError
      /\ s.cold = ss.cold + cold /\ s.retry = ss.retry + retry
  BY DEF AddTurn
<1>5. /\ t.turns = st.turns + 1 /\ t.prevTime = e.ts
      /\ t.coldTurns = st.coldTurns + turns /\ t.coldTokens = st.coldTokens + tokens
      /\ t.errorTurns = st.errorTurns + failed
  BY <1>3 DEF StatOf
<1>6. /\ ss.turns \in Nat /\ ss.cold \in Nat /\ ss.retry \in Nat /\ ss.hasError \in BOOLEAN
      /\ st.coldTurns \in Nat /\ st.coldTokens \in Nat /\ st.errorTurns \in Nat
  BY DEF SessionState, Stat
<1>7. /\ cold \in Nat /\ tokens \in Nat /\ turns \in Nat /\ failed \in Nat /\ retry \in Nat
      /\ cold <= tokens /\ (turns = 0 => cold = 0)
      /\ (failed = 0 => ~e.turn.isError)
      /\ (e.turn.input > 0 /\ turns > 0 => cold > 0)
  <2> HIDE DEF gone
  <2> QED
    BY <1>1
<1>8. ~ss.hasError => retry = 0
  OBVIOUS
<1> HIDE DEF gone, cold, retry, tokens, turns, failed, s, t
<1>9. t.turns = s.turns /\ t.prevTime = s.lastTS
  BY <1>2, <1>4, <1>5
<1>10. s.cold <= t.coldTokens /\ (t.coldTurns = 0 => s.cold = 0)
  BY <1>2, <1>4, <1>5, <1>6, <1>7
<1>11. t.errorTurns = 0 => ~s.hasError /\ s.retry = 0
  <2> SUFFICES ASSUME t.errorTurns = 0 PROVE ~s.hasError /\ s.retry = 0
    OBVIOUS
  <2>1. st.errorTurns = 0 /\ failed = 0
    BY <1>5, <1>6, <1>7
  <2>2. ~ss.hasError /\ ss.retry = 0 /\ retry = 0 /\ ~e.turn.isError
    BY <1>2, <1>7, <1>8, <2>1
  <2> QED
    BY <1>4, <2>2
<1>12. e.turn.input > 0 /\ (st.coldTurns > 0 => ss.cold > 0) => (t.coldTurns > 0 => s.cold > 0)
  BY <1>1, <1>4, <1>5, <1>6, <1>7
<1>13. Agree(s, t)
  BY <1>9, <1>10, <1>11 DEF Agree
<1> QED
  BY <1>12, <1>13 DEF s, t

\* The statistics of a session, event by event.
LEMMA StatAppended ==
  ASSUME NEW es \in Seq(Event), NEW e \in Event, NEW s \in Session
  PROVE  /\ BuildStat(OfSession(es, s)) \in Stat
         /\ s = e.session => BuildStat(OfSession(Append(es, e), s)) =
                             StatOf(BuildStat(OfSession(es, s)), e)
         /\ s # e.session => BuildStat(OfSession(Append(es, e), s)) = BuildStat(OfSession(es, s))
<1>1. /\ OfSession(es, s) \in Seq(Event)
      /\ OfSession(Append(es, e), s) =
           IF e \in InSession(s) THEN Append(OfSession(es, s), e) ELSE OfSession(es, s)
  BY KeepLemma DEF OfSession
<1>2. e \in InSession(s) <=> s = e.session
  BY DEF InSession
<1>3. BuildStat(OfSession(es, s)) \in Stat
  BY <1>1, StatLemma
<1>4. BuildStat(Append(OfSession(es, s), e)) = StatOf(BuildStat(OfSession(es, s)), e)
  BY <1>1, StatLemma
<1> QED
  BY <1>1, <1>2, <1>3, <1>4

\* So they agree on every session, whatever the turns of others between its own.
LEMMA SessionsAgree ==
  ASSUME NEW es \in Seq(Event), NEW s \in Session
  PROVE  /\ BuildStat(OfSession(es, s)) \in Stat
         /\ Agree(Pass1(es)[s], BuildStat(OfSession(es, s)))
         /\ HasInput(es) /\ BuildStat(OfSession(es, s)).coldTurns > 0 => Pass1(es)[s].cold > 0
<1> DEFINE ss(q) == Pass1(q)[s]
           st(q) == BuildStat(OfSession(q, s))
           Cold(q) == HasInput(q) => (st(q).coldTurns > 0 => ss(q).cold > 0)
           Holds(q) == st(q) \in Stat /\ Agree(ss(q), st(q)) /\ Cold(q)
           T == {q \in Seq(Event) : Holds(q)}
<1>1. Holds(<<>>)
  <2>1. <<>> \in Seq(Event)
    OBVIOUS
  <2>2. ss(<<>>) = NewSession /\ OfSession(<<>>, s) = <<>>
    <3>1. Pass1(<<>>) = NoSessions
      BY Pass1Lemma
    <3>2. Keep(<<>>, InSession(s)) = <<>>
      BY KeepLemma
    <3> QED
      BY <3>1, <3>2 DEF OfSession, NoSessions
  <2>3. BuildStat(<<>>) = NewStat
    BY <2>1, StatLemma
  <2>4. NewStat.coldTurns = 0
    BY DEF NewStat
  <2> QED
    BY <2>2, <2>3, <2>4, NewAgree, StatTyped
<1>2. ASSUME NEW q \in Seq(Event), NEW e \in Event, Holds(q) PROVE Holds(Append(q, e))
  <2> DEFINE more == Append(q, e)
  <2>1. Pass1(more) = Accumulate(Pass1(q), e) /\ Pass1(q) \in Sessions
    BY Pass1Lemma
  <2>2. /\ s = e.session => st(more) = StatOf(st(q), e)
        /\ s # e.session => st(more) = st(q)
    BY StatAppended
  <2>3. st(q) \in Stat /\ Agree(ss(q), st(q)) /\ Cold(q)
    BY <1>2
  <2>4. HasInput(more) => HasInput(q) /\ e.turn.input > 0
    BY AppendedElement DEF HasInput
  <2>5. ss(q) \in SessionState
    BY SessionTotals
  <2> HIDE DEF more, st
  <2>6. CASE s = e.session
    <3>1. ss(more) = AddTurn(ss(q), e) /\ st(more) = StatOf(st(q), e)
      BY <2>1, <2>2, <2>6, AccumulateAt
    <3> HIDE DEF ss
    <3>2. Agree(AddTurn(ss(q), e), StatOf(st(q), e))
      BY <2>3, <2>5, TurnsAgree
    <3>3. e.turn.input > 0 /\ (st(q).coldTurns > 0 => ss(q).cold > 0)
            => (StatOf(st(q), e).coldTurns > 0 => AddTurn(ss(q), e).cold > 0)
      BY <2>3, <2>5, TurnsAgree
    <3>4. StatOf(st(q), e) \in Stat
      BY <2>3, StatTyped DEF StatAct
    <3> QED
      BY <2>3, <2>4, <3>1, <3>2, <3>3, <3>4 DEF more
  <2>7. CASE s # e.session
    <3>1. ss(more) = ss(q) /\ st(more) = st(q)
      BY <2>1, <2>2, <2>7, AccumulateAt
    <3> HIDE DEF ss
    <3> QED
      BY <2>3, <2>4, <3>1 DEF more
  <2> QED
    BY <2>6, <2>7
<1> HIDE DEF Holds
<1>3. <<>> \in T /\ \A q \in Seq(Event) : \A e \in Event : q \in T => Append(q, e) \in T
  BY <1>1, <1>2
<1> HIDE DEF T
<1>4. Seq(Event) \subseteq T
  BY <1>3, SequenceInduction
<1> QED
  BY <1>4 DEF T, Holds

-----------------------------------------------------------------------------
(* Lists of the first of a set. *)

\* The smaller of two numbers.
LEMMA MinOfTwo ==
  ASSUME NEW a \in Nat, NEW b \in Nat
  PROVE  /\ Min({a, b}) \in Nat /\ Min({a, b}) <= a /\ Min({a, b}) <= b
         /\ Min({a, b}) = a \/ Min({a, b}) = b
<1>1. \E x \in {a, b} : \A y \in {a, b} : x <= y
  <2>1. CASE a <= b
    BY <2>1
  <2>2. CASE b <= a
    BY <2>2
  <2> QED
    BY <2>1, <2>2
<1>2. Min({a, b}) \in {a, b} /\ \A y \in {a, b} : Min({a, b}) <= y
  BY <1>1 DEF Min
<1> QED
  BY <1>2

\* There is a first as soon as there is any.
LEMMA TopOfNone ==
  ASSUME NEW S, IsFiniteSet(S), NEW n \in Nat \ {0}, NEW order
  PROVE  TopOf(S, n, order) = <<>> <=> S = {}
<1> DEFINE k == Min({n, Cardinality(S)})
<1>1. Cardinality(S) \in Nat /\ (Cardinality(S) = 0 <=> S = {})
  BY FS_CardinalityType, FS_EmptySet
<1>2. k \in Nat /\ (k = 0 <=> S = {})
  <2>1. n \in Nat /\ n # 0
    OBVIOUS
  <2>2. /\ k \in Nat /\ k <= n /\ k <= Cardinality(S)
        /\ k = n \/ k = Cardinality(S)
    BY <1>1, <2>1, MinOfTwo
  <2> HIDE DEF k
  <2> QED
    BY <1>1, <2>1, <2>2
<1>3. DOMAIN TopOf(S, n, order) = 1..k
  BY DEF TopOf
<1>4. ASSUME TopOf(S, n, order) = <<>> PROVE S = {}
  <2>1. DOMAIN <<>> = {}
    OBVIOUS
  <2>2. 1..k = {}
    BY <1>3, <1>4, <2>1
  <2> HIDE DEF k
  <2>3. ~(1 <= k)
    <3>1. 1 <= k => 1 \in 1..k
      BY <1>2
    <3> QED
      BY <2>2, <3>1
  <2> QED
    BY <1>2, <2>3
<1>5. ASSUME S = {} PROVE TopOf(S, n, order) = <<>>
  <2>1. k = 0
    BY <1>2, <1>5
  <2>2. 1..k = {}
    BY <2>1
  <2>3. \A f : f = [i \in {} |-> f[i]] => f = <<>>
    OBVIOUS
  <2> DEFINE f == TopOf(S, n, order)
  <2>4. f = [i \in 1..k |-> f[i]]
    <3>1. \E h : f = [i \in 1..k |-> h[i]]
      <4> DEFINE First(T) == CHOOSE x \in T : \A y \in T : <<y, x>> \notin order
                 left == CHOOSE g : g = [i \in 0..Cardinality(S) |->
                                           IF i = 0 THEN S ELSE g[i - 1] \ {First(g[i - 1])}]
                 h == [i \in 1..k |-> First(left[i - 1])]
      <4>1. f = h
        BY DEF TopOf
      <4> HIDE DEF left, First, k
      <4>2. h = [i \in 1..k |-> h[i]]
        OBVIOUS
      <4> HIDE DEF h, f
      <4> QED
        BY <4>1, <4>2
    <3> HIDE DEF f, k
    <3> QED
      BY <3>1
  <2> HIDE DEF f, k
  <2>5. f = [i \in {} |-> f[i]]
    BY <2>2, <2>4
  <2> QED
    BY <2>3, <2>5 DEF f
<1> QED
  BY <1>4, <1>5

\* The list of cold restarts.
LEMMA ColdRestartsListed ==
  ASSUME NEW es \in Seq(Event)
  PROVE  DeepAnalyze(es).coldRestart = <<>> <=>
         \A s \in SessionsOf(es) : ~(SessionStats(es)[s].coldTurns > 0)
<1> DEFINE stats == Range(SessionStats(es))
           S == {st \in stats : st.coldTurns > 0}
           order == {p \in stats \X stats : p[1].coldTokens > p[2].coldTokens}
<1>1. DeepAnalyze(es).coldRestart = TopOf(S, TopN, order)
  BY DEF DeepAnalyze
<1>2. DOMAIN SessionStats(es) = SessionsOf(es)
  BY DEF SessionStats
<1>3. stats = {SessionStats(es)[s] : s \in SessionsOf(es)}
  BY <1>2 DEF Range
<1>4. IsFiniteSet(SessionsOf(es))
  BY SessionsOfLemma, FiniteAssumption, FS_Subset
<1>5. IsFiniteSet(stats)
  <2> DEFINE D == SessionsOf(es)
             h == SessionStats(es)
  <2>1. IsFiniteSet(D) /\ stats = {h[x] : x \in D}
    BY <1>3, <1>4
  <2> HIDE DEF D, h, stats
  <2>2. IsFiniteSet({h[x] : x \in D})
    BY <2>1, FiniteImage
  <2> QED
    BY <2>1, <2>2
<1>6. IsFiniteSet(S)
  <2> HIDE DEF stats
  <2>1. S \subseteq stats
    OBVIOUS
  <2> HIDE DEF S
  <2> QED
    BY <1>5, <2>1, FS_Subset
<1>7. S = {} <=> \A s \in SessionsOf(es) : ~(SessionStats(es)[s].coldTurns > 0)
  <2> HIDE DEF stats
  <2> QED
    BY <1>3
<1> HIDE DEF S, order
<1>8. TopOf(S, TopN, order) = <<>> <=> S = {}
  BY <1>6, TopAssumption, TopOfNone
<1> QED
  BY <1>1, <1>7, <1>8

\* report and analyze agree on turns, on cold restarts, on whether there is one to
\* list, and on who has failed before anything is retried, though buildStat and
\* Compute each go through the events in a loop of their own.
THEOREM AnalysesAgreeHolds == StoreSpec => []AnalysesAgree
<1>1. ASSUME NEW es \in Seq(Event), NEW s \in SessionsOf(es)
      PROVE  /\ SessionStats(es)[s].turns = Pass1(es)[s].turns
             /\ Pass1(es)[s].cold <= SessionStats(es)[s].coldTokens
             /\ Pass1(es)[s].retry > 0 => SessionStats(es)[s].errorTurns > 0
             /\ HasInput(es) => (SessionStats(es)[s].coldTurns > 0 <=> Pass1(es)[s].cold > 0)
  <2> DEFINE st == BuildStat(OfSession(es, s))
             ss == Pass1(es)[s]
  <2>0. s \in Session
    BY SessionsOfLemma
  <2>1. st \in Stat /\ Agree(ss, st) /\ (HasInput(es) /\ st.coldTurns > 0 => ss.cold > 0)
    BY <2>0, SessionsAgree
  <2>2. ss \in SessionState
    BY <2>0, SessionTotals
  <2>3. /\ SessionStats(es)[s].turns = st.turns /\ SessionStats(es)[s].coldTokens = st.coldTokens
        /\ SessionStats(es)[s].errorTurns = st.errorTurns /\ SessionStats(es)[s].coldTurns = st.coldTurns
    BY StatsOfSession
  <2> HIDE DEF st, ss
  <2>4. /\ ss.cold \in Nat /\ ss.retry \in Nat
        /\ st.errorTurns \in Nat /\ st.coldTurns \in Nat /\ st.coldTokens \in Nat
    BY <2>1, <2>2 DEF SessionState, Stat
  <2>5. /\ st.turns = ss.turns
        /\ ss.cold <= st.coldTokens /\ (st.coldTurns = 0 => ss.cold = 0)
        /\ (st.errorTurns = 0 => ss.retry = 0)
    BY <2>1 DEF Agree
  <2>6. ss.retry > 0 => st.errorTurns > 0
    BY <2>4, <2>5
  <2>7. HasInput(es) => (st.coldTurns > 0 <=> ss.cold > 0)
    BY <2>1, <2>4, <2>5
  <2> QED
    BY <2>3, <2>5, <2>6, <2>7 DEF ss
<1>2. ASSUME NEW es \in Seq(Event), HasInput(es)
      PROVE  DeepAnalyze(es).coldRestart = <<>> <=> Compute(es).cold = 0
  <2> DEFINE w == [s \in Session |-> Pass1(es)[s].cold]
  <2>1. IsWeight(w, Session)
    BY SessionTotals DEF IsWeight, SessionState
  <2>2. Compute(es).cold = SumFunction(w)
    BY ComputeFields
  <2>3. \A s \in Session : w[s] = 0 <=> ~(w[s] > 0)
    BY <2>1 DEF IsWeight
  <2>4. \A s \in SessionsOf(es) : SessionStats(es)[s].coldTurns > 0 <=> w[s] > 0
    BY <1>1, <1>2, SessionsOfLemma
  <2>5. \A s \in Session : s \notin SessionsOf(es) => w[s] = 0
    BY SessionTotals DEF NewSession
  <2> HIDE DEF w
  <2>6. SumFunction(w) = 0 <=> \A s \in Session : w[s] = 0
    BY <2>1, FiniteAssumption, SumIsNatural
  <2>7. (\A s \in Session : w[s] = 0) <=>
        \A s \in SessionsOf(es) : ~(SessionStats(es)[s].coldTurns > 0)
    BY <2>3, <2>4, <2>5, SessionsOfLemma
  <2> QED
    BY <2>2, <2>6, <2>7, ColdRestartsListed
<1>3. EventsOK => AnalysesAgree
  <2> SUFFICES ASSUME EventsOK PROVE AnalysesAgree
    OBVIOUS
  <2>1. events \in Seq(Event)
    BY DEF EventsOK
  <2>2. HasInput(events) <=> \A e \in ToSet(events) : e.turn.input > 0
    BY DEF HasInput
  <2> QED
    BY <1>1, <1>2, <2>1, <2>2 DEF AnalysesAgree
<1> QED
  BY <1>3, EventsInvariant, PTL

-----------------------------------------------------------------------------
(* The parts that the tokens and their cost are split up into. *)

\* What a whole adds up to, when the parts of some are nothing.
LEMMA SumOfSomeParts ==
  ASSUME NEW w \in [Event -> Nat], NEW es \in Seq(Event), NEW K, IsFiniteSet(K), NEW part,
         Partition(part, K, Event), NEW t \in SUBSET K,
         \A k \in K \ t : SumIn(w, es, part[k]) = 0
  PROVE  SumFunction([k \in t |-> SumIn(w, es, part[k])]) = Sum(w, es)
<1> DEFINE a == [k \in K |-> SumIn(w, es, part[k])]
           b == [k \in t |-> SumIn(w, es, part[k])]
<1>1. IsWeight(a, K) /\ IsWeight(b, t)
  <2>1. \A k \in K : SumIn(w, es, part[k]) \in Nat
    BY SumInLemma
  <2> QED
    BY <2>1 DEF IsWeight
<1>2. (\A k \in t : b[k] = a[k]) /\ \A k \in K \ t : a[k] = 0
  OBVIOUS
<1>3. PartSums(w, es, part, K) = SumIn(w, es, Event)
  BY SumOverPartition
<1>4. SumFunction(a) = Sum(w, es)
  BY <1>3, SumIsSumIn DEF PartSums
<1> HIDE DEF a, b
<1>5. SumFunction(a) = SumFunction(b)
  BY <1>1, <1>2, SumOfPart
<1>6. SumFunction(b) = Sum(w, es)
  BY <1>4, <1>5
<1> QED
  BY <1>6 DEF b

\* Of events that are not there nothing is added.
LEMMA SumOfAbsent ==
  ASSUME NEW w \in [Event -> Nat], NEW es \in Seq(Event), NEW U, \A i \in DOMAIN es : es[i] \notin U
  PROVE  SumIn(w, es, U) = 0
<1>1. {j \in DOMAIN es : es[j] \in U} = {}
  OBVIOUS
<1>2. SumIn(w, es, U) = SumFunction([i \in {} |-> w[es[i]]])
  BY <1>1 DEF SumIn
<1>3. IsWeight([i \in {} |-> w[es[i]]], {})
  BY DEF IsWeight
<1> QED
  BY <1>2, <1>3, SumOfNone

\* As of a session without events.
LEMMA OfAbsentSession ==
  ASSUME NEW w \in [Event -> Nat], NEW es \in Seq(Event), NEW s, s \notin SessionsOf(es)
  PROVE  SumIn(w, es, InSession(s)) = 0
<1>1. \A i \in DOMAIN es : es[i] \notin InSession(s)
  BY DEF SessionsOf, InSession
<1> QED
  BY <1>1, SumOfAbsent

\* There are finitely many activities.
LEMMA ActivitiesAreFinite == IsFiniteSet(Activity)
<1> DEFINE two == {"thinking"} \cup {"exploration"}
           four == (two \cup {"coding"}) \cup {"testing"}
           six == (four \cup {"shipping"}) \cup {"conversation"}
<1>1. IsFiniteSet({"thinking"})
  BY FS_Singleton
<1>2. IsFiniteSet(two)
  BY <1>1, FS_AddElement
<1>3. IsFiniteSet(four)
  <2>1. IsFiniteSet(two \cup {"coding"})
    BY <1>2, FS_AddElement
  <2> QED
    BY <2>1, FS_AddElement
<1>4. IsFiniteSet(six)
  <2>1. IsFiniteSet(four \cup {"shipping"})
    BY <1>3, FS_AddElement
  <2> QED
    BY <2>1, FS_AddElement
<1>5. six = Activity
  BY DEF Activity
<1> QED
  BY <1>4, <1>5

\* The activities partition the events.
LEMMA ByActivities == Partition([a \in Activity |-> During(a)], Activity, Event)
BY WeightsTyped DEF Partition, During

\* So do the models.
LEMMA ByModels == Partition([m \in Model |-> WithModel(m)], Model, Event)
BY EventTyped DEF Partition, WithModel, TurnType

Accounts(breakdown, es) ==
  /\ SumFunction([x \in DOMAIN breakdown |-> breakdown[x].tokens]) = Sum(SpendOf, es)
  /\ SumFunction([x \in DOMAIN breakdown |-> breakdown[x].cost]) = Sum(CostOf, es)

\* A breakdown by any partition of the events accounts for the whole.
LEMMA BreakdownsAccount ==
  ASSUME NEW es \in Seq(Event), NEW K, IsFiniteSet(K), NEW part, Partition(part, K, Event)
  PROVE  Accounts([k \in K |-> Breakdown(es, part[k])], es)
<1> DEFINE b == [k \in K |-> Breakdown(es, part[k])]
<1>1. ASSUME NEW w \in [Event -> Nat]
      PROVE  SumFunction([k \in K |-> SumIn(w, es, part[k])]) = Sum(w, es)
  <2>1. PartSums(w, es, part, K) = SumIn(w, es, Event)
    BY SumOverPartition
  <2> QED
    BY <2>1, SumIsSumIn DEF PartSums
<1>2. SpendOf \in [Event -> Nat] /\ CostOf \in [Event -> Nat]
  BY WeightsTyped
<1>3. DOMAIN b = K
  OBVIOUS
<1>4. \A k \in K : b[k].tokens = SumIn(SpendOf, es, part[k]) /\ b[k].cost = SumIn(CostOf, es, part[k])
  BY DEF Breakdown
<1> HIDE DEF b
<1>5. [x \in DOMAIN b |-> b[x].tokens] = [k \in K |-> SumIn(SpendOf, es, part[k])]
  BY <1>3, <1>4
<1>6. [x \in DOMAIN b |-> b[x].cost] = [k \in K |-> SumIn(CostOf, es, part[k])]
  BY <1>3, <1>4
<1>7. Accounts(b, es)
  BY <1>1, <1>2, <1>5, <1>6 DEF Accounts
<1> QED
  BY <1>7 DEF b

\* Those of the engine do.
LEMMA EngineAccounts ==
  ASSUME NEW es \in Seq(Event)
  PROVE  Accounts(ByActivity(es), es) /\ Accounts(ByModel(es), es)
<1> DEFINE a == [x \in Activity |-> During(x)]
           m == [x \in Model |-> WithModel(x)]
<1>1. ByActivity(es) = [k \in Activity |-> Breakdown(es, a[k])]
  BY DEF ByActivity
<1>2. ByModel(es) = [k \in Model |-> Breakdown(es, m[k])]
  BY DEF ByModel
<1>3. Partition(a, Activity, Event) /\ Partition(m, Model, Event)
  BY ByActivities, ByModels
<1> HIDE DEF a, m
<1>4. Accounts([k \in Activity |-> Breakdown(es, a[k])], es)
  BY <1>3, ActivitiesAreFinite, BreakdownsAccount
<1>5. Accounts([k \in Model |-> Breakdown(es, m[k])], es)
  BY <1>3, FiniteAssumption, BreakdownsAccount
<1> QED
  BY <1>1, <1>2, <1>4, <1>5

\* Sessions: the statistics add up a session's turns, and none of a session that
\* has not failed has.
FailingIn(s) == InSession(s) \cap Failing

\* The statistics of a session and the sums of its events.
LEMMA StatTotals ==
  ASSUME NEW es \in Seq(Event), NEW s \in Session
  PROVE  LET st == BuildStat(OfSession(es, s))
         IN  /\ st.spend = SumIn(AllTokens, es, InSession(s))
             /\ st.cost = SumIn(CostOf, es, InSession(s))
             /\ st.errorTurns = 0 => SumIn(AllTokens, es, FailingIn(s)) = 0
<1> DEFINE st(q) == BuildStat(OfSession(q, s))
           In == InSession(s)
           Bad == FailingIn(s)
           Holds(q) == /\ st(q).spend = SumIn(AllTokens, q, In)
                       /\ st(q).cost = SumIn(CostOf, q, In)
                       /\ st(q).errorTurns = 0 => SumIn(AllTokens, q, Bad) = 0
           T == {q \in Seq(Event) : Holds(q)}
<1>w. AllTokens \in [Event -> Nat] /\ CostOf \in [Event -> Nat]
  BY WeightsTyped
<1>1. Holds(<<>>)
  <2>1. <<>> \in Seq(Event)
    OBVIOUS
  <2>2. OfSession(<<>>, s) = <<>>
    BY <2>1, KeepLemma DEF OfSession
  <2>3. BuildStat(<<>>) = NewStat
    BY <2>1, StatLemma
  <2>4. NewStat.spend = 0 /\ NewStat.cost = 0
    BY DEF NewStat
  <2>5. \A w \in [Event -> Nat] : \A U : SumIn(w, <<>>, U) = 0
    BY <2>1, SumInLemma
  <2> HIDE DEF In, Bad
  <2> QED
    BY <1>w, <2>2, <2>3, <2>4, <2>5
<1>2. ASSUME NEW q \in Seq(Event), NEW e \in Event, Holds(q) PROVE Holds(Append(q, e))
  <2> DEFINE more == Append(q, e)
  <2>0. \A w \in [Event -> Nat] : \A U :
         /\ SumIn(w, more, U) = SumIn(w, q, U) + Weight(w, e, U)
         /\ SumIn(w, q, U) \in Nat /\ Weight(w, e, U) \in Nat
    BY SumInLemma
  <2>1. /\ st(q) \in Stat
        /\ s = e.session => st(more) = StatOf(st(q), e)
        /\ s # e.session => st(more) = st(q)
    BY StatAppended
  <2>2. /\ st(q).spend = SumIn(AllTokens, q, In) /\ st(q).cost = SumIn(CostOf, q, In)
        /\ st(q).errorTurns = 0 => SumIn(AllTokens, q, Bad) = 0
    BY <1>2
  <2>i. /\ e \in In <=> s = e.session
        /\ e \in Bad <=> s = e.session /\ e.turn.isError
    BY DEF InSession, FailingIn, Failing
  <2> HIDE DEF st, more, In, Bad
  <2>3. /\ SumIn(AllTokens, more, In) = SumIn(AllTokens, q, In) + Weight(AllTokens, e, In)
        /\ SumIn(CostOf, more, In) = SumIn(CostOf, q, In) + Weight(CostOf, e, In)
        /\ SumIn(AllTokens, more, Bad) = SumIn(AllTokens, q, Bad) + Weight(AllTokens, e, Bad)
        /\ SumIn(AllTokens, q, In) \in Nat /\ SumIn(CostOf, q, In) \in Nat
        /\ SumIn(AllTokens, q, Bad) \in Nat
    BY <1>w, <2>0
  <2>4. CASE s = e.session
    <3>1. st(more) = StatOf(st(q), e)
      BY <2>1, <2>4
    <3> DEFINE failed == IF e.turn.isError THEN 1 ELSE 0
    <3>2. /\ StatOf(st(q), e).spend = st(q).spend + AllTokens[e]
          /\ StatOf(st(q), e).cost = st(q).cost + CostOf[e]
          /\ StatOf(st(q), e).errorTurns = st(q).errorTurns + failed
      BY DEF StatOf
    <3>3. Weight(AllTokens, e, In) = AllTokens[e] /\ Weight(CostOf, e, In) = CostOf[e]
      BY <2>i, <2>4 DEF Weight
    <3>4. failed = 0 => Weight(AllTokens, e, Bad) = 0
      BY <2>i DEF Weight
    <3>5. failed \in Nat /\ st(q).errorTurns \in Nat
      BY <2>1 DEF Stat
    <3> HIDE DEF failed
    <3>6. st(more).spend = SumIn(AllTokens, more, In) /\ st(more).cost = SumIn(CostOf, more, In)
      BY <2>2, <2>3, <3>1, <3>2, <3>3
    <3>7. st(more).errorTurns = 0 => SumIn(AllTokens, more, Bad) = 0
      <4> SUFFICES ASSUME st(more).errorTurns = 0 PROVE SumIn(AllTokens, more, Bad) = 0
        OBVIOUS
      <4>1. failed = 0 /\ st(q).errorTurns = 0
        BY <3>1, <3>2, <3>5
      <4> QED
        BY <2>2, <2>3, <3>4, <4>1
    <3> QED
      BY <3>6, <3>7 DEF more
  <2>5. CASE s # e.session
    <3>1. st(more) = st(q)
      BY <2>1, <2>5
    <3>2. Weight(AllTokens, e, In) = 0 /\ Weight(CostOf, e, In) = 0 /\ Weight(AllTokens, e, Bad) = 0
      BY <2>i, <2>5 DEF Weight
    <3>3. /\ SumIn(AllTokens, more, In) = SumIn(AllTokens, q, In)
          /\ SumIn(CostOf, more, In) = SumIn(CostOf, q, In)
          /\ SumIn(AllTokens, more, Bad) = SumIn(AllTokens, q, Bad)
      BY <2>3, <3>2
    <3> QED
      BY <2>2, <3>1, <3>3 DEF more
  <2> QED
    BY <2>4, <2>5
<1> HIDE DEF Holds
<1>3. <<>> \in T /\ \A q \in Seq(Event) : \A e \in Event : q \in T => Append(q, e) \in T
  BY <1>1, <1>2
<1> HIDE DEF T
<1>4. Seq(Event) \subseteq T
  BY <1>3, SequenceInduction
<1>5. Holds(es)
  BY <1>4 DEF T
<1> QED
  BY <1>5 DEF Holds

\* The sessions that are listed account for all tokens and their cost.
LEMMA SessionsAccount ==
  ASSUME NEW es \in Seq(Event)
  PROVE  LET stats == SessionStats(es)
         IN  /\ SumFunction([s \in DOMAIN stats |-> stats[s].cost]) = Sum(CostOf, es)
             /\ SumFunction([s \in DOMAIN stats |-> stats[s].spend]) = Sum(AllTokens, es)
<1> DEFINE stats == SessionStats(es)
           part == [s \in Session |-> InSession(s)]
           D == SessionsOf(es)
<1>1. DOMAIN stats = D
  BY DEF SessionStats
<1>2. D \in SUBSET Session
  BY SessionsOfLemma
<1>3. \A s \in D : stats[s].cost = SumIn(CostOf, es, part[s]) /\ stats[s].spend = SumIn(AllTokens, es, part[s])
  BY <1>2, StatsOfSession, StatTotals
<1>4. \A w \in [Event -> Nat] : \A s \in Session \ D : SumIn(w, es, part[s]) = 0
  BY OfAbsentSession
<1>5. Partition(part, Session, Event)
  BY BySessions
<1> HIDE DEF stats, part, D
<1>6. ASSUME NEW w \in [Event -> Nat]
      PROVE  SumFunction([s \in D |-> SumIn(w, es, part[s])]) = Sum(w, es)
  <2>1. \A s \in Session \ D : SumIn(w, es, part[s]) = 0
    BY <1>4
  <2>2. IsFiniteSet(Session)
    BY FiniteAssumption
  <2> QED
    BY <1>2, <1>5, <2>1, <2>2, SumOfSomeParts
<1>7. [s \in DOMAIN stats |-> stats[s].cost] = [s \in D |-> SumIn(CostOf, es, part[s])]
  BY <1>1, <1>3
<1>8. [s \in DOMAIN stats |-> stats[s].spend] = [s \in D |-> SumIn(AllTokens, es, part[s])]
  BY <1>1, <1>3
<1>9. AllTokens \in [Event -> Nat] /\ CostOf \in [Event -> Nat]
  BY WeightsTyped
<1>10. /\ SumFunction([s \in DOMAIN stats |-> stats[s].cost]) = Sum(CostOf, es)
       /\ SumFunction([s \in DOMAIN stats |-> stats[s].spend]) = Sum(AllTokens, es)
  BY <1>6, <1>7, <1>8, <1>9
<1> QED
  BY <1>10 DEF stats

\* Projects.
LEMMA ProjectsAccount ==
  ASSUME NEW es \in Seq(Event)
  PROVE  LET projects == PayloadProjects(es)
         IN  /\ SumFunction([p \in DOMAIN projects |-> projects[p].spend]) = Sum(AllTokens, es)
             /\ \A p \in DOMAIN projects :
                  Cardinality(SessionsOf(LoadEvents(es, 0, {p}))) = projects[p].sessions
<1> DEFINE projects == PayloadProjects(es)
           part == [p \in Project |-> InProject(p)]
           D == {p \in Project : Keep(es, InProject(p)) # <<>>}
<1>1. /\ DOMAIN projects = D
      /\ \A p \in D : /\ projects[p].spend = Sum(AllTokens, Keep(es, InProject(p)))
                      /\ projects[p].sessions = Cardinality(SessionsOf(Keep(es, InProject(p))))
  BY DEF PayloadProjects, InProject
<1>w. AllTokens \in [Event -> Nat]
  BY WeightsTyped
<1>2. ASSUME NEW p PROVE Sum(AllTokens, Keep(es, InProject(p))) = SumIn(AllTokens, es, InProject(p))
  <2>1. Keep(es, InProject(p)) \in Seq(Event)
    BY KeepLemma
  <2>2. Sum(AllTokens, Keep(es, InProject(p))) = SumIn(AllTokens, Keep(es, InProject(p)), Event)
    BY <2>1, SumIsSumIn
  <2>3. SumIn(AllTokens, Keep(es, InProject(p)), Event) = SumIn(AllTokens, es, InProject(p) \cap Event)
    BY <1>w, SumOfKept
  <2>4. InProject(p) \cap Event = InProject(p)
    BY DEF InProject
  <2> QED
    BY <2>2, <2>3, <2>4
<1>3. \A p \in Project \ D : SumIn(AllTokens, es, part[p]) = 0
  <2> SUFFICES ASSUME NEW p \in Project \ D PROVE SumIn(AllTokens, es, InProject(p)) = 0
    OBVIOUS
  <2>1. Keep(es, InProject(p)) = <<>> /\ <<>> \in Seq(Event)
    OBVIOUS
  <2>2. Sum(AllTokens, <<>>) = SumIn(AllTokens, <<>>, Event) /\ SumIn(AllTokens, <<>>, Event) = 0
    BY <1>w, <2>1, SumIsSumIn, SumInLemma
  <2> QED
    BY <1>2, <2>1, <2>2
<1>4. Partition(part, Project, Event) /\ IsFiniteSet(Project) /\ D \in SUBSET Project
  BY ByProjects, FiniteAssumption
<1>5. \A p \in D : projects[p].spend = SumIn(AllTokens, es, part[p])
  BY <1>1, <1>2
<1>6. ASSUME NEW p \in D PROVE LoadEvents(es, 0, {p}) = Keep(es, InProject(p))
  <2>1. Since(0, {p}) = InProject(p)
    BY EventTyped, TimeAssumption DEF Since, InProject, Time
  <2> QED
    BY <2>1 DEF LoadEvents
<1>7. \A p \in DOMAIN projects : Cardinality(SessionsOf(LoadEvents(es, 0, {p}))) = projects[p].sessions
  BY <1>1, <1>6
<1> HIDE DEF projects, part, D
<1>8. [p \in DOMAIN projects |-> projects[p].spend] = [p \in D |-> SumIn(AllTokens, es, part[p])]
  BY <1>1, <1>5
<1>9. SumFunction([p \in D |-> SumIn(AllTokens, es, part[p])]) = Sum(AllTokens, es)
  BY <1>w, <1>3, <1>4, SumOfSomeParts
<1> QED
  BY <1>7, <1>8, <1>9 DEF projects

-----------------------------------------------------------------------------
(* Tools. *)

\* An order in which every part of a set has a first.
HasFirsts(S, order) == \A T \in SUBSET S : T # {} => \E x \in T : \A y \in T : <<y, x>> \notin order

\* What is listed is in the set.
LEMMA TopOfIsOf ==
  ASSUME NEW S, IsFiniteSet(S), NEW n \in Nat, NEW order, HasFirsts(S, order)
  PROVE  \A i \in DOMAIN TopOf(S, n, order) : TopOf(S, n, order)[i] \in S
<1> DEFINE c == Cardinality(S)
           First(T) == CHOOSE x \in T : \A y \in T : <<y, x>> \notin order
           F(f) == [i \in 0..c |-> IF i = 0 THEN S ELSE f[i - 1] \ {First(f[i - 1])}]
           left == CHOOSE f : f = F(f)
           k == Min({n, c})
           step == [i \in 1..c |-> [T \in SUBSET S |-> T \ {First(T)}]]
<1>0. c \in Nat
  BY FS_CardinalityType
<1>1. TopOf(S, n, order) = [i \in 1..k |-> First(left[i - 1])]
  BY DEF TopOf
<1>2. k \in Nat /\ k <= c
  BY <1>0, MinOfTwo
<1>3. \A T \in SUBSET S : T # {} => First(T) \in T
  BY DEF HasFirsts
<1> HIDE DEF c, First, k
<1>4. step \in [1..c -> [SUBSET S -> SUBSET S]] /\ S \in SUBSET S
  OBVIOUS
<1>5. \A i \in 1..c, T \in SUBSET S : step[i][T] = T \ {First(T)}
  OBVIOUS
<1> HIDE DEF step
<1>6. PICK g \in [0..c -> SUBSET S] : TakesSteps(g, c, S, step)
  <2> DEFINE A == SUBSET S
  <2>1. S \in A /\ IsStep(step, c, A)
    BY <1>4 DEF IsStep
  <2> HIDE DEF A
  <2>2. \E g \in [0..c -> A] : TakesSteps(g, c, S, step)
    BY <1>0, <2>1, FoldLemma
  <2> QED
    BY <2>2 DEF A
<1>7. g = F(g)
  <2>1. \A i \in 0..c : g[i] = IF i = 0 THEN S ELSE g[i - 1] \ {First(g[i - 1])}
    <3> SUFFICES ASSUME NEW i \in 0..c PROVE g[i] = IF i = 0 THEN S ELSE g[i - 1] \ {First(g[i - 1])}
      OBVIOUS
    <3>1. CASE i = 0
      BY <1>6, <3>1 DEF TakesSteps
    <3>2. CASE i # 0
      <4>1. i - 1 \in 0..(c - 1) /\ (i - 1) + 1 = i /\ i \in 1..c /\ i - 1 \in 0..c
        BY <1>0, <3>2
      <4>2. g[i] = step[i][g[i - 1]]
        BY <1>6, <4>1 DEF TakesSteps
      <4>3. g[i - 1] \in SUBSET S
        BY <4>1
      <4>4. step[i][g[i - 1]] = g[i - 1] \ {First(g[i - 1])}
        BY <1>5, <4>1, <4>3
      <4> QED
        BY <3>2, <4>2, <4>4
    <3> QED
      BY <3>1, <3>2
  <2>2. g = [i \in 0..c |-> g[i]]
    OBVIOUS
  <2> QED
    BY <2>1, <2>2
<1>8. left = F(left)
  <2> HIDE DEF F
  <2> QED
    BY <1>7
<1>9. \A i \in 0..c : left[i] = IF i = 0 THEN S ELSE left[i - 1] \ {First(left[i - 1])}
  <2> HIDE DEF left
  <2> QED
    BY <1>8
<1> HIDE DEF left, F
\* Each takes one away.
<1> DEFINE R == {i \in Nat : i <= c => left[i] \in SUBSET S /\ Cardinality(left[i]) = c - i}
<1>10. 0 \in R
  <2>1. left[0] = S
    <3>1. 0 \in 0..c
      BY <1>0
    <3> QED
      BY <1>9, <3>1
  <2>2. c - 0 = c /\ Cardinality(S) = c
    BY <1>0 DEF c
  <2> QED
    BY <2>1, <2>2
<1>11. ASSUME NEW i \in Nat, i \in R PROVE i + 1 \in R
  <2> SUFFICES ASSUME i + 1 <= c PROVE left[i + 1] \in SUBSET S /\ Cardinality(left[i + 1]) = c - (i + 1)
    OBVIOUS
  <2>1. left[i] \in SUBSET S /\ Cardinality(left[i]) = c - i
    BY <1>0, <1>11
  <2>2. left[i + 1] = left[i] \ {First(left[i])}
    <3>1. i + 1 \in 0..c /\ i + 1 # 0 /\ (i + 1) - 1 = i
      BY <1>0
    <3> QED
      BY <1>9, <3>1
  <2>3. left[i] # {}
    <3>1. Cardinality(left[i]) # 0
      BY <1>0, <2>1
    <3> QED
      BY <3>1, FS_EmptySet
  <2>4. First(left[i]) \in left[i]
    BY <1>3, <2>1, <2>3
  <2>5. IsFiniteSet(left[i])
    BY <2>1, FS_Subset
  <2>6. Cardinality(left[i] \ {First(left[i])}) = Cardinality(left[i]) - 1
    BY <2>4, <2>5, FS_RemoveElement
  <2> QED
    BY <1>0, <2>1, <2>2, <2>6
<1> HIDE DEF R
<1>12. Nat \subseteq R
  BY <1>10, <1>11, Induction
<1>13. ASSUME NEW i \in 1..k PROVE First(left[i - 1]) \in S
  <2>1. i - 1 \in Nat /\ i - 1 <= c /\ c - (i - 1) # 0
    BY <1>0, <1>2
  <2>2. left[i - 1] \in SUBSET S /\ Cardinality(left[i - 1]) = c - (i - 1)
    BY <1>12, <2>1 DEF R
  <2>3. left[i - 1] # {}
    BY <2>1, <2>2, FS_EmptySet
  <2> QED
    BY <1>3, <2>2, <2>3
<1> QED
  BY <1>1, <1>13

\* Numbers order a finite set so.
LEMMA FirstsByNumber ==
  ASSUME NEW S, IsFiniteSet(S), NEW h \in [S -> Nat], NEW order,
         \A x, y \in S : <<y, x>> \in order => h[y] > h[x]
  PROVE  HasFirsts(S, order)
<1> DEFINE Has(T) == T # {} => \E x \in T : \A y \in T : h[y] <= h[x]
           All == {T \in SUBSET S : Has(T)}
<1>1. {} \in All
  OBVIOUS
<1>2. ASSUME NEW T \in SUBSET S, NEW z \in S \ T, T \in All PROVE T \cup {z} \in All
  <2>1. CASE T = {}
    BY <2>1
  <2>2. CASE T # {}
    <3>1. PICK x \in T : \A y \in T : h[y] <= h[x]
      BY <1>2, <2>2
    <3>2. h[x] \in Nat /\ h[z] \in Nat /\ \A y \in T : h[y] \in Nat
      OBVIOUS
    <3>3. CASE h[z] <= h[x]
      <4>1. \A y \in T \cup {z} : h[y] <= h[x]
        BY <3>1, <3>3
      <4> QED
        BY <4>1
    <3>4. CASE ~(h[z] <= h[x])
      <4>1. \A y \in T \cup {z} : h[y] <= h[z]
        BY <3>1, <3>2, <3>4
      <4> QED
        BY <4>1
    <3> QED
      BY <3>3, <3>4
  <2> QED
    BY <2>1, <2>2
<1> HIDE DEF All
<1>3. SUBSET S \subseteq All
  BY <1>1, <1>2, FiniteInduction
<1>4. ASSUME NEW T \in SUBSET S, T # {} PROVE \E x \in T : \A y \in T : <<y, x>> \notin order
  <2>1. PICK x \in T : \A y \in T : h[y] <= h[x]
    BY <1>3, <1>4 DEF All
  <2>2. \A y \in T : <<y, x>> \notin order
    <3> SUFFICES ASSUME NEW y \in T, <<y, x>> \in order PROVE FALSE
      OBVIOUS
    <3>1. h[y] > h[x] /\ h[y] <= h[x] /\ h[y] \in Nat /\ h[x] \in Nat
      BY <2>1
    <3> QED
      BY <3>1
  <2> QED
    BY <2>2
<1> QED
  BY <1>4 DEF HasFirsts

\* The statistics of the tools, as a set.
Using(es, t) == Keep(es, {e \in Event : t \in e.turn.tools})
ToolStat(es, t) ==
  [tool |-> t, turns |-> Len(Using(es, t)), errorTurns |-> Len(Keep(Using(es, t), Failing)),
   retryTokens |-> Sum(AllTokens, Keep(Using(es, t), Failing))]

\* Every row of the list is a tool's.
LEMMA ToolStatsListed ==
  ASSUME NEW es \in Seq(Event)
  PROVE  \A st \in ToSet(ToolStats(es)) : \E t \in Tool : st = ToolStat(es, t)
<1> DEFINE used == {t \in Tool : Using(es, t) # <<>>}
           h == [t \in Tool |-> ToolStat(es, t)]
           S == {h[t] : t \in used}
           order == {p \in S \X S : p[1].turns > p[2].turns}
<1>1. ToolStats(es) = TopOf(S, TopToolN, order)
  <2>1. S = {ToolStat(es, t) : t \in used}
    OBVIOUS
  <2> DEFINE R == {ToolStat(es, t) : t \in used}
  <2>2. ToolStats(es) = TopOf(R, TopToolN, {p \in R \X R : p[1].turns > p[2].turns})
    BY DEF ToolStats, Using, ToolStat, Failing
  <2> QED
    BY <2>1, <2>2
<1>2. IsFiniteSet(used)
  <2>1. used \in SUBSET Tool
    OBVIOUS
  <2> HIDE DEF used
  <2> QED
    BY <2>1, FiniteAssumption, FS_Subset
<1>3. \A t \in used : t \in Tool /\ h[t] = ToolStat(es, t)
  OBVIOUS
<1> HIDE DEF used, h
<1>4. IsFiniteSet(S)
  BY <1>2, FiniteImage
<1>5. \A st \in S : \E t \in Tool : st = ToolStat(es, t)
  BY <1>3
<1>6. \A st \in S : st.turns \in Nat
  <2>1. \A t \in Tool : ToolStat(es, t).turns \in Nat
    <3> SUFFICES ASSUME NEW t \in Tool PROVE Len(Using(es, t)) \in Nat
      BY DEF ToolStat
    <3>1. Using(es, t) \in Seq(Event)
      BY KeepLemma DEF Using
    <3> QED
      BY <3>1
  <2> QED
    BY <1>5, <2>1
<1>7. HasFirsts(S, order)
  <2> DEFINE turns == [st \in S |-> st.turns]
  <2> HIDE DEF S
  <2>1. turns \in [S -> Nat]
    BY <1>6
  <2>2. \A x, y \in S : <<y, x>> \in order => turns[y] > turns[x]
    OBVIOUS
  <2> HIDE DEF order, turns
  <2> QED
    BY <1>4, <2>1, <2>2, FirstsByNumber
<1> HIDE DEF S, order
<1>8. \A i \in DOMAIN TopOf(S, TopToolN, order) : TopOf(S, TopToolN, order)[i] \in S
  <2>1. TopToolN \in Nat
    BY TopAssumption
  <2> QED
    BY <1>4, <1>7, <2>1, TopOfIsOf
<1> QED
  BY <1>1, <1>5, <1>8 DEF ToSet

\* A tool's retries cost at most what the sessions that have failed have cost.
LEMMA RetriesOfTools ==
  ASSUME NEW es \in Seq(Event), NEW t \in Tool
  PROVE  LET stats == SessionStats(es)
         IN  ToolStat(es, t).retryTokens <=
             SumFunction([s \in {r \in DOMAIN stats : stats[r].errorTurns > 0} |-> stats[s].spend])
<1> DEFINE stats == SessionStats(es)
           D == {r \in DOMAIN stats : stats[r].errorTurns > 0}
           Of == {e \in Event : t \in e.turn.tools}
           bad == [s \in Session |-> FailingIn(s)]
           v == [s \in D |-> SumIn(AllTokens, es, bad[s])]
           u == [s \in D |-> stats[s].spend]
           w == [s \in Session |-> SumIn(AllTokens, es, bad[s])]
<1>w. AllTokens \in [Event -> Nat]
  BY WeightsTyped
<1>n. \A U : SumIn(AllTokens, es, U) \in Nat
  BY <1>w, SumInLemma
<1>1. ToolStat(es, t).retryTokens <= SumIn(AllTokens, es, Failing)
  <2>1. Keep(Using(es, t), Failing) = Keep(es, Of \cap Failing)
    BY KeptOfKept DEF Using
  <2>2. Keep(es, Of \cap Failing) \in Seq(Event)
    BY KeepLemma
  <2> HIDE DEF Of
  <2>3. Sum(AllTokens, Keep(es, Of \cap Failing)) = SumIn(AllTokens, Keep(es, Of \cap Failing), Event)
    BY <2>2, SumIsSumIn
  <2>4. SumIn(AllTokens, Keep(es, Of \cap Failing), Event) = SumIn(AllTokens, es, (Of \cap Failing) \cap Event)
    BY <1>w, SumOfKept
  <2>5. \A e \in Event : AllTokens[e] <= AllTokens[e]
    BY <1>w
  <2>6. SumIn(AllTokens, es, (Of \cap Failing) \cap Event) <= SumIn(AllTokens, es, Failing)
    BY <1>w, <2>5, SumOfLess
  <2>7. ToolStat(es, t).retryTokens = Sum(AllTokens, Keep(Using(es, t), Failing))
    BY DEF ToolStat
  <2> QED
    BY <2>1, <2>3, <2>4, <2>6, <2>7
<1>2. DOMAIN stats = SessionsOf(es) /\ SessionsOf(es) \subseteq Session
  BY SessionsOfLemma DEF SessionStats
<1>3. D \in SUBSET Session
  BY <1>2
<1>4. ASSUME NEW s \in SessionsOf(es)
      PROVE  /\ stats[s].spend = SumIn(AllTokens, es, InSession(s))
             /\ stats[s].errorTurns \in Nat
             /\ stats[s].errorTurns = 0 => SumIn(AllTokens, es, FailingIn(s)) = 0
  <2>0. s \in Session
    BY <1>2
  <2>1. /\ stats[s].spend = BuildStat(OfSession(es, s)).spend
        /\ stats[s].errorTurns = BuildStat(OfSession(es, s)).errorTurns
    BY StatsOfSession
  <2>2. BuildStat(OfSession(es, s)).errorTurns \in Nat
    BY <2>0, SessionsAgree DEF Stat
  <2> QED
    BY <2>0, <2>1, <2>2, StatTotals
<1>5. ASSUME NEW s PROVE SumIn(AllTokens, es, FailingIn(s)) <= SumIn(AllTokens, es, InSession(s))
  <2>1. \A e \in Event : e \in FailingIn(s) => e \in InSession(s) /\ AllTokens[e] <= AllTokens[e]
    BY <1>w DEF FailingIn
  <2> QED
    BY <1>w, <2>1, SumOfLess
<1>6. IsWeight(v, D) /\ IsWeight(w, Session)
  <2> HIDE DEF D
  <2> QED
    BY <1>n DEF IsWeight
<1>7. IsWeight(u, D) /\ \A s \in D : v[s] <= u[s]
  <2>1. \A s \in D : s \in SessionsOf(es) /\ s \in Session
    BY <1>2
  <2>2. \A s \in D : stats[s].spend = SumIn(AllTokens, es, InSession(s)) /\ v[s] = SumIn(AllTokens, es, FailingIn(s))
    BY <1>4, <2>1
  <2> HIDE DEF D, stats
  <2>3. \A s \in D : u[s] = SumIn(AllTokens, es, InSession(s)) /\ v[s] = SumIn(AllTokens, es, FailingIn(s))
    BY <2>2
  <2>4. IsWeight(u, D)
    BY <1>n, <2>2 DEF IsWeight
  <2> HIDE DEF u, v
  <2> QED
    BY <1>5, <2>3, <2>4
<1>8. (\A s \in D : v[s] = w[s]) /\ \A s \in Session \ D : w[s] = 0
  <2>1. ASSUME NEW s \in Session \ D PROVE SumIn(AllTokens, es, FailingIn(s)) = 0
    <3>1. CASE s \in SessionsOf(es)
      <4>1. ~(stats[s].errorTurns > 0) /\ stats[s].errorTurns \in Nat
        BY <1>2, <1>4, <3>1
      <4>2. stats[s].errorTurns = 0
        <5> HIDE DEF stats
        <5> QED
          BY <4>1
      <4> QED
        BY <1>4, <3>1, <4>2
    <3>2. CASE s \notin SessionsOf(es)
      <4>1. SumIn(AllTokens, es, InSession(s)) = 0
        BY <1>w, <3>2, OfAbsentSession
      <4>2. SumIn(AllTokens, es, FailingIn(s)) <= 0 /\ SumIn(AllTokens, es, FailingIn(s)) \in Nat
        BY <1>n, <1>5, <4>1
      <4> QED
        BY <4>2
    <3> QED
      BY <3>1, <3>2
  <2> HIDE DEF D, stats
  <2> QED
    BY <1>3, <2>1
<1>9. Partition(bad, Session, Failing)
  BY EventTyped DEF Partition, FailingIn, Failing, InSession
<1>10. PartSums(AllTokens, es, bad, Session) = SumIn(AllTokens, es, Failing)
  <2> HIDE DEF bad
  <2> QED
    BY <1>w, <1>9, FiniteAssumption, SumOverPartition
<1>11. SumFunction(w) = SumIn(AllTokens, es, Failing)
  BY <1>10 DEF PartSums
<1>u. u = [s \in {r \in DOMAIN SessionStats(es) : SessionStats(es)[r].errorTurns > 0} |-> SessionStats(es)[s].spend]
  OBVIOUS
<1> HIDE DEF stats, D, bad, v, w, u
<1>12. IsFiniteSet(D)
  BY <1>3, FiniteAssumption, FS_Subset
<1>13. SumFunction(w) = SumFunction(v)
  BY <1>3, <1>6, <1>8, FiniteAssumption, SumOfPart
<1>14. SumFunction(v) <= SumFunction(u)
  BY <1>6, <1>7, <1>12, SumGrows
<1>15. ToolStat(es, t).retryTokens <= SumFunction(u)
  <2>1. SumFunction(v) \in Nat /\ SumFunction(u) \in Nat
    BY <1>6, <1>7, <1>12, SumIsNatural
  <2>2. ToolStat(es, t).retryTokens \in Nat
    <3>1. ToolStat(es, t).retryTokens = Sum(AllTokens, Keep(Using(es, t), Failing))
      BY DEF ToolStat
    <3>2. Keep(Using(es, t), Failing) \in Seq(Event)
      BY KeepLemma DEF Using
    <3> QED
      BY <1>w, <3>1, <3>2, SumIsSumIn, SumInLemma
  <2> QED
    BY <1>1, <1>11, <1>13, <1>14, <2>1, <2>2
<1> QED
  BY <1>15, <1>u

\* However Compute, buildStats and the payload split up the tokens and their cost,
\* the parts account for the whole, and no tool is charged with more retries than
\* the sessions that have failed have spent.
THEOREM EveryTokenIsAccountedForHolds == StoreSpec => []EveryTokenIsAccountedFor
<1>1. ASSUME NEW es \in Seq(Event)
      PROVE  LET m == Compute(es)
             IN  /\ m.spend = Sum(SpendOf, es) /\ m.cost = Sum(CostOf, es)
                 /\ Accounts(m.byActivity, es) /\ Accounts(m.byModel, es)
  BY EngineAccounts, TotalsOfCompute, ComputeFields
<1>2. EventsOK => EveryTokenIsAccountedFor
  <2> SUFFICES ASSUME EventsOK PROVE EveryTokenIsAccountedFor
    OBVIOUS
  <2>1. events \in Seq(Event)
    BY DEF EventsOK
  <2> DEFINE m == Compute(events)
             stats == SessionStats(events)
             projects == PayloadProjects(events)
  <2>2. /\ m.spend = Sum(SpendOf, events) /\ m.cost = Sum(CostOf, events)
        /\ Accounts(m.byActivity, events) /\ Accounts(m.byModel, events)
    BY <1>1, <2>1
  <2>3. /\ SumFunction([s \in DOMAIN stats |-> stats[s].cost]) = Sum(CostOf, events)
        /\ SumFunction([s \in DOMAIN stats |-> stats[s].spend]) = Sum(AllTokens, events)
    BY <2>1, SessionsAccount
  <2>4. /\ SumFunction([p \in DOMAIN projects |-> projects[p].spend]) = Sum(AllTokens, events)
        /\ \A p \in DOMAIN projects :
             Cardinality(SessionsOf(LoadEvents(events, 0, {p}))) = projects[p].sessions
    BY <2>1, ProjectsAccount
  <2>5. \A t \in ToSet(ToolStats(events)) :
           t.retryTokens <= SumFunction([s \in {r \in DOMAIN stats : stats[r].errorTurns > 0} |->
                                           stats[s].spend])
    BY <2>1, ToolStatsListed, RetriesOfTools
  <2> HIDE DEF m, stats, projects
  <2>6. /\ SumFunction([x \in DOMAIN m.byActivity |-> m.byActivity[x].tokens]) = m.spend
        /\ SumFunction([x \in DOMAIN m.byActivity |-> m.byActivity[x].cost]) = m.cost
        /\ SumFunction([x \in DOMAIN m.byModel |-> m.byModel[x].tokens]) = m.spend
        /\ SumFunction([x \in DOMAIN m.byModel |-> m.byModel[x].cost]) = m.cost
    BY <2>2 DEF Accounts
  <2> QED
    BY <2>2, <2>3, <2>4, <2>5, <2>6 DEF EveryTokenIsAccountedFor, m, stats, projects
<1> QED
  BY <1>2, EventsInvariant, PTL

-----------------------------------------------------------------------------
(* Recommendations. *)

\* Whole parts of a total.
LEMMA PartsOfTotal ==
  ASSUME NEW total \in Nat, NEW x \in Nat, NEW y \in Nat \ {0}, x <= y
  PROVE  (total * x) \div y \in 0..total
<1> DEFINE a == total * x
           q == a \div y
<1>1. a \in Nat /\ a <= total * y
  <2>1. \A b, c, d \in Nat : b <= c => d * b \in Nat /\ d * b <= d * c
    OBVIOUS
  <2> QED
    BY <2>1
<1> HIDE DEF a
<1>2. q \in Nat /\ y * q <= a
  BY <1>1
<1> HIDE DEF q
<1>3. y * q <= total * y
  <2>1. total * y \in Nat /\ y * q \in Nat
    BY <1>2
  <2> QED
    BY <1>1, <1>2, <2>1
<1>4. q <= total
  <2>1. \A b, c \in Nat, d \in Nat \ {0} : d * b <= c * d => b <= c
    OBVIOUS
  <2> QED
    BY <1>2, <1>3, <2>1
<1> QED
  BY <1>2, <1>4 DEF q, a

\* A hundredth of a number, in whole units, as the code finds it.
LEMMA HundredthOf ==
  ASSUME NEW s \in Nat \ {0}, NEW x \in Nat
  PROVE  LET q == (s * x) \div (100 * s)
         IN  q \in Nat /\ 100 * q <= x /\ x < 100 * q + 100
<1> DEFINE a == s * x
           b == 100 * s
           q == a \div b
<1>1. a \in Nat /\ b \in Nat \ {0}
  <2>1. \A c, d \in Nat : c * d \in Nat
    OBVIOUS
  <2> QED
    BY <2>1
<1>2. q \in Nat /\ b * q <= a /\ a < b * q + b
  <2> HIDE DEF a, b
  <2> QED
    BY <1>1
<1> HIDE DEF q
<1>3. b * q = s * (100 * q) /\ b * q + b = s * (100 * q + 100)
  BY <1>2
<1>4. s * (100 * q) <= s * x /\ s * x < s * (100 * q + 100)
  BY <1>2, <1>3
<1>5. \A c, d \in Nat : /\ s * c <= s * d => c <= d
                        /\ s * c < s * d => c < d
  OBVIOUS
<1> QED
  BY <1>2, <1>4, <1>5 DEF q, a, b

\* No goal is a finding.
LEMMA GoalsResolve == \A k \in Finding : ~IsActive(k, GoalValue(k))
<1>1. CostLimit \in Nat
  BY CostLimitAssumption
<1> QED
  BY <1>1 DEF Finding, IsActive, GoalValue, Goal, Limit, Exceeds, IsBelow

\* And every goal is better than what is found, by more than nothing.
LEMMA GoalsAreBetter ==
  ASSUME NEW k \in Finding, NEW v \in Ratio, IsActive(k, v)
  PROVE  /\ IsBetter(k, v, GoalValue(k))
         /\ IF k = "cache-miss" THEN 100 * v.n < Goal[k] * v.d ELSE Goal[k] * v.d < 100 * v.n
<1>1. v.n \in Nat /\ v.d \in Nat \ {0}
  BY DEF Ratio
<1>2. GoalValue(k).n = Goal[k] /\ GoalValue(k).d = 100
  BY DEF GoalValue
<1>3. CASE k = "cache-miss"
  <2>1. Goal[k] = 60 /\ Limit[k] = 40
    BY <1>3 DEF Goal, Limit, Finding
  <2>2. v.n * 100 < 40 * v.d
    BY <1>3, <2>1 DEF IsActive, IsBelow
  <2>3. 100 * v.n < 60 * v.d /\ 60 * v.d > v.n * 100
    BY <1>1, <2>2
  <2> QED
    BY <1>2, <1>3, <2>1, <2>3 DEF IsBetter
<1>4. CASE k # "cache-miss"
  <2>1. Goal[k] \in Nat /\ Limit[k] \in Nat /\ Goal[k] <= Limit[k]
    BY <1>4, CostLimitAssumption DEF Goal, Limit, Finding
  <2>2. v.n * 100 > Limit[k] * v.d
    BY <1>4 DEF IsActive, Exceeds
  <2>3. Goal[k] * v.d < v.n * 100
    <3>1. \A a, b, c \in Nat : a <= b => a * c \in Nat /\ b * c \in Nat /\ a * c <= b * c
      OBVIOUS
    <3>2. /\ Goal[k] * v.d \in Nat /\ Limit[k] * v.d \in Nat
          /\ Goal[k] * v.d <= Limit[k] * v.d
      BY <1>1, <2>1, <3>1
    <3>3. v.n * 100 \in Nat
      BY <1>1
    <3> QED
      BY <2>2, <3>2, <3>3
  <2>4. v.n * 100 = 100 * v.n
    BY <1>1
  <2> QED
    BY <1>2, <1>4, <2>3, <2>4 DEF IsBetter
<1> QED
  BY <1>3, <1>4

\* What the recommendations need to know of the metrics.
AddUp(m) ==
  /\ m.spend \in Nat /\ m.input \in Nat /\ m.cost \in Nat
  /\ m.retry \in Nat /\ m.retry <= m.spend
  /\ m.cold \in Nat /\ m.cold <= m.input /\ m.input <= m.spend
  /\ \A k \in Finding : MetricValue(k, m) \in Ratio
  /\ m.reworkRatio = SafeDiv(m.retry, m.spend)
  /\ m.coldRestartShare = SafeDiv(m.cold, m.input)
  /\ \A x \in Model : m.byModel[x].tokens \in Nat
  /\ SumFunction([x \in Model |-> m.byModel[x].tokens]) = m.spend
  /\ SumFunction([x \in Model |-> m.byModel[x].cost]) = m.cost

\* The engine gives it.
LEMMA MetricsAddUp ==
  ASSUME NEW es \in Seq(Event)
  PROVE  AddUp(Compute(es))
<1> DEFINE m == Compute(es)
<1>1. /\ m.spend \in Nat /\ m.input \in Nat /\ m.cost \in Nat
      /\ m.retry \in Nat /\ m.retry <= m.spend
      /\ m.cold \in Nat /\ m.cold <= m.input /\ m.input <= m.spend
      /\ m.spend = Sum(SpendOf, es)
  BY TotalsOfCompute
<1>2. m.cost = Sum(CostOf, es) /\ m.byModel = ByModel(es)
  BY ComputeFields
<1>3. m.reworkRatio = SafeDiv(m.retry, m.spend) /\ m.coldRestartShare = SafeDiv(m.cold, m.input)
  BY ComputeRatios
<1>4. ASSUME NEW k \in Finding PROVE MetricValue(k, m) \in Ratio
  <2>1. CASE k = "high-cost"
    <3>1. MetricValue(k, m) = [n |-> m.cost, d |-> 1]
      BY <2>1 DEF MetricValue
    <3> HIDE DEF m
    <3> QED
      BY <1>1, <3>1 DEF Ratio
  <2>2. CASE k = "think-overcode"
    BY <2>2, RatiosOfCompute DEF MetricValue
  <2>3. CASE k \notin {"high-cost", "think-overcode"}
    BY <2>3, MetricValues DEF TrendKey
  <2> QED
    BY <2>1, <2>2, <2>3
<1>5. ASSUME NEW x \in Model PROVE ByModel(es)[x].tokens \in Nat
  <2>1. ByModel(es)[x].tokens = SumIn(SpendOf, es, WithModel(x))
    BY DEF ByModel, Breakdown
  <2>2. ASSUME NEW w \in [Event -> Nat] PROVE SumIn(w, es, WithModel(x)) \in Nat
    BY SumInLemma
  <2> QED
    BY <2>1, <2>2, WeightsTyped
<1>6. DOMAIN ByModel(es) = Model
  BY DEF ByModel
<1>7. /\ SumFunction([x \in Model |-> ByModel(es)[x].tokens]) = Sum(SpendOf, es)
      /\ SumFunction([x \in Model |-> ByModel(es)[x].cost]) = Sum(CostOf, es)
  BY <1>6, EngineAccounts DEF Accounts
<1> HIDE DEF m
<1>8. AddUp(m)
  BY <1>1, <1>2, <1>3, <1>4, <1>5, <1>7 DEF AddUp
<1> QED
  BY <1>8 DEF m

\* Up to a goal, from a share of at most the whole.
LEMMA ExcessIsPart ==
  ASSUME NEW total \in Nat, NEW v \in Ratio, v.n <= v.d, NEW goal \in Nat, goal * v.d < 100 * v.n
  PROVE  Excess(total, v, goal) \in 0..total
<1> DEFINE x == 100 * v.n - goal * v.d
           y == 100 * v.d
<1>1. v.n \in Nat /\ v.d \in Nat \ {0}
  BY DEF Ratio
<1>2. goal * v.d \in Nat
  <2>1. \A a, b \in Nat : a * b \in Nat
    OBVIOUS
  <2> QED
    BY <1>1, <2>1
<1>3. x \in Nat /\ y \in Nat \ {0} /\ x <= y
  <2> DEFINE g == goal * v.d
  <2>1. g \in Nat /\ g < 100 * v.n
    BY <1>2
  <2> HIDE DEF g
  <2>2. 100 * v.n - g \in Nat /\ 100 * v.n - g <= y /\ y \in Nat \ {0}
    BY <1>1, <2>1
  <2> QED
    BY <2>2 DEF g
<1>4. Excess(total, v, goal) = (total * x) \div y
  BY DEF Excess
<1> HIDE DEF x, y
<1> QED
  BY <1>3, <1>4, PartsOfTotal

\* What is avoidable of a finding is a part of what was spent.
LEMMA AvoidableIsPart ==
  ASSUME NEW m, AddUp(m), NEW k \in ActiveFindings(m), k \notin {"premium-waste", "high-cost"}
  PROVE  Avoidable(k, m) \in 0..m.spend
<1> DEFINE v == MetricValue(k, m)
<1>1. /\ m.spend \in Nat /\ m.input \in Nat
      /\ m.retry \in Nat /\ m.retry <= m.spend
      /\ m.cold \in Nat /\ m.cold <= m.input /\ m.input <= m.spend
      /\ m.reworkRatio = SafeDiv(m.retry, m.spend)
      /\ m.coldRestartShare = SafeDiv(m.cold, m.input)
  BY DEF AddUp
<1>2. k \in Finding /\ IsActive(k, v) /\ v \in Ratio
  BY DEF ActiveFindings, AddUp
<1>3. IF k = "cache-miss" THEN 100 * v.n < Goal[k] * v.d ELSE Goal[k] * v.d < 100 * v.n
  BY <1>2, GoalsAreBetter
<1>4. v.n \in Nat /\ v.d \in Nat \ {0}
  BY <1>2 DEF Ratio
<1>5. ASSUME NEW a \in Nat PROVE a \div 10 \in 0..a /\ a \div 20 \in 0..a /\ a \div 2 \in 0..a
  BY <1>5
<1>6. CASE k = "cache-miss"
  <2> DEFINE x == 60 * v.d - 100 * v.n
             y == 100 * v.d
  <2>1. Goal[k] = 60 /\ v = m.cacheHitRatio
    BY <1>2, <1>6 DEF Goal, MetricValue
  <2>2. Avoidable(k, m) = (m.spend * x) \div y
    BY <1>6, <2>1 DEF Avoidable
  <2> HIDE DEF v
  <2>3. x \in Nat /\ y \in Nat \ {0} /\ x <= y
    BY <1>3, <1>4, <1>6, <2>1
  <2> HIDE DEF x, y
  <2> QED
    BY <1>1, <2>2, <2>3, PartsOfTotal
<1>7. CASE k = "rework"
  <2>1. Goal[k] = 10 /\ v = m.reworkRatio
    BY <1>2, <1>7 DEF Goal, MetricValue
  <2>2. Avoidable(k, m) = Excess(m.spend, v, 10)
    BY <1>7, <2>1 DEF Avoidable
  <2>3. v.n <= v.d
    <3>1. v = SafeDiv(m.retry, m.spend)
      BY <1>1, <2>1
    <3> HIDE DEF v
    <3> QED
      BY <1>1, <3>1 DEF SafeDiv
  <2>4. 10 * v.d < 100 * v.n
    BY <1>3, <1>7, <2>1
  <2> HIDE DEF v
  <2> QED
    BY <1>1, <1>2, <2>2, <2>3, <2>4, ExcessIsPart
<1>8. CASE k = "cold-restart"
  <2> DEFINE x == 100 * v.n - 5 * v.d
             y == 100 * v.n
  <2>1. Goal[k] = 5 /\ v = m.coldRestartShare
    BY <1>2, <1>8 DEF Goal, MetricValue
  <2>2. Avoidable(k, m) = (m.cold * x) \div y
    BY <1>8, <2>1 DEF Avoidable
  <2> HIDE DEF v
  <2>3. x \in Nat /\ y \in Nat \ {0} /\ x <= y
    BY <1>3, <1>4, <1>8, <2>1
  <2> HIDE DEF x, y
  <2>4. (m.cold * x) \div y \in 0..m.cold
    BY <1>1, <2>3, PartsOfTotal
  <2> DEFINE q == (m.cold * x) \div y
  <2>5. q \in 0..m.cold
    BY <2>4
  <2> HIDE DEF q
  <2>6. q \in 0..m.spend
    BY <1>1, <2>5
  <2> QED
    BY <2>2, <2>6 DEF q
<1>9. CASE k \in {"bloat", "think-overcode"}
  BY <1>1, <1>5, <1>9 DEF Avoidable
<1>10. CASE k = "retry-loop"
  <2>1. Avoidable(k, m) = m.retry \div 2
    BY <1>10 DEF Avoidable
  <2>2. m.retry \div 2 \in 0..m.retry
    BY <1>1, <1>5
  <2> DEFINE q == m.retry \div 2
  <2>3. q \in 0..m.retry
    BY <2>2
  <2> HIDE DEF q
  <2>4. q \in 0..m.spend
    BY <1>1, <2>3
  <2> QED
    BY <2>1, <2>4 DEF q
<1> QED
  BY <1>2, <1>6, <1>7, <1>8, <1>9, <1>10 DEF Finding

\* The rate is that of the window, when halving loses no token.
LEMMA RateOfWindow ==
  ASSUME NEW m, AddUp(m), \A x \in Model : m.byModel[x].tokens % 2 = 0
  PROVE  BlendedRate(m) = SafeDiv(m.cost, m.spend)
<1> DEFINE halves == [x \in Model |-> 2 * (m.byModel[x].tokens \div 2)]
           tokens == [x \in Model |-> m.byModel[x].tokens]
<1>1. ASSUME NEW a \in Nat, a % 2 = 0 PROVE 2 * (a \div 2) = a
  BY <1>1
<1>2. \A x \in Model : halves[x] = tokens[x]
  BY <1>1 DEF AddUp
<1>3. halves = tokens
  BY <1>2
<1>4. SumFunction(tokens) = m.spend
  BY DEF AddUp
<1>5. SumFunction([x \in Model |-> m.byModel[x].cost]) = m.cost
  BY DEF AddUp
<1>6. BlendedRate(m) = SafeDiv(SumFunction([x \in Model |-> m.byModel[x].cost]), SumFunction(halves))
  BY DEF BlendedRate
<1> HIDE DEF halves, tokens
<1> QED
  BY <1>3, <1>4, <1>5, <1>6

\* So what is saved in a month is at most what the month costs.
LEMMA SavingsOfPart ==
  ASSUME NEW m, AddUp(m), \A x \in Model : m.byModel[x].tokens % 2 = 0,
         NEW k, k # "high-cost", Avoidable(k, m) \in 0..m.spend, NEW days \in Nat \ {0}
  PROVE  SavingsUsd(k, m, days).n * days <= 30 * m.cost * SavingsUsd(k, m, days).d
<1> DEFINE rate == SafeDiv(m.cost, m.spend)
           a == Avoidable(k, m)
           spend == m.spend
           cost == m.cost
<1>1. SavingsUsd(k, m, days) = [n |-> a * rate.n * 30, d |-> rate.d * days]
  <2>1. BlendedRate(m) = rate
    BY RateOfWindow
  <2> HIDE DEF rate, a
  <2>2. days # 0
    OBVIOUS
  <2> QED
    BY <2>1, <2>2 DEF SavingsUsd, a
<1>2. a \in Nat /\ a <= spend /\ spend \in Nat /\ cost \in Nat
  <2>1. spend \in Nat /\ cost \in Nat
    BY DEF AddUp
  <2> QED
    BY <2>1
<1>3. rate = IF spend = 0 THEN [n |-> 0, d |-> 1] ELSE [n |-> cost, d |-> spend]
  BY DEF SafeDiv
<1> HIDE DEF rate, a, spend, cost
<1>4. \A b, c, d \in Nat : b <= c => b * d \in Nat /\ c * d \in Nat /\ b * d <= c * d
  OBVIOUS
<1>5. (a * rate.n * 30) * days <= 30 * cost * (rate.d * days)
  <2>1. CASE spend = 0
    <3>1. rate.n = 0 /\ rate.d = 1
      BY <1>3, <2>1
    <3>2. a * 0 * 30 * days = 0
      BY <1>2
    <3>3. 30 * cost * (1 * days) \in Nat
      <4>1. 30 * cost \in Nat /\ 1 * days \in Nat
        BY <1>2
      <4> QED
        BY <1>4, <4>1
    <3> QED
      BY <3>1, <3>2, <3>3
  <2>2. CASE spend # 0
    <3>1. rate.n = cost /\ rate.d = spend
      BY <1>3, <2>2
    <3> DEFINE f == 30 * (cost * days)
    <3>2. f \in Nat
      <4>1. cost * days \in Nat
        BY <1>2, <1>4
      <4> QED
        BY <4>1
    <3>3. (a * cost * 30) * days = a * f
      BY <1>2
    <3>4. 30 * cost * (spend * days) = spend * f
      BY <1>2
    <3>5. a * f <= spend * f
      <4> HIDE DEF f
      <4> QED
        BY <1>2, <1>4, <3>2
    <3> HIDE DEF f
    <3> QED
      BY <3>1, <3>3, <3>4, <3>5
  <2> QED
    BY <2>1, <2>2
<1> QED
  BY <1>1, <1>5 DEF cost

\* Where the goal is a share of tokens, what is not avoided is that share.
LEMMA RestIsGoal ==
  ASSUME NEW part \in Nat, NEW total \in Nat, NEW goal \in Nat, NEW s \in Nat \ {0},
         goal * total < 100 * part
  PROVE  LET q == (s * (100 * part - goal * total)) \div (100 * s)
             rest == 100 * (part - q) - goal * total
         IN  0 <= rest /\ rest < 100
<1> DEFINE g == goal * total
           x == 100 * part - g
           q == (s * x) \div (100 * s)
<1>1. g \in Nat
  <2>1. \A a, b \in Nat : a * b \in Nat
    OBVIOUS
  <2> QED
    BY <2>1
<1>2. g < 100 * part
  OBVIOUS
<1> HIDE DEF g
<1>3. x \in Nat
  BY <1>1, <1>2
<1> HIDE DEF x
<1>4. q \in Nat /\ 100 * q <= x /\ x < 100 * q + 100
  BY <1>3, HundredthOf
<1> HIDE DEF q
<1>5. 0 <= 100 * (part - q) - g /\ 100 * (part - q) - g < 100
  BY <1>1, <1>4 DEF x
<1> QED
  BY <1>5 DEF q, x, g

\* That is so of rework and of cold restarts.
LEMMA RestOfRecommendation ==
  ASSUME NEW m, AddUp(m), NEW k \in ActiveFindings(m)
  PROVE  /\ k = "rework" =>
              LET rest == 100 * (m.retry - Avoidable(k, m)) - Goal[k] * m.spend
              IN  0 <= rest /\ rest < 100
         /\ k = "cold-restart" =>
              LET rest == 100 * (m.cold - Avoidable(k, m)) - Goal[k] * m.input
              IN  0 <= rest /\ rest < 100
<1> DEFINE v == MetricValue(k, m)
<1>1. /\ m.spend \in Nat /\ m.input \in Nat /\ m.retry \in Nat /\ m.cold \in Nat
      /\ m.reworkRatio = SafeDiv(m.retry, m.spend)
      /\ m.coldRestartShare = SafeDiv(m.cold, m.input)
  BY DEF AddUp
<1>2. k \in Finding /\ IsActive(k, v) /\ v \in Ratio
  BY DEF ActiveFindings, AddUp
<1>3. k # "cache-miss" => Goal[k] * v.d < 100 * v.n
  BY <1>2, GoalsAreBetter
<1>4. ASSUME k = "rework"
      PROVE  LET rest == 100 * (m.retry - Avoidable(k, m)) - Goal[k] * m.spend
             IN  0 <= rest /\ rest < 100
  <2>1. Goal[k] = 10 /\ v = SafeDiv(m.retry, m.spend)
    BY <1>1, <1>2, <1>4 DEF Goal, MetricValue
  <2>2. 10 * v.d < 100 * v.n
    BY <1>3, <1>4, <2>1
  <2>3. m.spend # 0
    <3> SUFFICES ASSUME m.spend = 0 PROVE FALSE
      OBVIOUS
    <3>1. v.n = 0 /\ v.d = 1
      BY <2>1 DEF SafeDiv
    <3> HIDE DEF v
    <3> QED
      BY <2>2, <3>1
  <2>4. v = [n |-> m.retry, d |-> m.spend]
    BY <2>1, <2>3 DEF SafeDiv
  <2>5. Avoidable(k, m) = (m.spend * (100 * m.retry - 10 * m.spend)) \div (100 * m.spend)
    <3>1. Avoidable(k, m) = Excess(m.spend, v, 10)
      BY <1>4, <2>1 DEF Avoidable, MetricValue
    <3> HIDE DEF v
    <3> QED
      BY <2>4, <3>1 DEF Excess
  <2>6. 10 * m.spend < 100 * m.retry
    BY <2>2, <2>4
  <2> HIDE DEF v
  <2> QED
    BY <1>1, <2>1, <2>3, <2>5, <2>6, RestIsGoal
<1>5. ASSUME k = "cold-restart"
      PROVE  LET rest == 100 * (m.cold - Avoidable(k, m)) - Goal[k] * m.input
             IN  0 <= rest /\ rest < 100
  <2>1. Goal[k] = 5 /\ v = SafeDiv(m.cold, m.input)
    BY <1>1, <1>2, <1>5 DEF Goal, MetricValue
  <2>2. 5 * v.d < 100 * v.n
    BY <1>3, <1>5, <2>1
  <2>3. m.input # 0 /\ v = [n |-> m.cold, d |-> m.input]
    <3>1. CASE m.input = 0
      <4>1. v.n = 0 /\ v.d = 1
        BY <2>1, <3>1 DEF SafeDiv
      <4> HIDE DEF v
      <4> QED
        BY <2>2, <4>1
    <3>2. CASE m.input # 0
      BY <2>1, <3>2 DEF SafeDiv
    <3> QED
      BY <3>1, <3>2
  <2>4. m.cold # 0 /\ 5 * m.input < 100 * m.cold
    <3>1. 5 * m.input < 100 * m.cold
      BY <2>2, <2>3
    <3> QED
      BY <1>1, <3>1
  <2>5. Avoidable(k, m) = (m.cold * (100 * m.cold - 5 * m.input)) \div (100 * m.cold)
    <3>1. m.coldRestartShare = v
      BY <1>1, <2>1
    <3>2. Avoidable(k, m) = (m.cold * (100 * v.n - 5 * v.d)) \div (100 * v.n)
      BY <1>5, <2>1, <3>1 DEF Avoidable
    <3> HIDE DEF v
    <3> QED
      BY <2>3, <3>2
  <2> HIDE DEF v
  <2> QED
    BY <1>1, <2>1, <2>4, <2>5, RestIsGoal
<1> QED
  BY <1>4, <1>5

\* Each recommendation of Enrich makes sense, in every window: its goal resolves
\* the finding and is better than what is measured, what is avoidable was spent,
\* what is saved costs no more than the month, and the rest is the goal, to the token.
THEOREM RecommendationsAddUpHolds == StoreSpec => []RecommendationsAddUp
<1>1. ASSUME EventsOK, NEW cutoff \in Time
      PROVE  LET m == Compute(LoadEvents(events, cutoff, Project))
                 total == [k \in {"rework", "cold-restart"} |-> IF k = "rework" THEN m.spend ELSE m.input]
                 part == [k \in {"rework", "cold-restart"} |-> IF k = "rework" THEN m.retry ELSE m.cold]
                 halved == \A x \in Model : m.byModel[x].tokens % 2 = 0
             IN  \A k \in ActiveFindings(m), days \in {1, 30} :
                   LET savings == SavingsUsd(k, m, days)
                   IN  /\ ~IsActive(k, GoalValue(k))
                       /\ IsBetter(k, MetricValue(k, m), GoalValue(k))
                       /\ k \notin {"premium-waste", "high-cost"} =>
                            /\ Avoidable(k, m) \in 0..m.spend
                            /\ halved => savings.n * days <= 30 * m.cost * savings.d
                       /\ k \in DOMAIN total =>
                            LET rest == 100 * (part[k] - Avoidable(k, m)) - Goal[k] * total[k]
                            IN  0 <= rest /\ rest < 100
  <2> DEFINE m == Compute(LoadEvents(events, cutoff, Project))
             total == [k \in {"rework", "cold-restart"} |-> IF k = "rework" THEN m.spend ELSE m.input]
             part == [k \in {"rework", "cold-restart"} |-> IF k = "rework" THEN m.retry ELSE m.cold]
             halved == \A x \in Model : m.byModel[x].tokens % 2 = 0
  <2>1. AddUp(m)
    <3>1. LoadEvents(events, cutoff, Project) \in Seq(Event)
      BY <1>1, KeepLemma DEF EventsOK, LoadEvents
    <3> QED
      BY <3>1, MetricsAddUp
  <2> HIDE DEF m
  <2>2. ASSUME NEW k \in ActiveFindings(m), NEW days \in {1, 30}
        PROVE  /\ ~IsActive(k, GoalValue(k))
               /\ IsBetter(k, MetricValue(k, m), GoalValue(k))
               /\ k \notin {"premium-waste", "high-cost"} =>
                    /\ Avoidable(k, m) \in 0..m.spend
                    /\ halved => SavingsUsd(k, m, days).n * days <= 30 * m.cost * SavingsUsd(k, m, days).d
               /\ k \in DOMAIN total =>
                    LET rest == 100 * (part[k] - Avoidable(k, m)) - Goal[k] * total[k]
                    IN  0 <= rest /\ rest < 100
    <3>1. k \in Finding /\ IsActive(k, MetricValue(k, m)) /\ MetricValue(k, m) \in Ratio
      BY <2>1 DEF ActiveFindings, AddUp
    <3>2. ~IsActive(k, GoalValue(k))
      BY <3>1, GoalsResolve
    <3>3. IsBetter(k, MetricValue(k, m), GoalValue(k))
      BY <3>1, GoalsAreBetter
    <3>4. ASSUME k \notin {"premium-waste", "high-cost"} PROVE Avoidable(k, m) \in 0..m.spend
      BY <2>1, <3>4, AvoidableIsPart
    <3>5. ASSUME k \notin {"premium-waste", "high-cost"}, halved
          PROVE  SavingsUsd(k, m, days).n * days <= 30 * m.cost * SavingsUsd(k, m, days).d
      <4>1. days \in Nat \ {0} /\ k # "high-cost"
        BY <3>5
      <4> QED
        BY <2>1, <3>4, <3>5, <4>1, SavingsOfPart
    <3>6. ASSUME k \in DOMAIN total
          PROVE  LET rest == 100 * (part[k] - Avoidable(k, m)) - Goal[k] * total[k]
                 IN  0 <= rest /\ rest < 100
      <4>1. /\ DOMAIN total = {"rework", "cold-restart"}
            /\ total["rework"] = m.spend /\ total["cold-restart"] = m.input
            /\ part["rework"] = m.retry /\ part["cold-restart"] = m.cold
        OBVIOUS
      <4> HIDE DEF total, part
      <4>2. k = "rework" \/ k = "cold-restart"
        BY <3>6, <4>1
      <4>3. CASE k = "rework"
        <5>1. total[k] = m.spend /\ part[k] = m.retry
          BY <4>1, <4>3
        <5> QED
          BY <2>1, <4>3, <5>1, RestOfRecommendation
      <4>4. CASE k = "cold-restart"
        <5>1. total[k] = m.input /\ part[k] = m.cold
          BY <4>1, <4>4
        <5> QED
          BY <2>1, <4>4, <5>1, RestOfRecommendation
      <4> QED
        BY <4>2, <4>3, <4>4
    <3> HIDE DEF total, part, halved
    <3> QED
      BY <3>2, <3>3, <3>4, <3>5, <3>6
  <2> QED
    BY <2>2 DEF m
<1>2. EventsOK => RecommendationsAddUp
  BY <1>1 DEF RecommendationsAddUp
<1> QED
  BY <1>2, EventsInvariant, PTL

-----------------------------------------------------------------------------
(* Shares of a whole. *)

\* All ratios but the premium one are shares: between nothing and the whole.
SharesAreParts ==
  \A cutoff \in Time :
    LET m == Compute(LoadEvents(events, cutoff, Project))
    IN  \A r \in {m.cacheHitRatio, m.reworkRatio, m.retryShare, m.thinkToCodeRatio,
                  m.contextBloatShare, m.coldRestartShare} : r \in Ratio /\ r.n <= r.d

\* A part of a whole is at most all of it.
LEMMA PartsAreShares ==
  \A a, b \in Nat : a <= b => SafeDiv(a, b) \in Ratio /\ SafeDiv(a, b).n <= SafeDiv(a, b).d
BY DEF SafeDiv, Ratio

\* What the numerators count is among what the denominators count.
LEMMA SharesOfCompute ==
  ASSUME NEW es \in Seq(Event)
  PROVE  LET m == Compute(es)
         IN  \A r \in {m.cacheHitRatio, m.reworkRatio, m.retryShare, m.thinkToCodeRatio,
                       m.contextBloatShare, m.coldRestartShare} : r \in Ratio /\ r.n <= r.d
<1> DEFINE m == Compute(es)
           Share(r) == r \in Ratio /\ r.n <= r.d
<1>1. ASSUME NEW a \in Nat, NEW b \in Nat, a <= b PROVE Share(SafeDiv(a, b))
  BY <1>1, PartsAreShares
<1>2. /\ m.spend \in Nat /\ m.input \in Nat
      /\ m.retry \in Nat /\ m.retry <= m.spend /\ m.cold \in Nat /\ m.cold <= m.input
  BY TotalsOfCompute
<1>3. ASSUME NEW w \in [Event -> Nat]
      PROVE  Sum(w, es) \in Nat /\ \A S : SumIn(w, es, S) \in Nat
  BY <1>3, SumInLemma, SumIsSumIn
<1>4. Share(m.cacheHitRatio)
  <2> DEFINE read == Sum(CacheReadOf, es)
             creation == Sum(CacheCreationOf, es)
  <2>1. read \in Nat /\ creation \in Nat
    BY <1>3, WeightsTyped
  <2>2. m.cacheHitRatio = SafeDiv(read, m.input + read + creation)
    BY ComputeRatios
  <2> HIDE DEF m, read, creation, Share
  <2>3. m.input + read + creation \in Nat /\ read <= m.input + read + creation
    BY <1>2, <2>1
  <2> QED
    BY <1>1, <2>1, <2>2, <2>3
<1>5. Share(m.thinkToCodeRatio)
  <2> DEFINE thinking == SumIn(SpendOf, es, During("thinking"))
             coding == SumIn(SpendOf, es, During("coding"))
  <2>1. thinking \in Nat /\ coding \in Nat
    BY <1>3, WeightsTyped
  <2>2. ByActivity(es)["thinking"].tokens = thinking /\ ByActivity(es)["coding"].tokens = coding
    BY DEF ByActivity, Breakdown, Activity
  <2>3. m.thinkToCodeRatio = SafeDiv(thinking, thinking + coding)
    BY <2>2, ComputeRatios
  <2> HIDE DEF m, thinking, coding, Share
  <2>4. thinking + coding \in Nat /\ thinking <= thinking + coding
    BY <2>1
  <2> QED
    BY <1>1, <2>1, <2>3, <2>4
<1>6. Share(m.contextBloatShare)
  <2> DEFINE bloated == {s \in Session : IsBloated(Pass1(es)[s])}
             long == {s \in Session : IsLong(Pass1(es)[s])}
  <2>1. bloated \subseteq long /\ long \subseteq Session
    BY DEF IsBloated
  <2>2. m.bloated = Cardinality(bloated) /\ m.long = Cardinality(long)
    BY ComputeFields
  <2>3. m.contextBloatShare = SafeDiv(m.bloated, m.long)
    BY ComputeRatios
  <2> HIDE DEF m, bloated, long, Share
  <2>4. IsFiniteSet(long) /\ Cardinality(bloated) <= Cardinality(long) /\ IsFiniteSet(bloated)
    BY <2>1, FiniteAssumption, FS_Subset
  <2>5. Cardinality(bloated) \in Nat /\ Cardinality(long) \in Nat
    BY <2>4, FS_CardinalityType
  <2> QED
    BY <1>1, <2>2, <2>3, <2>4, <2>5
<1>7. /\ m.reworkRatio = SafeDiv(m.retry, m.spend) /\ m.retryShare = SafeDiv(m.retry, m.spend)
      /\ m.coldRestartShare = SafeDiv(m.cold, m.input)
  BY ComputeRatios
<1> HIDE DEF m, Share
<1>8. Share(m.reworkRatio) /\ Share(m.retryShare) /\ Share(m.coldRestartShare)
  BY <1>1, <1>2, <1>7
<1>9. \A r \in {m.cacheHitRatio, m.reworkRatio, m.retryShare, m.thinkToCodeRatio,
                m.contextBloatShare, m.coldRestartShare} : Share(r)
  BY <1>4, <1>5, <1>6, <1>8
<1> QED
  BY <1>9 DEF m, Share

\* What a report shows as a percentage is one, in every window, but for premium
\* waste, which can exceed the whole: it is counted once for every session.
THEOREM SharesArePartsHolds == StoreSpec => []SharesAreParts
<1>1. ASSUME EventsOK, NEW cutoff \in Time
      PROVE  LoadEvents(events, cutoff, Project) \in Seq(Event)
  BY <1>1, KeepLemma DEF EventsOK, LoadEvents
<1>2. EventsOK => SharesAreParts
  BY <1>1, SharesOfCompute DEF SharesAreParts
<1> QED
  BY <1>2, EventsInvariant, PTL

-----------------------------------------------------------------------------
(* The commands on that table. *)

\* The commands leave the table of events alone, and the collection beside them
\* stores turns in it as Analytics does: Reports implements Analytics.
THEOREM AnalyticsRefinement == Spec => StoreSpec
<1>1. Init => StoreInit
  BY DEF Init, StoreInit
<1>2. [Next]_vars => [StoreNext]_events
  <2> SUFFICES ASSUME [Next]_vars PROVE [StoreNext]_events
    OBVIOUS
  <2>1. ASSUME NEW s \in Session, NEW t \in Time, NEW turn \in Turn,
               Collect([session |-> s, ts |-> t, turn |-> turn])
        PROVE  StoreNext
    <3>1. Store([session |-> s, ts |-> t, turn |-> turn])
      BY <2>1 DEF Collect
    <3> QED
      BY <3>1 DEF StoreNext
  <2>2. ASSUME NEW p \in Proc, Command(p) PROVE UNCHANGED events
    BY <2>2 DEF Command, Measure, LoadRecords, UpsertRecords, Fail, Deliver
  <2>3. CASE UNCHANGED vars
    BY <2>3 DEF vars
  <2> QED
    BY <2>1, <2>2, <2>3 DEF Next
<1> QED
  BY <1>1, <1>2, PTL DEF Spec, StoreSpec

\* So whatever the commands measure, at any moment and beside each other, is of a
\* table of which all invariants of Analytics hold.
THEOREM ReportsAreSound ==
  Spec => [](/\ SessionsAreIndependent /\ EveryTokenIsAccountedFor /\ WindowsAreMonotone
             /\ MoversAddUp /\ AnalysesAgree /\ RecommendationsAddUp /\ ReportIsConsistent)
BY AnalyticsRefinement, SessionsAreIndependentHolds, EveryTokenIsAccountedForHolds,
   WindowsAreMonotoneHolds, MoversAddUpHolds, AnalysesAgreeHolds, RecommendationsAddUpHolds,
   ReportIsConsistentHolds, PTL
=============================================================================

------------------------- MODULE FollowThroughProofs -------------------------
(***************************************************************************)
(* Records stay coherent and are kept, for any metrics, thresholds, number *)
(* of processes and runs, although every sync works with records that may  *)
(* be out of date.  The invariant says of the records a process has loaded *)
(* what it says of the table (both were written by Sync), and that nothing *)
(* is stamped with a time that is still to be written.                     *)
(***************************************************************************)
EXTENDS FollowThrough, TLAPS

\* Every baseline in a table was measured while its finding was active.
ActiveBaselines(table) ==
  \A k \in Metric : \A r \in table[k] : Active(k, r.base)

\* No baseline in a table was taken by the command p is still running.
NotYetWritten(p, table) ==
  \A k \in Metric : \A r \in table[k] : r.baseAt # at[p]

Busy == {"measured", "loaded"}

IInv ==
  /\ TypeOK
  /\ RecordsAreCoherent
  /\ \A p \in Proc : ActiveBaselines(stored[p])
  /\ \A k \in Metric : \A r \in records[k] : r.baseAt <= runs
  /\ \A p \in Proc : \A k \in Metric : \A r \in stored[p][k] : r.baseAt <= runs
  /\ \A p \in Proc : at[p] <= runs
  /\ \A p \in Proc : pc[p] \in Busy =>
       /\ NotYetWritten(p, records)
       /\ \A q \in Proc : NotYetWritten(p, stored[q])
       /\ \A q \in Proc : q # p => at[q] # at[p]

\* A record that Sync makes is typed, and of the two values it says what it
\* should, provided the record it starts from has an active baseline that was
\* taken at another time.
LEMMA UpdatedLemma ==
  ASSUME NEW k \in Metric, NEW cur \in Level, NEW time \in Time,
         NEW existing \in SUBSET Record, Active(k, cur),
         \A r \in existing : Active(k, r.base) /\ r.baseAt # time
  PROVE  /\ Updated(k, cur, time, existing) \in Record
         /\ Coherent(k, Updated(k, cur, time, existing))
         /\ \/ Updated(k, cur, time, existing).baseAt = time
            \/ \E r \in existing : Updated(k, cur, time, existing).baseAt = r.baseAt
<1>1. CASE existing = {}
  BY <1>1 DEF Updated, Record, Status, Coherent
<1>2. CASE existing # {}
  <2> DEFINE e == CHOOSE r \in existing : TRUE
  <2>1. e \in existing
    BY <1>2
  <2>2. e \in Record /\ Active(k, e.base) /\ e.baseAt # time
    BY <2>1
  <2>3. Verdict(k, e, cur) = IF IsImproving(k, e.base, cur)
                             THEN "improving" ELSE "regressing"
    BY DEF Verdict, IsResolved
  <2>4. Updated(k, cur, time, existing) =
          [base |-> e.base, baseAt |-> e.baseAt, cur |-> cur, curAt |-> time,
           status |-> Verdict(k, e, cur)]
    BY <1>2 DEF Updated
  <2> HIDE DEF e
  <2>5. Updated(k, cur, time, existing) \in Record
    BY <2>2, <2>3, <2>4 DEF Record, Status
  <2>6. Coherent(k, Updated(k, cur, time, existing))
    BY <2>2, <2>3, <2>4 DEF Coherent
  <2> QED
    BY <2>1, <2>4, <2>5, <2>6
<1> QED
  BY <1>1, <1>2

\* What an upsert leaves in the table is an updated record or the old one.
LEMMA UpsertLemma ==
  ASSUME IInv, NEW p \in Proc, UpsertRecords(p), NEW k \in Metric
  PROVE  /\ records'[k] \subseteq Record
         /\ \A r \in records'[k] : Coherent(k, r)
         /\ \A r \in records'[k] :
              \/ r.baseAt = at[p]
              \/ \E q \in stored[p][k] : r.baseAt = q.baseAt
              \/ r \in records[k]
<1>1. /\ measured[p][k] \in Level /\ at[p] \in Time
      /\ stored[p][k] \in SUBSET Record /\ records[k] \subseteq Record
  BY DEF IInv, TypeOK, Table
<1>2. \A r \in stored[p][k] : Active(k, r.base) /\ r.baseAt # at[p]
  BY DEF IInv, ActiveBaselines, NotYetWritten, UpsertRecords, Busy
<1>3. \A r \in records[k] : Coherent(k, r)
  BY DEF IInv, RecordsAreCoherent
<1>4. records'[k] = IF Active(k, measured[p][k])
                    THEN {Updated(k, measured[p][k], at[p], stored[p][k])}
                    ELSE records[k]
  BY DEF UpsertRecords
<1>5. CASE Active(k, measured[p][k])
  BY <1>1, <1>2, <1>4, <1>5, UpdatedLemma
<1>6. CASE ~Active(k, measured[p][k])
  BY <1>1, <1>3, <1>4, <1>6
<1> QED
  BY <1>5, <1>6

\* The program starts in a state of the inductive invariant.
LEMMA InitInv == Init => IInv
<1> SUFFICES ASSUME Init PROVE IInv
  OBVIOUS
<1>1. TypeOK
  BY BoundAssumption DEF Init, TypeOK, NoRecords, Table, Level, Time
<1>2. \A k \in Metric : NoRecords[k] = {}
  BY DEF NoRecords
<1> QED
  BY <1>1, <1>2 DEF Init, IInv, RecordsAreCoherent, ActiveBaselines, Busy

\* A new command has a time of its own.
LEMMA MeasureStep ==
  ASSUME IInv, NEW p \in Proc, NEW m \in [Metric -> Level], Measure(p, m)
  PROVE  IInv'
<1> USE DEF IInv, Measure
<1>1. runs \in Nat /\ runs' = runs + 1 /\ runs' \in Time /\ at'[p] = runs + 1
  BY BoundAssumption DEF TypeOK, Time
<1>2. TypeOK'
  BY <1>1 DEF TypeOK
<1>3. \A q \in Proc : q # p => at'[q] = at[q] /\ pc'[q] = pc[q]
  BY DEF TypeOK
<1>4. /\ \A k \in Metric : \A r \in records[k] : r.baseAt \in Nat
      /\ \A q \in Proc : \A k \in Metric : \A r \in stored[q][k] : r.baseAt \in Nat
      /\ \A q \in Proc : at[q] \in Nat
  BY BoundAssumption DEF TypeOK, Table, Record, Time
<1>5. RecordsAreCoherent' /\ \A q \in Proc : ActiveBaselines(stored[q])'
  BY DEF RecordsAreCoherent, ActiveBaselines
<1>6. /\ \A k \in Metric : \A r \in records[k] : r.baseAt <= runs' /\ r.baseAt # runs'
      /\ \A q \in Proc : \A k \in Metric : \A r \in stored[q][k] :
           r.baseAt <= runs' /\ r.baseAt # runs'
      /\ \A q \in Proc : at[q] <= runs' /\ at[q] # runs'
  BY <1>1, <1>4
<1>7. \A q \in Proc : at'[q] <= runs'
  BY <1>1, <1>3, <1>6
<1>8. ASSUME NEW q \in Proc, pc'[q] \in Busy
      PROVE  /\ NotYetWritten(q, records)'
             /\ \A o \in Proc : NotYetWritten(q, stored[o])'
             /\ \A o \in Proc : o # q => at'[o] # at'[q]
  <2>1. CASE q = p
    BY <1>1, <1>3, <1>6, <2>1 DEF NotYetWritten
  <2>2. CASE q # p
    BY <1>1, <1>3, <1>6, <1>8, <2>2 DEF NotYetWritten
  <2> QED
    BY <2>1, <2>2
<1> QED
  BY <1>2, <1>5, <1>6, <1>7, <1>8

\* What a process loads is what the table holds.
LEMMA LoadStep ==
  ASSUME IInv, NEW p \in Proc, LoadRecords(p)
  PROVE  IInv'
<1> USE DEF IInv, LoadRecords
<1>1. TypeOK'
  BY DEF TypeOK
<1>2. \A q \in Proc : stored'[q] = IF q = p THEN records ELSE stored[q]
  BY DEF TypeOK
<1>3. \A q \in Proc : pc'[q] \in Busy => pc[q] \in Busy
  BY DEF TypeOK, Busy
<1>4. ActiveBaselines(records)
  BY DEF RecordsAreCoherent, Coherent, ActiveBaselines
<1>5. RecordsAreCoherent' /\ \A q \in Proc : ActiveBaselines(stored'[q])
  BY <1>2, <1>4 DEF RecordsAreCoherent, ActiveBaselines
<1>6. \A q \in Proc : \A k \in Metric : \A r \in stored'[q][k] : r.baseAt <= runs
  BY <1>2
<1>7. ASSUME NEW q \in Proc, pc'[q] \in Busy
      PROVE  /\ NotYetWritten(q, records)'
             /\ \A o \in Proc : NotYetWritten(q, stored[o])'
             /\ \A o \in Proc : o # q => at'[o] # at'[q]
  BY <1>2, <1>3, <1>7 DEF NotYetWritten
<1> QED
  BY <1>1, <1>5, <1>6, <1>7 DEF ActiveBaselines

\* An upsert stamps its baselines with the time of its own command, or keeps
\* the stamps it has loaded: none is that of a command still to write.
LEMMA UpsertStep ==
  ASSUME IInv, NEW p \in Proc, UpsertRecords(p)
  PROVE  IInv'
<1> USE DEF IInv
<1>1. /\ pc' = [pc EXCEPT ![p] = "ok"] /\ pc[p] = "loaded"
      /\ UNCHANGED <<measured, at, stored, runs>>
  BY DEF UpsertRecords
<1>2. records' \in Table
  <2>1. \A k \in Metric : records'[k] \in SUBSET Record
    BY UpsertLemma
  <2>2. records' = [k \in Metric |-> records'[k]]
    BY DEF UpsertRecords
  <2> QED
    BY <2>1, <2>2 DEF Table
<1>3. TypeOK'
  BY <1>1, <1>2 DEF TypeOK
<1>4. RecordsAreCoherent'
  BY UpsertLemma DEF RecordsAreCoherent, Coherent
<1>5. \A k \in Metric : \A r \in records'[k] : r.baseAt <= runs
  BY UpsertLemma
<1>6. \A q \in Proc : pc'[q] \in Busy => q # p /\ pc[q] \in Busy
  BY <1>1 DEF TypeOK, Busy
<1>7. ASSUME NEW q \in Proc, pc'[q] \in Busy PROVE NotYetWritten(q, records')
  <2>1. q # p /\ at[p] # at[q] /\ NotYetWritten(q, records) /\ NotYetWritten(q, stored[p])
    BY <1>6, <1>7
  <2> QED
    BY <2>1, UpsertLemma DEF NotYetWritten
<1>8. ASSUME NEW q \in Proc, pc'[q] \in Busy
      PROVE  /\ NotYetWritten(q, records)'
             /\ \A o \in Proc : NotYetWritten(q, stored[o])'
             /\ \A o \in Proc : o # q => at'[o] # at'[q]
  BY <1>1, <1>6, <1>7, <1>8 DEF NotYetWritten
<1> QED
  BY <1>1, <1>3, <1>4, <1>5, <1>8 DEF ActiveBaselines

\* A command that fails changes nothing.
LEMMA FailStep ==
  ASSUME IInv, NEW p \in Proc, Fail(p)
  PROVE  IInv'
<1> USE DEF IInv, Fail
<1>1. TypeOK'
  BY DEF TypeOK
<1>2. \A q \in Proc : pc'[q] \in Busy => pc[q] \in Busy
  BY DEF TypeOK, Busy
<1> QED
  BY <1>1, <1>2 DEF RecordsAreCoherent, ActiveBaselines, NotYetWritten

\* Every step keeps the inductive invariant.
LEMMA InvStep == IInv /\ [Next]_vars => IInv'
<1> SUFFICES ASSUME IInv, [Next]_vars PROVE IInv'
  OBVIOUS
<1>1. CASE UNCHANGED vars
  BY <1>1 DEF vars, IInv, TypeOK, RecordsAreCoherent, ActiveBaselines, NotYetWritten
<1>2. ASSUME NEW p \in Proc, Command(p) PROVE IInv'
  BY <1>2, MeasureStep, LoadStep, UpsertStep, FailStep DEF Command
<1> QED
  BY <1>1, <1>2 DEF Next

\* The inductive invariant holds in every reachable state.
LEMMA Inductive == Spec => []IInv
BY InitInv, InvStep, PTL DEF Spec

-----------------------------------------------------------------------------

\* Follow-through is type-correct.
THEOREM TypeCorrect == Spec => []TypeOK
<1>1. IInv => TypeOK
  BY DEF IInv
<1> QED
  BY <1>1, Inductive, PTL

\* Every record's status is the one its own two values deserve, and both were
\* measured while the finding was active, whatever commands have raced.
THEOREM RecordsAreCoherentHolds == Spec => []RecordsAreCoherent
<1>1. IInv => RecordsAreCoherent
  BY DEF IInv
<1> QED
  BY <1>1, Inductive, PTL

\* No sync removes a record, although it writes from a table it loaded earlier.
THEOREM RecordsAreKeptHolds == Spec => RecordsAreKept
<1>1. [Next]_vars =>
        [\A k \in Metric : records[k] # {} => records'[k] # {}]_vars
  <2> SUFFICES ASSUME [Next]_vars, NEW k \in Metric, records[k] # {}
               PROVE  records'[k] # {}
    OBVIOUS
  <2>1. CASE UNCHANGED records
    BY <2>1
  <2>2. ASSUME NEW p \in Proc, UpsertRecords(p) PROVE records'[k] # {}
    BY <2>2 DEF UpsertRecords
  <2> QED
    BY <2>1, <2>2 DEF Next, Command, Measure, LoadRecords, Fail, vars
<1> QED
  BY <1>1, PTL DEF Spec, RecordsAreKept

\* The table has one record of a metric at most, and so has what a process has
\* loaded of it.
AtMostOne(table) == \A k \in Metric : \A r, s \in table[k] : r = s

SingleInv == AtMostOne(records) /\ \A p \in Proc : AtMostOne(stored[p])

\* Sync writes one record for each metric, or leaves what is there.
LEMMA SingleStep == IInv /\ SingleInv /\ [Next]_vars => SingleInv'
<1> SUFFICES ASSUME IInv, SingleInv, [Next]_vars PROVE SingleInv'
  OBVIOUS
<1>1. CASE UNCHANGED <<records, stored>>
  BY <1>1 DEF SingleInv, AtMostOne
<1>2. ASSUME NEW p \in Proc, LoadRecords(p) PROVE SingleInv'
  <2>1. \A q \in Proc : stored'[q] = IF q = p THEN records ELSE stored[q]
    BY <1>2 DEF LoadRecords, IInv, TypeOK
  <2>2. records' = records
    BY <1>2 DEF LoadRecords
  <2> QED
    BY <2>1, <2>2 DEF SingleInv, AtMostOne
<1>3. ASSUME NEW p \in Proc, UpsertRecords(p) PROVE SingleInv'
  <2>1. ASSUME NEW k \in Metric PROVE \A r, s \in records'[k] : r = s
    BY <1>3 DEF UpsertRecords, SingleInv, AtMostOne
  <2>2. stored' = stored
    BY <1>3 DEF UpsertRecords
  <2> QED
    BY <2>1, <2>2 DEF SingleInv, AtMostOne
<1> QED
  BY <1>1, <1>2, <1>3 DEF Next, Command, Measure, Fail, vars

LEMMA Single == Spec => []SingleInv
<1>1. Init => SingleInv
  BY DEF Init, SingleInv, AtMostOne, NoRecords
<1> QED
  BY <1>1, SingleStep, Inductive, PTL DEF Spec

\* A sync that starts from a record keeps the baseline of one it starts from.
LEMMA UpdatedKeepsBaseline ==
  ASSUME NEW k, NEW cur, NEW time, NEW existing, existing # {}
  PROVE  \E r \in existing : /\ Updated(k, cur, time, existing).base = r.base
                             /\ Updated(k, cur, time, existing).baseAt = r.baseAt
<1> DEFINE e == CHOOSE r \in existing : TRUE
<1>1. e \in existing
  OBVIOUS
<1>2. Updated(k, cur, time, existing) =
        [base |-> e.base, baseAt |-> e.baseAt, cur |-> cur, curAt |-> time,
         status |-> Verdict(k, e, cur)]
  BY DEF Updated
<1> HIDE DEF e
<1> QED
  BY <1>1, <1>2

\* An upsert leaves the baseline of a settled record alone.
LEMMA UpsertKeepsBaseline ==
  ASSUME SingleInv, NEW p \in Proc, UpsertRecords(p),
         NEW k \in Metric, Settled(k)
  PROVE  records'[k] # {} /\ Baselines(records', k) = Baselines(records, k)
<1>1. PICK r \in records[k] : TRUE
  BY DEF Settled
<1>2. records[k] = {r}
  BY <1>1 DEF SingleInv, AtMostOne
<1>3. Baselines(records, k) = {[base |-> r.base, at |-> r.baseAt]}
  BY <1>2 DEF Baselines
<1>4. Baselines(stored[p], k) = Baselines(records, k)
  BY DEF Settled, UpsertRecords
<1>5. stored[p][k] # {}
  BY <1>3, <1>4 DEF Baselines
<1>6. \A s \in stored[p][k] : s.base = r.base /\ s.baseAt = r.baseAt
  <2> TAKE s \in stored[p][k]
  <2>1. [base |-> s.base, at |-> s.baseAt] \in Baselines(stored[p], k)
    BY DEF Baselines
  <2>2. [base |-> s.base, at |-> s.baseAt] = [base |-> r.base, at |-> r.baseAt]
    BY <1>3, <1>4, <2>1
  <2> QED
    BY <2>2
<1>7. CASE Active(k, measured[p][k])
  <2> DEFINE u == Updated(k, measured[p][k], at[p], stored[p][k])
  <2>1. records'[k] = {u}
    BY <1>7 DEF UpsertRecords
  <2>2. u.base = r.base /\ u.baseAt = r.baseAt
    <3>1. \E s \in stored[p][k] : u.base = s.base /\ u.baseAt = s.baseAt
      BY <1>5, UpdatedKeepsBaseline
    <3> QED
      BY <1>6, <3>1
  <2> HIDE DEF u
  <2> QED
    BY <1>3, <2>1, <2>2 DEF Baselines
<1>8. CASE ~Active(k, measured[p][k])
  <2>1. records'[k] = records[k]
    BY <1>8 DEF UpsertRecords
  <2> QED
    BY <1>2, <2>1 DEF Baselines
<1> QED
  BY <1>7, <1>8

\* Once no command is about to write from another baseline, the baseline of a
\* finding is never replaced again, whoever measures, loads, writes or fails.
THEOREM SettledBaselineIsKeptHolds == Spec => SettledBaselineIsKept
<1>1. IInv /\ SingleInv /\ [Next]_vars =>
        [\A k \in Metric : Settled(k) =>
           /\ Settled(k)'
           /\ Baselines(records, k)' = Baselines(records, k)]_vars
  <2> SUFFICES ASSUME IInv, SingleInv, Next, NEW k \in Metric, Settled(k)
               PROVE  Settled(k)' /\ Baselines(records, k)' = Baselines(records, k)
    BY DEF vars
  <2>1. PICK p \in Proc : Command(p)
    BY DEF Next
  <2>2. ASSUME NEW m \in [Metric -> Level], Measure(p, m)
        PROVE  Settled(k)' /\ Baselines(records, k)' = Baselines(records, k)
    <3>1. \A q \in Proc : pc'[q] = "loaded" => pc[q] = "loaded"
      BY <2>2 DEF Measure, IInv, TypeOK
    <3> QED
      BY <2>2, <3>1 DEF Measure, Settled, Baselines
  <2>3. CASE LoadRecords(p)
    <3>1. \A q \in Proc : q # p /\ pc'[q] = "loaded" => pc[q] = "loaded"
      BY <2>3 DEF LoadRecords, IInv, TypeOK
    <3>2. \A q \in Proc : stored'[q] = IF q = p THEN records ELSE stored[q]
      BY <2>3 DEF LoadRecords, IInv, TypeOK
    <3>3. records' = records
      BY <2>3 DEF LoadRecords
    <3>4. \A q \in Proc : pc'[q] = "loaded" =>
            Baselines(stored'[q], k) = Baselines(records, k)
      BY <3>1, <3>2 DEF Settled
    <3> QED
      BY <3>3, <3>4 DEF Settled, Baselines
  <2>4. CASE UpsertRecords(p)
    <3>1. records'[k] # {} /\ Baselines(records', k) = Baselines(records, k)
      BY <2>4, UpsertKeepsBaseline
    <3>2. stored' = stored /\ \A q \in Proc : pc'[q] = "loaded" => pc[q] = "loaded"
      BY <2>4 DEF UpsertRecords, IInv, TypeOK
    <3>3. \A q \in Proc : pc'[q] = "loaded" =>
            Baselines(stored'[q], k) = Baselines(records', k)
      BY <3>1, <3>2 DEF Settled
    <3> QED
      BY <3>1, <3>3 DEF Settled, Baselines
  <2>5. CASE Fail(p)
    <3>1. \A q \in Proc : pc'[q] = "loaded" => pc[q] = "loaded"
      BY <2>5 DEF Fail, IInv, TypeOK
    <3> QED
      BY <2>5, <3>1 DEF Fail, Settled, Baselines
  <2> QED
    BY <2>1, <2>2, <2>3, <2>4, <2>5 DEF Command
<1> QED
  BY <1>1, Inductive, Single, PTL DEF Spec, SettledBaselineIsKept
=============================================================================

---------------------------- MODULE FollowThrough ----------------------------
(***************************************************************************)
(* Following findings through.  Every `report` and every `push` computes   *)
(* the metrics of its window, and then FollowThroughService.Sync updates   *)
(* the recommendations table: a finding that is active for the first time  *)
(* gets a baseline, one that has a record is compared with its baseline.   *)
(*                                                                         *)
(* Sync reads the table in one statement and writes it in a transaction of *)
(* its own, so that what it compares with may be out of date when it       *)
(* writes: nothing stops two commands from running at the same time (a     *)
(* push from a cron job, a report in a terminal).                          *)
(*                                                                         *)
(* A metric is an integer.  The metrics a command sees are any at all: its *)
(* window, its filters and what was collected meanwhile decide them.  The  *)
(* place of a command in the order in which the commands loaded their      *)
(* events stands for the time its values are stamped with.                 *)
(***************************************************************************)
EXTENDS Integers

CONSTANTS
  Metric,          \* the findings' metric keys
  HigherIsBetter,  \* those whose value should rise (cache-miss: the hit ratio)
  Threshold,       \* the level beyond which a metric's finding is active
  Proc,            \* the processes that run report or push
  MaxLevel,        \* bound: the levels of a metric
  MaxRuns          \* bound: how many commands are run

Level == 0..MaxLevel
Time == 0..MaxRuns

ASSUME ThresholdAssumption == Threshold \in [Metric -> Int]
ASSUME BoundAssumption == MaxLevel \in Nat /\ MaxRuns \in Nat

VARIABLES
  records,   \* the recommendations table: a set of records for each metric,
             \*   empty or a singleton (metric_key is the primary key)
  pc,        \* where each process is
  measured,  \* the metrics each process has computed
  at,        \* when it loaded the events they are computed from
  stored,    \* the records it has loaded
  runs       \* how many commands have been run

vars == <<records, pc, measured, at, stored, runs>>

Status == {"improving", "regressing", "resolved"}

\* FollowThroughRecord, with the times its two values were measured at.
Record == [base : Level, baseAt : Time, cur : Level, curAt : Time, status : Status]
Table == [Metric -> SUBSET Record]

NoRecords == [k \in Metric |-> {}]

TypeOK ==
  /\ records \in Table
  /\ pc \in [Proc -> {"idle", "measured", "loaded", "ok", "failed"}]
  /\ measured \in [Proc -> [Metric -> Level]]
  /\ at \in [Proc -> Time]
  /\ stored \in [Proc -> Table]
  /\ runs \in Time

Init ==
  /\ records = NoRecords
  /\ pc = [p \in Proc |-> "idle"]
  /\ measured = [p \in Proc |-> [k \in Metric |-> 0]]
  /\ at = [p \in Proc |-> 0]
  /\ stored = [p \in Proc |-> NoRecords]
  /\ runs = 0

-----------------------------------------------------------------------------

\* A finding's predicate: its metric is beyond the threshold.
Active(k, v) == IF k \in HigherIsBetter THEN v < Threshold[k] ELSE v > Threshold[k]

IsImproving(k, baseline, cur) ==
  IF k \in HigherIsBetter THEN cur > baseline ELSE cur < baseline

IsResolved(k, cur) == ~Active(k, cur)

\* Mutant of Verdict: the comparison is with the last value, not the baseline.
VerdictSinceLast(k, e, cur) ==
  IF IsResolved(k, cur) THEN "resolved"
  ELSE IF IsImproving(k, e.cur, cur) THEN "improving" ELSE "regressing"

\* The status of a finding with the record e whose metric is now cur.
Verdict(k, e, cur) ==
  IF IsResolved(k, cur) THEN "resolved"
  ELSE IF IsImproving(k, e.base, cur) THEN "improving" ELSE "regressing"

\* Mutant of Updated: every sync takes a new baseline.
Rebased(k, cur, time, existing) ==
  [base |-> cur, baseAt |-> time, cur |-> cur, curAt |-> time, status |-> "improving"]

\* The record Sync makes of a finding and of the records it has loaded for it.
Updated(k, cur, time, existing) ==
  IF existing = {}
  THEN [base |-> cur, baseAt |-> time, cur |-> cur, curAt |-> time,
        status |-> "improving"]
  ELSE LET e == CHOOSE r \in existing : TRUE
       IN  [base |-> e.base, baseAt |-> e.baseAt, cur |-> cur, curAt |-> time,
            status |-> Verdict(k, e, cur)]

\* The command loads its events and computes the metrics.
Measure(p, m) ==
  /\ pc[p] \in {"idle", "ok", "failed"}
  /\ runs < MaxRuns
  /\ runs' = runs + 1
  /\ measured' = [measured EXCEPT ![p] = m]
  /\ at' = [at EXCEPT ![p] = runs + 1]
  /\ pc' = [pc EXCEPT ![p] = "measured"]
  /\ UNCHANGED <<records, stored>>

\* Sync loads the records.
LoadRecords(p) ==
  /\ pc[p] = "measured"
  /\ stored' = [stored EXCEPT ![p] = records]
  /\ pc' = [pc EXCEPT ![p] = "loaded"]
  /\ UNCHANGED <<records, measured, at, runs>>

\* Mutant of UpsertRecords: the whole table is written back as it was loaded.
OverwriteRecords(p) ==
  /\ pc[p] = "loaded"
  /\ records' = [k \in Metric |->
                   IF Active(k, measured[p][k])
                   THEN {Updated(k, measured[p][k], at[p], stored[p][k])}
                   ELSE stored[p][k]]
  /\ pc' = [pc EXCEPT ![p] = "ok"]
  /\ UNCHANGED <<measured, at, stored, runs>>

\* Sync replaces the record of every active finding, in one transaction: none
\* if no finding is active.
UpsertRecords(p) ==
  /\ pc[p] = "loaded"
  /\ records' = [k \in Metric |->
                   IF Active(k, measured[p][k])
                   THEN {Updated(k, measured[p][k], at[p], stored[p][k])}
                   ELSE records[k]]
  /\ pc' = [pc EXCEPT ![p] = "ok"]
  /\ UNCHANGED <<measured, at, stored, runs>>

\* The process is killed, or the database is busy: the transaction is undone.
Fail(p) ==
  /\ pc[p] \in {"measured", "loaded"}
  /\ pc' = [pc EXCEPT ![p] = "failed"]
  /\ UNCHANGED <<records, measured, at, stored, runs>>

Command(p) ==
  \/ \E m \in [Metric -> Level] : Measure(p, m)
  \/ LoadRecords(p)
  \/ UpsertRecords(p)
  \/ Fail(p)

Next == \E p \in Proc : Command(p)

Spec == Init /\ [][Next]_vars

-----------------------------------------------------------------------------

\* A record says what it should of its own two values, however many commands
\* have overwritten each other: both were measured with the finding active, and
\* the verdict is the one they deserve (a baseline that has only just been taken
\* counts as improving).  A verdict never stays behind with another's values.
Coherent(k, r) ==
  /\ Active(k, r.cur) /\ Active(k, r.base)
  /\ r.status = IF r.baseAt = r.curAt \/ IsImproving(k, r.base, r.cur)
                THEN "improving" ELSE "regressing"

RecordsAreCoherent == \A k \in Metric : \A r \in records[k] : Coherent(k, r)

\* A finding that has been recorded stays on record.
RecordsAreKept == [][\A k \in Metric : records[k] # {} => records'[k] # {}]_vars

\* The baselines the records of a table have for a metric.
Baselines(table, k) == {[base |-> r.base, at |-> r.baseAt] : r \in table[k]}

\* Syncs that find no record race for the first baseline: each takes one of its
\* own, the last to write wins, and one that has loaded the loser's record may
\* put that one back.  The race for a metric is over when there is a record and
\* no command is about to write from another baseline (or from none).
Settled(k) ==
  /\ records[k] # {}
  /\ \A p \in Proc : pc[p] = "loaded" => Baselines(stored[p], k) = Baselines(records, k)

\* Once the race is over it stays over: whatever is measured, loaded, written or
\* fails from then on, in any order, by however many commands, the finding is
\* compared with that one baseline.
SettledBaselineIsKept ==
  [][\A k \in Metric : Settled(k) =>
       /\ Settled(k)'
       /\ Baselines(records, k)' = Baselines(records, k)]_vars

\* A sync updates the current value of every finding that was active before,
\* and says so when it is no longer active.
SyncUpdatesFormerFindings ==
  [][\A p \in Proc : pc[p] = "loaded" /\ pc'[p] = "ok" =>
       \A k \in Metric : records[k] # {} /\ ~Active(k, measured[p][k]) =>
         \A q \in records'[k] : q.status = "resolved"]_vars
=============================================================================

------------------------------- MODULE Reports -------------------------------
(***************************************************************************)
(* The commands report and push, from the events to what they say of the   *)
(* findings that are followed through.  A command loads the events of its  *)
(* window, computes the metrics, makes the recommendations, syncs the      *)
(* records with them in two accesses to the database, and only then        *)
(* delivers its result: to a terminal, a file, or a team folder.  Other    *)
(* commands and the collection run meanwhile, windows differ, and a        *)
(* delivery that fails is not taken back.                                  *)
(*                                                                         *)
(* A value of a metric is its multiple of 1/Scale; the bounds are chosen   *)
(* such that all values that occur are.                                    *)
(***************************************************************************)
EXTENDS Analytics

CONSTANTS
  Metric,    \* the findings that are followed
  Proc,      \* the processes that run commands
  Scale,     \* the number of levels in a ratio
  MaxRuns    \* bound: how many commands are run

ASSUME MetricAssumption == Metric \subseteq Finding \ {"high-cost"}
ASSUME BoundAssumption == Scale \in Nat \ {0} /\ MaxRuns \in Nat

VARIABLES
  records,    \* the recommendations table
  pc,         \* where each process is
  measured,   \* the metrics each process has computed
  at,         \* the place of its command in the order in which they loaded
  stored,     \* the records it has loaded
  runs,       \* how many commands have been run
  outcomes,   \* history: what each sync returned, and when it had measured
  raced,      \* history: the table has changed between a load and its upsert
  overlapped  \* history: a command has loaded events while another was at it

vars == <<events, records, pc, measured, at, stored, runs, outcomes, raced, overlapped>>

Level == 0..Scale
Value == [n : Level, d : {Scale}]
Status == {"improving", "regressing", "resolved"}
Record == [base : Level, baseAt : 0..MaxRuns, cur : Level, curAt : 0..MaxRuns, status : Status]
Table == [Metric -> SUBSET Record]
NoRecords == [k \in Metric |-> {}]

TypeOK ==
  /\ events \in Seq(Event)
  /\ records \in Table
  /\ pc \in [Proc -> {"idle", "measured", "loaded", "synced", "ok", "failed", "undelivered"}]
  /\ measured \in [Proc -> [Metric -> Level]]
  /\ at \in [Proc -> 0..MaxRuns]
  /\ stored \in [Proc -> Table]
  /\ runs \in 0..MaxRuns
  /\ outcomes \subseteq [at : 0..MaxRuns, updated : Table]
  /\ raced \in BOOLEAN /\ overlapped \in BOOLEAN

Init ==
  /\ StoreInit
  /\ records = NoRecords
  /\ pc = [p \in Proc |-> "idle"]
  /\ measured = [p \in Proc |-> [k \in Metric |-> 0]]
  /\ at = [p \in Proc |-> 0]
  /\ stored = [p \in Proc |-> NoRecords]
  /\ runs = 0
  /\ outcomes = {}
  /\ raced = FALSE /\ overlapped = FALSE

\* A collect run stores a turn.
Collect(e) ==
  /\ Store(e)
  /\ UNCHANGED <<records, pc, measured, at, stored, runs, outcomes, raced, overlapped>>

-----------------------------------------------------------------------------

\* The levels that the value reaches, as a fraction of Scale.
LevelOf(v) == Cardinality({l \in 1..Scale : l * v.d <= v.n * Scale})
ValueOf(level) == [n |-> level, d |-> Scale]

Running == {"measured", "loaded"}

\* The command loads the events of its window, which --days decides and which
\* may be empty, and computes the metrics.
Measure(p) ==
  /\ pc[p] \notin Running \cup {"synced"}
  /\ runs < MaxRuns
  /\ \E cutoff \in 0..(MaxTime + 1) :
       LET m == Compute(LoadEvents(events, cutoff, Project))
       IN  measured' = [measured EXCEPT ![p] = [k \in Metric |-> LevelOf(MetricValue(k, m))]]
  /\ runs' = runs + 1
  /\ at' = [at EXCEPT ![p] = runs + 1]
  /\ pc' = [pc EXCEPT ![p] = "measured"]
  /\ overlapped' = (overlapped \/ \E q \in Proc : pc[q] \in Running)
  /\ UNCHANGED <<events, records, stored, outcomes, raced>>

\* Sync: LoadRecords.
LoadRecords(p) ==
  /\ pc[p] = "measured"
  /\ stored' = [stored EXCEPT ![p] = records]
  /\ pc' = [pc EXCEPT ![p] = "loaded"]
  /\ UNCHANGED <<events, records, measured, at, runs, outcomes, raced, overlapped>>

IsRecommended(k, level) == IsActive(k, ValueOf(level))

\* Mutant of StatusOf: a value is compared with that of the last report.
StatusSinceLast(k, e, cur) ==
  IF ~IsRecommended(k, cur) THEN "resolved"
  ELSE IF IsBetter(k, ValueOf(e.cur), ValueOf(cur)) THEN "improving" ELSE "regressing"

StatusOf(k, e, cur) ==
  IF ~IsRecommended(k, cur) THEN "resolved"
  ELSE IF IsBetter(k, ValueOf(e.base), ValueOf(cur)) THEN "improving" ELSE "regressing"

\* The record Sync returns for a recommendation, and none for other findings.
Updated(p) ==
  [k \in Metric |->
     LET cur == measured[p][k]
     IN  IF ~IsRecommended(k, cur) THEN {}
         ELSE IF stored[p][k] = {}
         THEN {[base |-> cur, baseAt |-> at[p], cur |-> cur, curAt |-> at[p],
                status |-> "improving"]}
         ELSE {[base |-> e.base, baseAt |-> e.baseAt, cur |-> cur, curAt |-> at[p],
                status |-> StatusOf(k, e, cur)] : e \in stored[p][k]}]

\* Mutant of Upsert: a record that is there stays.
InsertOrIgnore(updated) == [k \in Metric |-> IF records[k] = {} THEN updated[k] ELSE records[k]]

Upsert(updated) == [k \in Metric |-> IF updated[k] = {} THEN records[k] ELSE updated[k]]

\* Sync: UpsertRecords, in one transaction.
UpsertRecords(p) ==
  /\ pc[p] = "loaded"
  /\ records' = Upsert(Updated(p))
  /\ outcomes' = outcomes \cup {[at |-> at[p], updated |-> Updated(p)]}
  /\ raced' = (raced \/ stored[p] # records)
  /\ pc' = [pc EXCEPT ![p] = "synced"]
  /\ UNCHANGED <<events, measured, at, stored, runs, overlapped>>

\* The load or the upsert fails, or the process is killed.
Fail(p) ==
  /\ pc[p] \in Running
  /\ pc' = [pc EXCEPT ![p] = "failed"]
  /\ UNCHANGED <<events, records, measured, at, stored, runs, outcomes, raced, overlapped>>

\* Mutant of Deliver: a command that delivers nothing puts the records back.
DeliverOrUndo(p) ==
  /\ pc[p] = "synced"
  /\ \/ pc' = [pc EXCEPT ![p] = "ok"] /\ UNCHANGED records
     \/ pc' = [pc EXCEPT ![p] = "undelivered"] /\ records' = stored[p]
  /\ UNCHANGED <<events, measured, at, stored, runs, outcomes, raced, overlapped>>

\* What follows the sync: the export is built, signed and written or pushed.  It
\* may fail, with no push_url, no folder or a full disk; the records stay.
Deliver(p) ==
  /\ pc[p] = "synced"
  /\ pc' \in {[pc EXCEPT ![p] = result] : result \in {"ok", "undelivered"}}
  /\ UNCHANGED <<events, records, measured, at, stored, runs, outcomes, raced, overlapped>>

Command(p) ==
  Measure(p) \/ LoadRecords(p) \/ UpsertRecords(p) \/ Fail(p) \/ Deliver(p)

Next ==
  \/ \E s \in Session, t \in Time, turn \in Turn :
       Collect([session |-> s, ts |-> t, turn |-> turn])
  \/ \E p \in Proc : Command(p)

Spec == Init /\ [][Next]_vars

-----------------------------------------------------------------------------

\* The least level that is no longer below the limit, or the greatest that does
\* not exceed it.
ThresholdLevel ==
  [k \in Metric |-> IF k = "cache-miss" THEN (Limit[k] * Scale + 99) \div 100
                    ELSE (Limit[k] * Scale) \div 100]

FT == INSTANCE FollowThrough WITH
        HigherIsBetter <- {"cache-miss"} \cap Metric,
        Threshold <- ThresholdLevel,
        MaxLevel <- Scale,
        pc <- [p \in Proc |-> IF pc[p] \in {"synced", "undelivered"} THEN "ok" ELSE pc[p]]

\* The commands, with the metrics that the events of any window give and with
\* deliveries that fail, implement follow-through: whether a finding has a
\* recommendation is what FollowThrough calls active, which has integers for
\* values and thresholds, and nothing that comes after a sync touches a record.
ImplementsFollowThrough == FT!Spec

\* A push that is repeated because it could not be delivered is a second sync,
\* and so is a report in between.  If no two syncs have raced, all that are
\* told a finding agree on its baseline, whatever windows they measured, and
\* those with the same value agree on the verdict, with one exception: of the
\* baseline's own value the sync that took it says "improving", and every other,
\* such as the retry of that first push, says "regressing".
VerdictsAreReproducible ==
  ~raced =>
    \A o1, o2 \in outcomes : \A k \in Metric :
      \A r1 \in o1.updated[k], r2 \in o2.updated[k] :
        /\ r1.base = r2.base /\ r1.baseAt = r2.baseAt
        /\ r1.cur = r2.cur /\ r1.cur # r1.base => r1.status = r2.status
        /\ r1.cur = r1.base =>
             r1.status = IF r1.curAt = r1.baseAt THEN "improving" ELSE "regressing"

\* If commands have not overlapped, a record holds what the last of the commands
\* that found it active has measured and said, delivered or not: a value that was
\* measured earlier is never put in place of a later one.
RecordsAreCurrent ==
  ~overlapped =>
    \A k \in Metric :
      LET told == {o \in outcomes : o.updated[k] # {}}
      IN  IF told = {} THEN records[k] = {}
          ELSE \E o \in told : /\ \A other \in told : other.at <= o.at
                               /\ records[k] = o.updated[k]
=============================================================================

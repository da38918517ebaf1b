--------------------------- MODULE EventCollection ---------------------------
(***************************************************************************)
(* The collect flow: agents write their logs, and collect processes (the   *)
(* one cron starts every ten minutes, those a user starts by hand or       *)
(* through `init`) read every agent's log with its adapter, gather what    *)
(* they read in one batch and write the batch to the events table of the   *)
(* SQLite database all of them share, in one transaction of                *)
(* INSERT OR IGNORE statements.                                            *)
(*                                                                         *)
(* An event is identified by its deduplication key: the source and the     *)
(* event key its adapter gave it.  Of what an event holds (tokens, model,  *)
(* project, ...) only the version of the log entry it was read from is     *)
(* kept: 0 for no entry, 1 when the entry appears, more each time the      *)
(* agent rewrites it.  Only the sources in Growing rewrite an entry: their *)
(* adapter reports one running total per session (copilot).  What an       *)
(* adapter makes of the files of one agent is modelled in AgentAdapters.   *)
(***************************************************************************)
EXTENDS Integers, Sequences

CONSTANTS
  Registry,     \* the sources of the adapters, in the order they are run
  Key,          \* the event keys the adapters give
  Growing,      \* the sources whose log entries are rewritten as they grow
  Proc,         \* the processes that run the collect flow
  Cron,         \* the one of them that the scheduler starts
  Nobody,       \* stands for "no process holds the write lock"
  AnySource,    \* stands for an empty CollectCommand.Source: no filter
  MaxVersion,   \* bound: how often an entry is written
  MaxFaults     \* bound: how many crashes, errors and partial reads happen

Source == {Registry[i] : i \in 1..Len(Registry)}
DedupKey == Source \X Key
Version == 0..MaxVersion
Absent == 0

ASSUME RegistryAssumption == Registry \in Seq(Source)
ASSUME ProcAssumption == Cron \in Proc /\ Nobody \notin Proc
ASSUME BoundAssumption == MaxVersion \in Nat \ {0} /\ MaxFaults \in Nat

VARIABLES
  log,      \* what the agents have logged: the version of each entry
  events,   \* the committed events table: the version each row was made of
  lock,     \* the process holding SQLite's write lock, or Nobody
  pc,       \* where each process is
  filter,   \* CollectCommand.Source of each process
  next,     \* the index in Registry of the adapter to run next
  batch,    \* allRaw: the events read so far, by deduplication key
  pending,  \* the events of the batch WriteEvents has not yet inserted
  tx,       \* the rows the open transaction has added to the table
  faults    \* how many faults have happened

vars == <<log, events, lock, pc, filter, next, batch, pending, tx, faults>>
runVars == <<pc, filter, next, batch, pending, tx>>

Stopped == {"idle", "ok", "failed"}
Running == {"collecting", "begun", "inserting"}

\* No event at all: an empty table, batch or transaction.
Empty == [d \in DedupKey |-> Absent]

\* The deduplication keys present in a table, a batch or a transaction.
Present(table) == {d \in DedupKey : table[d] # Absent}

TypeOK ==
  /\ log \in [DedupKey -> Version]
  /\ events \in [DedupKey -> Version]
  /\ lock \in Proc \cup {Nobody}
  /\ pc \in [Proc -> Stopped \cup Running]
  /\ filter \in [Proc -> Source \cup {AnySource}]
  /\ next \in [Proc -> 1..(Len(Registry) + 1)]
  /\ batch \in [Proc -> [DedupKey -> Version]]
  /\ pending \in [Proc -> SUBSET DedupKey]
  /\ tx \in [Proc -> [DedupKey -> Version]]
  /\ faults \in 0..MaxFaults

Init ==
  /\ log = Empty
  /\ events = Empty
  /\ lock = Nobody
  /\ pc = [p \in Proc |-> "idle"]
  /\ filter = [p \in Proc |-> AnySource]
  /\ next = [p \in Proc |-> 1]
  /\ batch = [p \in Proc |-> Empty]
  /\ pending = [p \in Proc |-> {}]
  /\ tx = [p \in Proc |-> Empty]
  /\ faults = 0

-----------------------------------------------------------------------------
(* The agents. *)

\* An agent writes an entry to its log, or rewrites one of a growing session.
LogTurn(d) ==
  /\ log[d] < MaxVersion
  /\ log[d] = Absent \/ d[1] \in Growing
  /\ log' = [log EXCEPT ![d] = @ + 1]
  /\ UNCHANGED <<events, lock, runVars, faults>>

-----------------------------------------------------------------------------
(* A collect process. *)

\* The filters a process may be given: cron runs `collect` without one.
Filters(p) == IF p = Cron THEN {AnySource} ELSE Source \cup {AnySource}

\* A process starts the collect flow with a source filter.
Start(p, s) ==
  /\ pc[p] \in Stopped
  /\ pc' = [pc EXCEPT ![p] = "collecting"]
  /\ filter' = [filter EXCEPT ![p] = s]
  /\ next' = [next EXCEPT ![p] = 1]
  /\ batch' = [batch EXCEPT ![p] = Empty]
  /\ pending' = [pending EXCEPT ![p] = {}]
  /\ tx' = [tx EXCEPT ![p] = Empty]
  /\ UNCHANGED <<log, events, lock, faults>>

\* Mutant of Gathered: an adapter that labels its events with another source.
GatheredUnderFirstSource(p, s, lost) ==
  [d \in DedupKey |-> IF d[1] = Registry[1] /\ d[2] \notin lost
                      THEN log[<<s, d[2]>>] ELSE batch[p][d]]

\* Mutant of Gathered: no filter is taken for the name of a source.
GatheredIfNamed(p, s, lost) ==
  [d \in DedupKey |-> IF filter[p] = s /\ d[1] = s /\ d[2] \notin lost
                      THEN log[d] ELSE batch[p][d]]

\* The batch of p after the adapter of source s has read all but the keys
\* in lost: a source the filter excludes adds nothing.
Gathered(p, s, lost) ==
  IF filter[p] \in {AnySource, s}
  THEN [d \in DedupKey |->
          IF d[1] = s /\ d[2] \notin lost THEN log[d] ELSE batch[p][d]]
  ELSE batch[p]

\* The next adapter reads what its agent has logged.
CollectAdapter(p) ==
  /\ pc[p] = "collecting"
  /\ next[p] <= Len(Registry)
  /\ batch' = [batch EXCEPT ![p] = Gathered(p, Registry[next[p]], {})]
  /\ next' = [next EXCEPT ![p] = @ + 1]
  /\ UNCHANGED <<log, events, lock, pc, filter, pending, tx, faults>>

\* The next adapter fails, which only costs a warning, or skips some of the
\* files (one it cannot open, one the agent is rewriting).
CollectPartly(p, lost) ==
  /\ pc[p] = "collecting"
  /\ next[p] <= Len(Registry)
  /\ faults < MaxFaults
  /\ faults' = faults + 1
  /\ batch' = [batch EXCEPT ![p] = Gathered(p, Registry[next[p]], lost)]
  /\ next' = [next EXCEPT ![p] = @ + 1]
  /\ UNCHANGED <<log, events, lock, pc, filter, pending, tx>>

\* No adapter found anything: the database is not touched.
NothingToWrite(p) ==
  /\ pc[p] = "collecting"
  /\ next[p] > Len(Registry)
  /\ Present(batch[p]) = {}
  /\ pc' = [pc EXCEPT ![p] = "ok"]
  /\ UNCHANGED <<log, events, lock, filter, next, batch, pending, tx, faults>>

\* WriteEvents begins a transaction, which takes no lock before it writes.
BeginTx(p) ==
  /\ pc[p] = "collecting"
  /\ next[p] > Len(Registry)
  /\ Present(batch[p]) # {}
  /\ pc' = [pc EXCEPT ![p] = "begun"]
  /\ pending' = [pending EXCEPT ![p] = Present(batch[p])]
  /\ UNCHANGED <<log, events, lock, filter, next, batch, tx, faults>>

\* Mutant of MayWrite: a database that does not lock.
MayAlwaysWrite(p) == TRUE

\* SQLite's write lock is free, or the process has it.
MayWrite(p) == lock \in {Nobody, p}

\* Mutants of RowAdded: an upsert that replaces a row, or adds to its counts.
RowReplaced(old, new) == new
RowAccumulated(old, new) == old + new

\* What a row read as new adds to the table when the table has old under its
\* key: OR IGNORE leaves a row that is there alone.
RowAdded(old, new) == IF old = Absent THEN new ELSE Absent

\* Mutant of StillPending: the loop ends at the first row that is ignored.
PendingUntilConflict(p, d) == IF events[d] # Absent THEN {} ELSE pending[p] \ {d}

\* The events of the batch that are left to insert after the one under d.
StillPending(p, d) == pending[p] \ {d}

\* One INSERT OR IGNORE.  The first takes the write lock.  The keys of a batch
\* being distinct, the order of its rows makes no difference.
InsertOrIgnore(p, d) ==
  /\ pc[p] \in {"begun", "inserting"}
  /\ d \in pending[p]
  /\ MayWrite(p)
  /\ lock' = p
  /\ pc' = [pc EXCEPT ![p] = "inserting"]
  /\ pending' = [pending EXCEPT ![p] = StillPending(p, d)]
  /\ tx' = [tx EXCEPT ![p][d] = RowAdded(events[d], batch[p][d])]
  /\ UNCHANGED <<log, events, filter, next, batch, faults>>

\* Another process is writing: with no busy timeout set on the database the
\* INSERT fails at once, which ends the run.  No row was added yet, since the
\* first INSERT would have taken the lock.
Blocked(p) ==
  /\ pc[p] = "begun"
  /\ ~MayWrite(p)
  /\ pc' = [pc EXCEPT ![p] = "failed"]
  /\ UNCHANGED <<log, events, lock, filter, next, batch, pending, tx, faults>>

\* The rows of table with those of rows added.
WithRows(table, rows) ==
  [d \in DedupKey |-> IF rows[d] # Absent THEN rows[d] ELSE table[d]]

\* Every row is in: the transaction commits and the process exits with 0.
Commit(p) ==
  /\ pc[p] = "inserting"
  /\ pending[p] = {}
  /\ events' = WithRows(events, tx[p])
  /\ lock' = Nobody
  /\ pc' = [pc EXCEPT ![p] = "ok"]
  /\ UNCHANGED <<log, filter, next, batch, pending, tx, faults>>

\* Mutant of Abort: each row is committed by itself, there is no transaction.
AbortWithoutRollback(p) ==
  /\ pc[p] \in Running
  /\ faults < MaxFaults
  /\ faults' = faults + 1
  /\ pc' = [pc EXCEPT ![p] = "failed"]
  /\ lock' = IF lock = p THEN Nobody ELSE lock
  /\ events' = WithRows(events, tx[p])
  /\ UNCHANGED <<log, filter, next, batch, pending, tx>>

\* The process is killed, or a statement or the commit fails (the disk is full,
\* a report or a push holds the write lock): SQLite rolls back.
Abort(p) ==
  /\ pc[p] \in Running
  /\ faults < MaxFaults
  /\ faults' = faults + 1
  /\ pc' = [pc EXCEPT ![p] = "failed"]
  /\ lock' = IF lock = p THEN Nobody ELSE lock
  /\ tx' = [tx EXCEPT ![p] = Empty]
  /\ UNCHANGED <<log, events, filter, next, batch, pending>>

-----------------------------------------------------------------------------

Insert(p) == \E d \in DedupKey : InsertOrIgnore(p, d)

Agents == \E d \in DedupKey : LogTurn(d)

Collector(p) ==
  \/ \E s \in Filters(p) : Start(p, s)
  \/ CollectAdapter(p)
  \/ \E lost \in SUBSET Key : CollectPartly(p, lost)
  \/ NothingToWrite(p)
  \/ BeginTx(p)
  \/ Insert(p)
  \/ Blocked(p)
  \/ Commit(p)
  \/ Abort(p)

Next == Agents \/ \E p \in Proc : Collector(p)

Spec == Init /\ [][Next]_vars

\* A started process runs on, until it exits or an INSERT of it meets another
\* process's write lock; the scheduler starts cron's process again and again,
\* with no filter.  Nothing makes a process wait for the lock, so nothing says
\* that it gets the lock in the end.
Fairness ==
  /\ WF_vars(Start(Cron, AnySource))
  /\ \A p \in Proc :
       /\ WF_vars(CollectAdapter(p))
       /\ WF_vars(NothingToWrite(p))
       /\ WF_vars(BeginTx(p))
       /\ WF_vars(Insert(p) \/ Blocked(p))
       /\ WF_vars(Commit(p))

FairSpec == Spec /\ Fairness

-----------------------------------------------------------------------------
(* Safety. *)

\* SQLite lets one process write: the holder of the lock is the one process
\* between its first INSERT and its COMMIT.  (db.go: one database, WAL mode.)
OneWriter == \A p \in Proc : pc[p] = "inserting" <=> lock = p

\* A row was made of something the agent had logged, and of no later version
\* than the log now holds: collection invents no usage and no interleaving of
\* processes puts a row back under a key whose entry has vanished.
RowsWereLogged == \A d \in DedupKey : events[d] <= log[d]

\* While a process is writing, no row it is adding is in the table already:
\* what INSERT OR IGNORE found out row by row still holds when the transaction
\* commits, whatever other processes did in between.
NoDuplicateInFlight ==
  \A p \in Proc : pc[p] = "inserting" =>
    \A d \in DedupKey : tx[p][d] # Absent => events[d] = Absent

\* How far a run has got: its batch holds only what was logged; before its
\* first INSERT it has added no row; and in its transaction every event of the
\* batch is either still to be inserted, or added, or was in the table before.
Progress(p) ==
  /\ \A d \in DedupKey : batch[p][d] <= log[d]
  /\ pc[p] \in {"collecting", "begun"} => tx[p] = Empty
  /\ pc[p] = "begun" => pending[p] = Present(batch[p])
  /\ pc[p] = "inserting" =>
       /\ pending[p] \subseteq Present(batch[p])
       /\ \A d \in DedupKey : tx[p][d] \in {Absent, batch[p][d]}
       /\ \A d \in Present(batch[p]) \ pending[p] :
            tx[p][d] # Absent \/ events[d] # Absent

\* No run forgets an event that it read, or adds one that it did not read,
\* whatever the other runs commit between its reading and its inserting.
RunProgress == \A p \in Proc : Progress(p)

\* A run that exits with 0 leaves every event it read in the table, although
\* it may have raced with other runs that were reading the same logs.
SuccessMeansStored ==
  \A p \in Proc : pc[p] = "ok" => Present(batch[p]) \subseteq Present(events)

\* A stored event is never changed or deleted: a UsageEvent is immutable, and
\* a later run that reads the same entry again leaves its row alone.
RowsAreImmutable ==
  [][\A d \in DedupKey : events[d] # Absent => events'[d] = events[d]]_vars

\* The table changes only when one run succeeds, and then by its whole batch:
\* no report sees half a batch, and a run that fails or is killed leaves no row.
AllOrNothing ==
  [][events' # events =>
       \E p \in Proc :
         /\ pc[p] \in Running /\ pc'[p] = "ok"
         /\ Present(events') = Present(events) \cup Present(batch[p])]_vars

(* Liveness. *)

\* Whatever an agent logs is in the table in the end, as long as the scheduler
\* keeps starting collect and the processes others start do not for ever come
\* back to take the write lock from it: a crash, a file that could not be read
\* and a run that the lock turned away only delay.
EventuallyCollected ==
  <>[](\A p \in Proc \ {Cron} : pc[p] # "inserting") =>
    \A d \in DedupKey : log[d] # Absent ~> events[d] # Absent

(* Refinement. *)

\* The ledger behind the processes: its entries are the rows of the table.
Ledger == INSTANCE EventLedger WITH
            Id <- DedupKey,
            Rewritten <- {d \in DedupKey : d[1] \in Growing},
            logged <- log,
            ledger <- events

\* Every behaviour of the collect processes is one of the ledger: each commit
\* adds a set of new entries in one step, every other step changes nothing.
ImplementsLedger == Ledger!Spec
=============================================================================

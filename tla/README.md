# A specification of token-monitor in TLA+

`token-monitor` collects the token usage that AI coding agents log on a developer's
machine, stores it in a local SQLite database, and turns it into reports, findings that are
followed through, and signed exports that a team lead merges. This directory specifies it:
TLA+ modules translated from the Go source, TLC configurations that check them on small
instances, and TLAPS proofs of what matters most for every instance.

The source is `src/` of the repository; paths below are relative to it.

## The system

Every command is a process of its own: `cmd/token-monitor/main.go` opens the database,
builds the services (`wire.go`) and calls one handler of `application/`. Nothing keeps these
processes apart. `collect` is started by cron or launchd every ten minutes, by `init`, and by
hand; `report`, `push` and `html` may run at any moment beside it. What they share is on disk:

| Component | State it keeps | Operations | Used by | What makes it correct |
|---|---|---|---|---|
| Agents (external) | log files under `~/.claude`, `~/.codex`, ... | append or rewrite entries | adapters | |
| Adapters, `infrastructure/adapters` | none: the logs are read from scratch | `Collect` | collect flow | a turn has one key in every run; the tokens of the events are the tokens spent |
| Collect flow, `application/collect.go` | the batch in memory | `CollectHandler.Handle` | cron, `init`, user | nothing read is lost, nothing is added twice; one failing adapter does not stop the others |
| Event store, `infrastructure/sqlite` | table `events` | `WriteEvents`, `LoadEvents` | collect, report, push, html, analyze, reconcile | rows are immutable and appear by whole batches |
| Follow-through, `internal/insights/follow_through.go` | table `recommendations` | `Sync` = load + upsert | report, push | a baseline is kept, a status says what its two values deserve |
| Keystore, `infrastructure/fs/keystore.go` | `signing-key.pem`, `signing-key-pub.pem` | `EnsureKeypair`, `LoadKeypair` | init, fingerprint, every command through `wire.go` | one identity for a machine, and the one it has announced |
| Deploy configuration | `config.json` | `Save`, `Load` | init, schedule, push | readable |
| Scheduler, `infrastructure/scheduler` | the user's crontab, or a launchd plist | `Install`, `Remove` | init, schedule | collect is scheduled once, the rest of the crontab is left alone |
| Activity classifier, `internal/collection/classifier.go` | none | `Classify` | adapters | |
| Metrics engine, `internal/analytics` | none | `Compute`, `CostOf` | report, push, html, analyze | every token counted, and once; sessions apart from each other; no effect of where a window begins |
| Findings, recommendations, trends, personas, `internal/insights` | none | `ActiveFindings`, `Enrich`, `ComputeTrends`, `Assign` | report, push, html | thresholds, goals and directions that agree; savings that exist |
| Team export, merge, trust | export files | `Build`, `Push`, `Dedupe`, `Rollup`, verify | push, merge | the latest export of each user counts once, whatever the order |
| Reconciliation, providers | the pages fetched so far, in memory | `FetchUsage` page by page, `Compare` | reconcile | no day left out or counted twice; a breach is flagged exactly when the billed and the stored tokens say so |
| Deep analysis | none | session and tool statistics, payload for an agent | analyze | it agrees with the metrics engine, whose work it does again |
| Rendering, wiring | none | text and HTML | all | |

Hard here, and listed with their lines under `hazards` in `PROJECT.json`: processes that race
for the same tables and files with no lock but SQLite's; reading long before writing (the
batch, the loaded records, the crontab); a crash between two writes, or between truncating a
file and filling it; keys that must mean the same in every run although the logs grow in
between; running totals that are reset; findings that come and go; exports that overlap and
arrive in any order; a report fetched in several requests while it grows.

## The modules

| Module | Models | Code it stands for |
|---|---|---|
| `EventLedger` | what collection promises: an append-only ledger of logged entries | (abstract) |
| `EventCollection` | the processes that collect, the agents that log, the events table and its write lock | `application/collect.go`, `sqlite/event_store.go`, `sqlite/db.go`, `adapters/registry.go` |
| `EventCollectionProofs` | its theorems | |
| `AgentAdapters` | what the adapters make of log files that grow | `adapters/*/adapter.go` |
| `AgentAdaptersProofs` | its theorems | |
| `FollowThrough` | concurrent `Sync`s over the recommendations table | `insights/follow_through.go`, `insights/finding.go`, `sqlite/followthrough_store.go` |
| `FollowThroughProofs` | its theorems | |
| `Setup` | init, schedule, fingerprint over key files, configuration and crontab | `application/init.go`, `schedule.go`, `fingerprint.go`, `fs/*.go`, `scheduler/cron.go` |
| `SetupProofs` | its theorems | |
| `TeamExport` | pushes into a shared folder and a merge of its files | `application/push.go`, `merge.go`, `team/export_*.go`, `http/export_transport.go`, `trust/signing.go` |
| `TeamExportProofs` | its theorems | |
| `Classifier` | what a turn was doing, from the tools it used | `collection/classifier.go` |
| `Metrics` | the window, the two passes of the engine, costs, breakdowns, ratios | `analytics/*.go`, `LoadEvents` |
| `Findings` | findings, recommendations and savings, trends and movers, personas | `insights/finding.go`, `recommendation.go`, `trend.go`, `persona.go` |
| `DeepAnalysis` | session statistics and ranked lists, tool table, payload | `deepanalysis/*.go` |
| `Analytics` | the table of events, and the properties of all these | `LoadEvents`, `WriteEvents` |
| `Reports` | concurrent reports and pushes, from the events to the delivery | `application/report.go`, `push.go`, `insights/follow_through.go` |
| `ReportsProofs` | its theorems, among them that it implements `FollowThrough`, and those of `Analytics`, which it extends | |
| `Reconciliation` | the reconcile command, against a report and a table that both grow | `application/reconcile.go`, `providers/*.go`, `reconciliation/service.go` |
| `ReconciliationProofs` | its theorems | |
| `FoldLemmas` | lemmas about folds and sums, on which five of these rest | |
| `MCEventCollection`, `MCFollowThrough`, `MCTeamExport`, `MCAnalytics`, `MCReports`, `MCReconciliation` | the constants of the small instances | |

How they are composed:

    EventCollection --implements--> EventLedger
    Reports --implements--> FollowThrough
    Reports --implements--> Analytics, whose table it collects into
    Reports  EXTENDS  Analytics  EXTENDS  Findings, DeepAnalysis
    Findings, DeepAnalysis  EXTEND  Metrics  EXTENDS  Classifier

**EventCollection.** One variable for each place state lives in: `log` (what the agents have
written), `events` (the committed table), `lock` (SQLite's one writer), and for each process
`pc`, the source `filter`, the `next` adapter, the `batch` (`allRaw`), the `pending` rows of
the insert loop and the rows its transaction has added (`tx`). A process runs the handler
step by step: `Start`, one `CollectAdapter` (or, when an adapter fails or skips files,
`CollectPartly`) for each entry of the registry, then `NothingToWrite`, or `BeginTx`, one
`InsertOrIgnore` for each row, and `Commit`. `Abort` is a kill or an error at
any point; SQLite then rolls back. The database is opened without a busy timeout
(`db.go:49-58`), so that nobody waits for the write lock: a run whose first INSERT finds it
taken ends with an error (`Blocked`), as often as that happens. An event is its deduplication key and the version of the
log entry it was read from, so that a row that was made of an old version can be told from
one that is up to date. The order of the rows within a batch is not kept: its keys are
distinct and nothing observable depends on it.

**AgentAdapters.** `EventCollection` takes for granted that a key means one turn. This module
asks each adapter. A behaviour is about one `kind` of agent out of `Kinds`. Its files are
sequences of entries with token counts; an adapter is a function from files to events
(`ByEntryId`, `ByCounter`, `ByWalkIndex`, `BySession`, `ParseCursorValue`), and a `CollectRun`
stores what is new. `spent` adds up what the turns cost, so that what is stored can be
compared with it. What an agent does to its files is external and taken from what the adapters
expect of it: claude repeats the entries of a session it resumes (that is what `seen` is for),
codex keeps running totals for a session, whose lines may go on in a later file, since the adapter
keeps the last totals of a session over all files (`codex/adapter.go:52-54`), and may reset
them (`unnoticed` remembers a reset that nobody can tell from progress), the others keep a
session in one file. `cut` remembers that a run has skipped a file of a codex session
and read a later one: the first line it met there has lost the line it should have been compared with.

**FollowThrough.** A command measures (any metrics at all: the window, the filters and what
was collected meanwhile are not its own), loads the records, and upserts those of the active
findings. Metrics are levels, and each value carries the place of its command in the order in
which the events were loaded, which tells one baseline from another.

**Setup.** The files are written as the code writes them: truncated first, then filled, a
PEM file in more than one write, and each process at its own offset. The crontab is a
sequence of lines read by one program and replaced by another. A command ends `"ok"`,
`"failed"` with an error, or `"warned"`: when the crontab cannot be replaced, schedule fails,
but init prints a warning and returns no error (`init.go:71-73`). A key pair is a number and its
own fingerprint. Three history variables say what has happened that some properties exclude:
`overlapped` (two commands ran at once), `edited` (the user changed the crontab meanwhile) and
`unlisted` (`crontab -l` failed).

**TeamExport.** A push is `LoadEvents`, `Build` (sign and stamp), `OpenExport` (create or
truncate) and `WriteExport`, and may `Fail` at each. `folder` maps a file name (user and
second, as `ExportFilename` makes it) to the whole export it holds, or to none. The lead's
merge takes any files in any order, some twice (`StartMerge`), reads them one by one while
others are written (`ReadExport`), verifies (`VerifyExports`), and dedupes and adds up
(`MergeExports`, with `Rollup`, whose groups no command asks for). A signature is the key and the payload it was made with. The spends are
powers of two, so that a total tells which exports it is made of.

**Classifier, Metrics, Findings, DeepAnalysis.** Pure functions, and no state: `Classify`;
`Pass1` (one `sessionState` for each session, folded over the mixed turns) and `Compute`;
`ActiveFindings`, `Enrich`, `TrendRows`, `ProjectMovers`, `Persona`; `SessionStats`,
`DeepAnalyze`, `ToolStats`, `PayloadProjects`. Tokens are naturals, money is counted in whole
units of which `Price` says how many a token costs, and a ratio is a numerator and a
denominator, so that nothing depends on rounding; the thresholds and goals are the code's
own, in hundredths. A tool is known by its kind, the table that lists it. `ColdRestartGap`,
`BloatMinTurns`, `CostLimit`, `TopN` and `TopToolN` are constants, of which the first two are
smaller in the instance than in the code. The cutoff of `SplitWindow` is a parameter: what is
checked of every cutoff holds of the code's, `days/2` before now (`trend.go:50`), for any days; for
0 days there are no halves (line 47), but then no events were loaded either. What the code leaves open (the order of equal
savings, the dominant activity of a tie, as Go's maps come) is one of several values.

**Analytics.** The only state is the list of stored events, in the order of `LoadEvents`;
`Store` adds one of any time (`StoreInit`, `StoreNext`, `StoreSpec`). Every invariant is about
what the functions above make of it, and of each window of it. `Reports` extends it and
collects with the same `Store`.

**Reports.** A command of a process is `Measure` (load the events of a window of any length,
compute the metrics, find what is active), `LoadRecords`, `UpsertRecords` and `Deliver`, which
may fail: the export is built, signed and pushed after the sync. `Fail` is an error or a kill
before that. `Collect` adds turns meanwhile. Values are levels of a scale on which everything
the instance can measure is exact. Three history variables: `outcomes` (what each sync
returned, and when it had measured), `raced` (the table has changed between a load and its
upsert) and `overlapped` (a command has loaded events while another was at it).

**Reconciliation.** The world bills (`Bill`, of any machine, and late) and stores (`Store`)
while a command fetches one page after the other (`FetchPage`), then loads the local events
and compares (`LoadAndCompare`). The two providers differ in what their rows say of cached
tokens. `billedAtStart` remembers what a model had been billed when the command started.

Where a definition has a mutant (a comment says so), it is a plausible slip in the code that
the definition stands for; with it in place TLC finds the property named in `PROJECT.json`
violated. Mutants are used nowhere in the specifications.

## What is checked

### Runs that pass

| Run | Instance | Distinct states | Shows |
|---|---|---|---|
| `collection` | sources claude (append-only) and copilot (rewrites), one key each, cron and a user, 2 versions, 2 faults | 77,445 | no duplicate slips in between check and commit; success means stored; a batch appears whole or not at all; the processes implement `EventLedger`; whatever is logged is stored in the end, unless other runs keep taking the lock from cron's |
| `adapters` | claude, antigravity, codex and copilot: 2 files, 4 entries, resumed sessions, codex sessions over both files, skipped files, overlong lines, reset counters | 652,942 | what is stored is what was spent (for copilot: no more than that; for codex: until a run cuts a session in two, from when on a row is still within the running totals); one row for a turn; every turn that some file lets be read is stored; stored rows are what the logs still say, or once said |
| `follow_race` | 2 commands at once, 2 findings of either direction, 3 runs | 144,137 | records are coherent; the race for the first baseline of a finding ends: once no command is about to write from another one, no interleaving replaces it |
| `setup` | 2 processes, 3 commands, 2 interruptions, the user edits, `crontab -l` fails | 1,774,092 | a settled key is kept; one crontab entry; other lines stay; a command that ends without error or warning leaves the schedule it reports; and unless two commands overlapped: the announced fingerprint signs, the two key files match, no command ends well with a torn configuration |
| `team` | a user with two machines and another, 3 pushes, 2 seconds, a merge of 2 files | 1,095,422 | a published export stays whole; a merge is current, and counts the newest export of each user once, in the whole and in every group |
| `analytics` | 2 sessions, 4 sorts of turns, 3 models, up to 4 events at 3 times, every cutoff | 33,485 (up to symmetry) | sessions do not affect each other; however tokens and costs are split, they add up; a shorter window never shows more; movers account for the change in spend; report and analyze agree; a goal resolves its finding, and what is avoidable is what lies beyond it; trends, personas and findings do not contradict each other |
| `reports` | 2 commands at once, 3 in all, 3 sorts of turns, up to 2 events at 2 times, cache-miss and rework | 140,746 (up to symmetry) | the commands implement `FollowThrough`; unless syncs raced, those that measure the same value give the same verdict, except of the baseline's own value, of which the sync that takes it says "improving" and every later one, a retry of the same push included, "regressing"; without overlap a record holds what was told last |
| `reconcile` | a model of each provider, 3 days on 2 pages, 2 turns billed and 3 stored | 305,070 | the pages add up to a total between start and end; verdicts are justified on both sides; the page loop ends |

The bounds are the smallest at which every hazard can happen. A second process is enough
for every race here, since the steps of a process look only at the shared state and at their
own; two versions distinguish a fresh row from a stale one; one key for each of two sources
gives batches of two rows, hence transactions with something left to insert.
Two files and four entries allow a file to grow before and after another, to be skipped, to
be resumed, and a session to go over from one to the other with turns in both. Two faults allow a fault in a run and in the one that makes up for it. Three pushes
are a user's export, the one that replaces it and another user's; two seconds distinguish a
collision of names from none. Four events in two sessions are an error and its retry with
another session in between, and a long session that bloats; the four sorts of turns are cheap coding, a
failed test, premium exploration that fills the cache, and unpriced thinking out of the cache,
so that each finding and each persona occurs, and the trends move both ways. Three commands
are one that takes a baseline, one that cannot deliver and its retry; two events are a failed
turn and its retry, or a hit and a miss of the cache. Two usages of 20 and 1 tokens
reach a local total of 21 over 20 billed, the boundary of the tolerance, and 22, beyond it;
three days on pages of two are a full page and a last one that is not. Counters (`faults`,
`runs`, `pushes`, `turns`, versions, entries) are bounded by guards that are named in the
CONSTANTS; `CHECK_DEADLOCK FALSE` stands only where such a bound ends all behaviours
(`FollowThrough`, `Setup`, `TeamExport`, `Analytics`, `Reports`), where the real system would go on.

### Runs that find the code at odds with what it says of itself

Each checks one property, taken from a line of the repository, and TLC finds a behaviour of
the code that breaks it. Details are under `findings`.

| Run | The repository says | The code does |
|---|---|---|
| `adapter_gemini` | the key "uniquely identifies a Turn across all ingestion runs" | numbers turns across files, so that a run that cannot read an earlier file (the trace), or for which one has grown, gives later turns new keys |
| `follow_resolved` | "previously active findings get a current-value update and a status determination" | visits only findings that are active now |
| `merge_verify` | `merge --verify --keys ...` merges signed exports | verifies against a nil public key, and rejects every export |
| `analytics_premium` | efficiency ratios are "all in [0, 1]" | counts premium tokens once for every session; the other three ratios do stay in the interval |

Other disagreements met while modelling, which the modules show but no run is spent on:

- `Inserted` of `internal/collection/usage_event.go:28` is "Found - duplicates"; collect reports
  every event found.
- `codex/adapter.go:17` says "we delta-diff between consecutive events"; when the file with the
  beginning of a session cannot be read in a run, but a later one can, the first line of that is
  stored with its whole running total, for good, and the lines before it are stored on top by the next
  run. `NeverOvercounts` therefore excludes what follows such a run (`cut`); without that it fails.
- Claude's `Collect` skips a whole file for one line of more than 1 MB (`overlong`).
- The README lists Cursor among the agents tracked; `parseCursorValue` yields no event.
- Two first syncs at once: the second replaces the baseline, which is a record's identity.
- Two inits at once announce two fingerprints of which one key is overwritten; and an init cut
  off between creating and filling the key file makes every later one fail.
- `Install` replaces the whole crontab when `crontab -l` fails for a reason other than there
  being none (`unlisted`).
- Copilot's one event of a session keeps its key while its totals grow, and INSERT OR IGNORE
  keeps those first seen: what a session spends after that is never stored, although
  `trd/ubiquitous-language.md:17` calls a UsageEvent an "immutable record of one Turn".
  `AccountsForAll` therefore excludes copilot; with it, it fails.
- `merge` shows a plain mean of the members' ratios, where the comment on `MergeMetrics`
  (`export_merger.go:36`) says "weighted-averages", and it drops the breakdown by activity, so
  that the dominant activity of a merge is always exploration.
- A session's `SpendTokens` in analyze includes cached tokens, which the glossary excludes, and
  its context includes the output.
- `trd/domain-model.md:313` has savings by the month; those of high-cost are 20 % of the window's
  cost, and are added to the monthly ones.
- `PotentialBill` adds up overlapping findings: rework and retry loops are the same tokens.
- `blendedRates` halves each model's tokens in integers, so that an odd number of tokens makes
  the rate too high (of one token, zero).
- `days/2` makes the halves of an odd window unequal (`trd/ubiquitous-language.md:55`: "equal-length
  window"), and the recent half of one day empty.
- A window without events has a cache hit ratio of 0, which makes cache-miss active with a
  baseline that no later value falls below.
- A sync that finds the very baseline again calls it "regressing", although nothing has changed;
  a first push that fails after its sync says "improving", and its retry the opposite.
- `init` ends without an error when the crontab could not be replaced: it has only warned.
- The tables of the classifier do not list the names that agents use (`Write`, `Edit`,
  `WebSearch`), so that such turns are explorations; copilot and gemini turns are classified
  without their tools, and are always thinking.
- A codex turn that uses a tool twice counts as two turns of that tool (its tools are a list; in
  `DeepAnalysis` they are a set).
- Filters can split a session (`--project`), which hides an error from its retry or makes a pause:
  retries and restarts are monotone in the window, but not in the filter.
- The lists of sessions and tools in `LlmPayload` (`trd/ubiquitous-language.md:118`) are never
  filled, and `analyze --llm` fails for want of agents (`wire.go:136`).
- `html --team` renders an empty rollup.
- `trd/context-map.md:136` has reconcile exit with 1 on a breach; `Handle` prints it and
  returns nil.
- Reconcile loads the local events after the last page, with a window of its own, so that what
  was spent in between is local only: on a small total that can exceed the tolerance.

### Fairness

`collection` needs weak fairness of the steps of a process: it runs on once started. Weak
fairness of cron's start, with no filter: the installed entry is `*/10 * * * * ... collect`,
and it is started again whatever became of the last run. An insert and its failure for want of
the lock are one obligation: the process does one or the other. Since nothing makes it wait,
nothing makes it get the lock in the end, and a user whose runs hold the lock whenever cron's
run begins to write would keep it out for ever; `EventuallyCollected` therefore says what follows
once that has ended (`<>[]` no other process is inserting). No
fairness is assumed of the user's process starting, of `Abort` or of `CollectPartly`, and these
two happen at most `MaxFaults` times: with faults for ever nothing need ever be stored.

`reconcile` needs weak fairness of a started command's next step, be it progress or an error:
its client gives up after 30 seconds. That the answers stop coming to an end is not assumed,
but follows from the window's having finitely many pages.

## What is proved

`tlapm` checks every proof below for all values of the constants, subject to the
assumptions declared in the modules (`RegistryAssumption`: the registry is a sequence of
sources; `ProcAssumption`: cron is a process and `Nobody` is not; `OwnerAssumption`: a model has
one provider; `EntryAssumption`: the scheduler's line is none of the user's; the bounds are
naturals; `FiniteAssumption`: the names of sessions, projects, models and tools are finitely
many, as those in a database are; and so on, each beside its constants). Every safety property of a passing
run is a theorem (and so are the types of `FollowThrough` and `Reports`, which no run checks beside their
other properties: `TypeCorrect`): every type invariant, every other invariant, every action property and the
refinements. The only hypotheses that are not
assumptions of a module are in `AgentAdaptersProofs`: `"gemini" \notin Kinds`, since with gemini its
theorems are false, as `adapter_gemini` shows, and for `AccountsForAll` also
`"cursor" \notin Kinds`, since nothing that cursor's turns spend is stored.

Hardly any of these properties is inductive; what each module needs beside them is named here.

**EventCollectionProofs.** `IInv` is the conjunction of the type invariant and five
safety invariants, of which the run checks those that are not there for the proof's sake. None is inductive alone. That a commit changes no existing row
needs `NoDuplicateInFlight` (the rows of the transaction are absent from the table at the
moment of the commit), which needs `OneWriter` (nobody else has committed since they were
looked up); that a commit brings in the whole batch, and that success means stored, need
`RunProgress` (each event of the batch is pending, added, or was there). There is one lemma
for each action, `CommitLemma` says what a commit does to the table, and the action
properties (`RowsAreImmutable`, `AllOrNothing`) and the refinement (`LedgerRefinement`:
`Spec => ImplementsLedger`) follow from it.

**FollowThroughProofs.** The coherence of records is not inductive either: a sync computes a
status from a loaded record, so that the invariant must speak of every process's loaded
records, and it must exclude that a record carries the time of a command that has yet to
write, or a record would look freshly taken when it is not. `SettledBaselineIsKept` is about the end of a race: while syncs that found no
record may still write, baselines come and go. It needs that a table never has two records of one metric
(`SingleInv`), so that all that is about to be written keeps the table's own baseline
(`UpsertKeepsBaseline`), and what is loaded from then on is that one.

**ReportsProofs.** `FollowThroughRefinement` is `Spec => ImplementsFollowThrough`: the abstract
machine has integers for values and for thresholds, the detailed one ratios of events and the
limits of eight predicates. `LevelOfLemma` says that a level is one, `LimitLemma` and
`ActiveLemma` that a level is active exactly when its value is, and `BetterLemma` that levels
have the order of their values; `StatusLemma` and `UpdatedLemma` lift that to the record a sync
makes, `UpsertLemma` to the table. `StepRefines` then maps each action to one of `FollowThrough`
or to a stutter, since nothing that follows a sync touches a record.
`VerdictsAreReproducibleHolds` needs two facts that hold only while no syncs have raced: a
table has at most one record of a finding, and all outcomes that tell a finding have the
baseline of that record (`InitOneBaseline`, `NextOneBaseline`). To know that only the sync that takes a
baseline calls it improving, it needs that a command about to write finds
no record with its own time anywhere (`FreshInv`). `RecordsAreCurrentHolds` needs
that without overlap at most one process is between measuring and writing, and that it
measured last (`NextOneAtATime`). No fact about `Compute` is used but that it is a function of
the events: the theorems hold for any metrics.

**ReportsProofs, on Analytics.** The seven invariants of `Analytics` are facts about pure
functions, for any events, turns, prices and cost limit. The inductive invariant of the state
machine is short (`EventsOK`: the table is a sequence of events in the order of their times,
which is what `ORDER BY ts` promises). What takes the work is to say of each loop of the code
what it yields for every list of events. First each fold is shown to take its steps event by
event: `KeepLemma` (the filters), `Pass1Lemma` (the engine's pass 1) and `StatLemma`
(`buildStat`). Then an induction on the list (`SequenceInduction`) relates a loop to what it is
about:

- `SessionTotals`: what pass 1 knows of a session are the sums of the session's own events, its
  cold tokens at most its input, its retries at most its spend. With `SumOfPartition` (the parts
  of a partition of the events add up to the whole) that gives the engine's totals
  (`TotalsOfCompute`), and its breakdowns and those of analyze and of the payload
  (`BreakdownsAccount`, `SessionsAccount`, `ProjectsAccount`): `EveryTokenIsAccountedForHolds`.
  That a tool's retries are at most what the sessions that have failed have spent needs that a
  turn belongs to the statistics of its session and that the list of tools lists tools
  (`TopOfIsOf`, `RetriesOfTools`).
- `StateAlone`: pass 1 over the events of one session leaves that session where pass 1 over
  all events leaves it, and the others untouched. Sums and counts over the sessions follow
  (`TotalsAlone`, `CountAlone`): `SessionsAreIndependentHolds`.
- `ShorterKnowsLess`: what a later window knows of a session is below what an earlier one
  knows. That is not inductive by itself: unless the later one has no turn of the session at
  all, both must have the same error flag and the same last time (`KnowsLess`). It needs the
  order of the events, since a window is a suffix only of an ordered list
  (`ByTimeOfAppended`): `WindowsAreMonotoneHolds`.
- `SumOfHalves`: two disjoint parts add up to both; with the projects as a partition, and
  the movers as what is not zero (`SumOfChanges`): `MoversAddUpHolds`.
- `SessionsAgree`: the two walks over a session, in the engine and in `buildStat`, agree turn
  by turn (`Agree`, `TurnsAgree`), and a ranked list is empty only if there is nothing to rank
  (`TopOfNone`): `AnalysesAgreeHolds`.
- Every ratio is one of naturals with a denominator that is not zero (`RatiosOfCompute`), a
  higher limit is exceeded only with a lower one (`LimitsOfRatios`), and a trend of two points
  is a difference in the same direction (`TrendsAreDifferences`): `ReportIsConsistentHolds`.
- No goal is a finding and each is strictly better than what was found (`GoalsResolve`,
  `GoalsAreBetter`), what is avoidable is a part of what was spent (`AvoidableIsPart`), the rate
  is that of the window when no half token is lost (`RateOfWindow`), and the integer division
  leaves less than a token beside the goal (`RestIsGoal`): `RecommendationsAddUpHolds`, which
  relates the thresholds of `finding.go`, the goals of `recommendation.go` and the directions
  of `follow_through.go` for every value of the metrics.

`SharesArePartsHolds` adds that all ratios but the premium one are in [0, 1] in every window;
`analytics_premium` shows that the premium one is not. `AnalyticsRefinement` is
`Spec => StoreSpec`, from the commands of `Reports` to the table of `Analytics`, so that all of
this holds of whatever concurrent commands measure (`ReportsAreSound`).

These theorems are about naturals of any size and exact fractions, as `Metrics` has them; the
code's floats are not modelled.

**FoldLemmas.** The code loops over lists, the modules fold over sequences and add up over
sets, and the provers cannot instantiate an induction principle that takes a predicate. Sets
they can: a property of all prefixes is the absence of a least number at which it fails
(`LeastElement`, from the library's well-founded induction), and so are the principles for
finite sets (`FiniteInduction`) and for sequences (`SequenceInduction`: a set that has the empty
sequence, and with a sequence every longer one, has them all). So the module shows of
`FoldLeft`, `MapThenSumSet` and `SumFunction`, by the community modules' definitions, that the
recursive functions behind them exist, that `FoldLeft` takes its steps in the order of the
sequence (`FoldOfAppended`), and that a sum is additive in its set, monotone in its weights, the
same along any bijection, and changed by an element by that element's weight. A module that
uses a fold shows once, for each of its operators, that it is such a fold (`KeepLemma`,
`DedupeFold`, `MergeMetricsFold`, `ByCounterLemma`, ...), and from then on works with steps. To
make this possible the loops of `Metrics`, `Findings` and `DeepAnalysis` are folds over the events
and sums of functions, never recursive operators.

**SetupProofs.** The key files, the crontab and the types have an invariant each.
`SettledIdentityIsKept`: in a state with a readable private key and nobody creating one, no
step of any command replaces it or begins to (`KeyInv`: a readable file exists, which is what
`EnsureKeypair` looks at). `SharedFingerprintSignsAlone` and `KeyFilesMatch` hold while no two commands have
run at once, wherever one is interrupted: `SoleInv` says that at most one process is running,
that the public key file has nothing in it that the private one has not, and what has been
written at each of its steps. On it rests `ConfigIsSound`: of the one process that runs, `ConfigInv`
says that past its save, or its load, the configuration is whole, or not torn.
`OneEntry` and `ScheduleIsAsReported` need no such condition: what a
process has listed decides what it installs (`Decided`), and `install` adds the line only to a crontab without
one. `TheirLinesAreKept` needs that unless the user has edited, or the list has
failed, what any process has listed has all of the user's lines (`UpToDate`), which
holds although other commands replace the crontab in between. `TypeOK` has to bound the number of key pairs by
the number of runs, hence counts the processes that may still generate one (`TypeInv`).

**TeamExportProofs.** A push that has loaded is told from all others by its number
(`PushInv`), and a file holds the export it is named for, of a push that is done with it
(`FolderInv`); so a push that opens or writes a published file has another export of the same
user and second, which is all that `PublishedIsKept` allows. A merge has read, or has yet to
read, an export of each name that was published when it started (`ReadInv`), and
`DedupeLemma` says that whatever the order, of each user one export is kept, and none is newer:
`MergeIsCurrent`. `RollupCountsEachOnce` compares a fold over a list in which users occur once with the sum over
a set of the newest exports (`SpendOfSequence`, `ExportsOfLemma`, `DedupeIsNewest`).

**ReconciliationProofs.** `FetchIsBracketed` is about a total that was never the provider's at any
one time. The invariant (`FetchInv`) brackets it before the last page is in: what was billed at the
start is at most what has been fetched plus what is billed now on the days of the
pages to come, and what has been fetched is at most what is billed now on the days of those that are in.
`PagesCoverTheDays` says that the pages' days divide the window whatever the size of a
page, and the lemmas on rows that adding rows up as each provider has them (cached tokens
within the input, or beside it) gives the usage that was billed. `VerdictsAreJustified` follows
from that and from `ResultInv`, which says that a result compares the stored tokens at the
time of the comparison.

**AgentAdaptersProofs.** First the set of events that each adapter's nested loops give out:
one for each entry not seen before (`ByEntryIdLemma`), one for each advance of a
counter (`ByCounterLemma`, with `TotalsUpto`: the last totals of each session before a
file are those of its last line in an earlier one), one for each session (`BySessionLemma`). Then how this set grows when an agent
writes: a turn adds what is read of it and changes no other event (`RowsGrow`; `DeltasGrow`, since the
line comes after all others of its session), resuming a session adds
nothing (`LogIsResumed`). `IInv` relates it to the table (`RowInv`: rows have keys of their own and, until
a run cuts a codex session, are events of the logs; all of them, after a run that skipped nothing) and to what was spent (`SpentInv`:
events add up to it, or to less after a reset that nobody noticed). A run that cuts no session reads what a
run over all files would, less the skipped lines (`FewerLines`); any run stores at most the running
totals of each line (`EmittedRowsAreOfLines`). For copilot, whose rows go
stale, `SessionInv` bounds each row by its session's tokens, and the sum over sessions by what
was spent. `OneRowPerTurn`, `RowsAgreeWithLogs`, `ReadableTurnsAreStored`, `NeverOvercounts` and
`AccountsForAll` follow (the last for agents other than cursor, of whom nothing is stored). `TypeOK` names a bound
for tokens, so that it needs `BoundInv`: what was spent, and each row, are at most what the number of entries allows.

Only model-checked:

- liveness (`EventuallyCollected`, `FetchEnds`) and all that rests on fairness, which
  the provers do not handle;
- the four properties of the runs that expect a violation, which are findings and no
  theorems, and with them what gemini's adapter does.

## What is not modelled, and the plan

Left out for good: rendering, flag parsing, the SQL text beyond its effect, timestamps'
formats, file permissions, the launchd scheduler (it writes a file of its own and shares
nothing), the HTTP transport's protocol (it has no client as wired, `wire.go:45`), the creation
of the tables in `Open`, the source filter, the ratios of a rollup, the LLM prompt and the
agents that are never configured, and `protowire`, which no code calls. A team whose members
all use the username of a hosted configuration would be deduped into one; nothing in the code
says who may have which name, so that `TeamExport` takes users as given.

Nothing of the plan is left to prove of what the runs check, but liveness. Facts that no run
asks for and that could be stated next: that `TopOf` is sorted, that `Enrich` puts the largest
savings first, and how far premium waste exceeds what was spent.

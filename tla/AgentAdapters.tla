---------------------------- MODULE AgentAdapters ----------------------------
(***************************************************************************)
(* What the adapters make of the log files of their agents.                *)
(*                                                                         *)
(* An agent keeps its log in files, numbered here in the order in which    *)
(* filepath.Walk visits them.  A file is the sequence of the entries the   *)
(* adapter looks at (an assistant turn, a counter line, a model turn, a    *)
(* step, a chat turn) and grows at its end.  Each collection run reads the *)
(* files from scratch, turns their entries into events, and stores the     *)
(* events whose deduplication key is new.  EventCollection takes for       *)
(* granted that a key stands for one turn; this module asks which adapters *)
(* keep to that, by comparing the tokens stored with the tokens spent.     *)
(*                                                                         *)
(* Of an entry or an event only its identity and its two token counts are  *)
(* kept.  In a codex entry the counts are the session's running totals.    *)
(***************************************************************************)
EXTENDS Integers, Sequences, SequencesExt, FiniteSetsExt

CONSTANTS
  Kinds,        \* the agents: some of "claude", "codex", "gemini",
                \*   "antigravity", "copilot" and "cursor"
  NFiles,       \* bound: the number of log files
  MaxEntries,   \* bound: entries written in all
  MaxTokens     \* bound: tokens of one kind in one turn

File == 1..NFiles
Session == 1..NFiles
Tokens == 0..MaxTokens
Zero == [in |-> 0, out |-> 0]

ASSUME KindsAssumption ==
  Kinds \subseteq {"claude", "codex", "gemini", "antigravity", "copilot", "cursor"}
ASSUME BoundAssumption == NFiles \in Nat /\ MaxEntries \in Nat /\ MaxTokens \in Nat

VARIABLES
  kind,     \* the agent
  files,    \* the entries of each file
  overlong, \* the files with a line of more than 1 MB (a large tool result)
  table,    \* the stored events of this agent
  spent,    \* the tokens the agent's turns have cost so far
  current,  \* whether a run has read every file since the last write
  unnoticed, \* whether a counter has been reset without going down
  cut       \* whether a run has read on in a session whose beginning it skipped

vars == <<kind, files, overlong, table, spent, current, unnoticed, cut>>

\* A file holds one session, but for codex, whose sessions go from file to file:
\* its adapter keeps the last totals of a session over all the files.
SessionsOf(f) == IF kind = "codex" THEN Session ELSE {f}

\* The sessions that have entries in a file.
SessionsIn(entries) == {entries[i].session : i \in DOMAIN entries}

-----------------------------------------------------------------------------
(* The adapters: a function from files to the sequence of events. *)

Event(key, turn, in, out) == [key |-> key, turn |-> turn, in |-> in, out |-> out]

HasKey(events, key) == \E i \in DOMAIN events : events[i].key = key

\* `seen`: an event is appended unless its key has been emitted before.
AppendUnseen(events, e) == IF HasKey(events, e.key) THEN events ELSE Append(events, e)

\* Mutant of Scanned: a file that cannot be parsed ends the walk.
ScannedUpTo(fs) ==
  [f \in File |-> IF \E g \in overlong : g <= f THEN <<>> ELSE fs[f]]

\* parseJSONL: the scanner stops at a line that does not fit its buffer, and
\* then the whole file is skipped, with the turns before that line.
Scanned(fs) == [f \in File |-> IF f \in overlong THEN <<>> ELSE fs[f]]

\* Mutant of SpendsTokens: a turn without input tokens is taken for no turn.
SpendsInput(entry) == entry.in # 0

SpendsTokens(entry) == entry.in + entry.out # 0

\* Mutant of ByEntryId: events are numbered instead of keyed by their ids.
ByTurnNumber(fs) ==
  LET turns == SelectSeq(FlattenSeq(fs), SpendsTokens)
  IN  [i \in DOMAIN turns |->
         Event(<<1, i>>, turns[i].id, turns[i].in, turns[i].out)]

\* claudecode, antigravity: the entries that cost tokens, each under its own
\* id (line.UUID, step.ID), the first time the walk meets that id.
EntryById(events, entry) ==
  IF SpendsTokens(entry)
  THEN AppendUnseen(events, Event(entry.id, entry.id, entry.in, entry.out))
  ELSE events
FileById(events, entries) == FoldLeft(EntryById, events, entries)
ByEntryId(fs) == FoldLeft(FileById, <<>>, fs)

\* Mutants of CounterDelta: totals taken for differences; no check for a reset.
CounterTotal(total, last) == total
CounterIncrease(total, last) == total - last

\* The tokens spent since the counter read last; a counter that has gone down
\* has been reset.
CounterDelta(total, last) == IF total < last THEN total ELSE total - last

\* Mutant of CodexLine: one last counter instead of one for each session.
CodexLineOfAnySession(acc, line) ==
  LET in == CounterDelta(line.in, acc.last[1].in)
      out == CounterDelta(line.out, acc.last[1].out)
  IN  [last |-> [acc.last EXCEPT ![1] = [in |-> line.in, out |-> line.out]],
       events |-> IF in + out = 0 THEN acc.events
                  ELSE Append(acc.events, Event(line.id, line.id, in, out))]

\* One codex line: its counts are running totals of its session.
CodexLine(acc, line) ==
  LET in == CounterDelta(line.in, acc.last[line.session].in)
      out == CounterDelta(line.out, acc.last[line.session].out)
  IN  [last |-> [acc.last EXCEPT ![line.session] = [in |-> line.in, out |-> line.out]],
       events |-> IF in + out = 0 THEN acc.events
                  ELSE Append(acc.events, Event(line.id, line.id, in, out))]

\* Mutant of CodexFile: the last totals are forgotten at the end of a file.
CodexFileAlone(acc, lines) ==
  FoldLeft(CodexLine, [acc EXCEPT !.last = [s \in Session |-> Zero]], lines)

\* codex: the running totals are turned into differences, over all files.
CodexFile(acc, lines) == FoldLeft(CodexLine, acc, lines)
ByCounter(fs) ==
  FoldLeft(CodexFile, [last |-> [s \in Session |-> Zero], events |-> <<>>], fs).events

\* geminicli: the key is the session (the name of the file) and the number of
\* the turn among the turns of ALL the files: idx starts before the walk.
ModelTurn(acc, turn) ==
  LET idx == acc.idx + 1
  IN  IF SpendsTokens(turn)
      THEN [idx |-> idx,
            events |-> Append(acc.events,
                              Event(<<turn.session, idx>>, turn.id, turn.in, turn.out))]
      ELSE acc
GeminiFile(acc, turns) == FoldLeft(ModelTurn, acc, turns)
ByWalkIndex(fs) == FoldLeft(GeminiFile, [idx |-> 0, events |-> <<>>], fs).events

\* The tokens of a file's entries.
InOf(entries) == MapThenSumSet(LAMBDA i : entries[i].in, DOMAIN entries)
OutOf(entries) == MapThenSumSet(LAMBDA i : entries[i].out, DOMAIN entries)

\* copilot: one event for a session file, with the totals of all its turns, and
\* the session's id as its key.
CopilotFile(events, turns) ==
  LET s == Head(turns).session
      in == InOf(turns)
      out == OutOf(turns)
  IN  IF in + out = 0 THEN events ELSE Append(events, Event(<<s, 0>>, <<s, 0>>, in, out))
BySession(fs) == FoldLeft(CopilotFile, <<>>, fs)

\* cursor: parseCursorValue returns nothing for any value.
ParseCursorValue(fs) == <<>>

Emit(fs) ==
  CASE kind = "claude" -> ByEntryId(Scanned(fs))
    [] kind = "antigravity" -> ByEntryId(fs)
    [] kind = "codex" -> ByCounter(fs)
    [] kind = "gemini" -> ByWalkIndex(fs)
    [] kind = "copilot" -> BySession(fs)
    [] kind = "cursor" -> ParseCursorValue(fs)

\* UNIQUE(source, event_key) and INSERT OR IGNORE.
InsertOrIgnore(rows, e) == IF \E r \in rows : r.key = e.key THEN rows ELSE rows \cup {e}

-----------------------------------------------------------------------------

Entries == UNION {ToSet(files[f]) : f \in File}
Written == MapThenSumSet(LAMBDA f : Len(files[f]), File)

Ids == (File \cup Session) \X (0..MaxEntries)
Totals == 0..(MaxTokens * MaxEntries)

TypeOK ==
  /\ kind \in Kinds
  /\ files \in [File -> Seq([id : Ids, session : Session, in : Totals, out : Totals])]
  /\ overlong \subseteq File
  /\ table \subseteq [key : Ids, turn : Ids, in : Totals, out : Totals]
  /\ spent \in 0..(2 * MaxTokens * MaxEntries)
  /\ current \in BOOLEAN
  /\ unnoticed \in BOOLEAN
  /\ cut \in BOOLEAN

Init ==
  /\ kind \in Kinds
  /\ files = [f \in File |-> <<>>]
  /\ overlong = {}
  /\ table = {}
  /\ spent = 0
  /\ current = TRUE
  /\ unnoticed = FALSE
  /\ cut = FALSE

\* The files in which a session has entries.
FilesOf(s) == {f \in File : s \in SessionsIn(files[f])}

\* The running totals codex has written for a session: those of its last line.
CounterOf(s) ==
  IF FilesOf(s) = {} THEN Zero
  ELSE LET lines == files[Max(FilesOf(s))]
           last == Max({i \in DOMAIN lines : lines[i].session = s})
       IN  [in |-> lines[last].in, out |-> lines[last].out]

\* A reset counter has reached its old value again before anybody read it.
Overtaken(old, new) == old # 0 /\ new >= old

\* The agent finishes a turn of session s and writes it at the end of file f.  codex
\* writes it in the last file of the session or a later one: it is taken to name its
\* files so that they are walked in the order of time.  A session that counts starts
\* again from 0 when it is restarted.
WriteTurn(f, s, in, out, restarted) ==
  LET counter == IF kind = "codex" THEN CounterOf(s) ELSE Zero
      before == IF restarted THEN Zero ELSE counter
  IN  /\ Written < MaxEntries
      /\ restarted => kind = "codex"
      /\ \A g \in FilesOf(s) : kind = "codex" => g <= f
      /\ files' = [files EXCEPT ![f] = Append(@,
                     [id |-> <<f, Len(@) + 1>>, session |-> s,
                      in |-> before.in + in, out |-> before.out + out])]
      /\ spent' = spent + in + out
      /\ current' = FALSE
      /\ unnoticed' = \/ unnoticed
                      \/ /\ restarted
                         /\ Overtaken(counter.in, in) \/ Overtaken(counter.out, out)
      /\ UNCHANGED <<kind, overlong, table, cut>>

\* A resumed session starts a new file with the entries of the one it resumes,
\* under the same ids: what the `seen` maps of these two adapters are for.
ResumeInNewFile(f, g) ==
  /\ kind \in {"claude", "antigravity"}
  /\ files[f] # <<>> /\ files[g] = <<>>
  /\ Written + Len(files[f]) <= MaxEntries
  /\ files' = [files EXCEPT ![g] = files[f]]
  /\ current' = FALSE
  /\ overlong' = IF f \in overlong THEN overlong \cup {g} ELSE overlong
  /\ UNCHANGED <<kind, table, spent, unnoticed, cut>>

\* claude writes a line that is no turn, but too long for the adapter.
WriteLongLine(f) ==
  /\ kind = "claude"
  /\ files[f] # <<>>
  /\ overlong' = overlong \cup {f}
  /\ current' = FALSE
  /\ UNCHANGED <<kind, files, table, spent, unnoticed, cut>>

\* A file is skipped while a later one of the same codex session is read: the
\* first line read there is compared with nothing, or with an older line.
Cuts(skipped) ==
  /\ kind = "codex"
  /\ \E s \in Session :
       \E g \in FilesOf(s) \cap skipped, f \in FilesOf(s) \ skipped : g < f

\* A collection run reads the files but those in skipped, which it cannot open
\* or parse just now: they add no event.
CollectRun(skipped) ==
  LET read == [f \in File |-> IF f \in skipped THEN <<>> ELSE files[f]]
  IN  /\ table' = FoldLeft(InsertOrIgnore, table, Emit(read))
      /\ current' = (current \/ skipped = {})
      /\ cut' = (cut \/ Cuts(skipped))
      /\ UNCHANGED <<kind, files, overlong, spent, unnoticed>>

Next ==
  \/ \E f \in File, in, out \in Tokens : \E s \in SessionsOf(f) :
       \E restarted \in BOOLEAN : WriteTurn(f, s, in, out, restarted)
  \/ \E f, g \in File : ResumeInNewFile(f, g)
  \/ \E f \in File : WriteLongLine(f)
  \/ \E skipped \in SUBSET File : CollectRun(skipped)

Spec == Init /\ [][Next]_vars

-----------------------------------------------------------------------------

Stored == MapThenSumSet(LAMBDA r : r.in + r.out, table)

\* Once every file has been read since the last turn, the stored tokens are
\* those spent: no turn is missed, stored twice or stored with a count that is
\* out of date, whatever was read, and skipped, in earlier runs.  What cannot be
\* made up for is a line too long to read, a reset that went unnoticed, a run that
\* cut a session in two, and of a copilot session the turns after the first run
\* that has seen it: its one row is never brought up to date.
AccountsForAll ==
  current /\ overlong = {} /\ ~unnoticed /\ ~cut /\ kind # "copilot" => Stored = spent

\* At no time, whatever was skipped, is more stored than was spent: a resumed
\* session's entries count once, and so does a token of a running total, in
\* whatever file the session goes on, as long as no run has cut it in two.
NeverOvercounts == ~cut => Stored <= spent

\* However often it is read, a turn has one row, under one key.
OneRowPerTurn == \A r, q \in table : r.turn = q.turn => r = q

\* Once every file has been read, a turn is stored unless every file that has it
\* has an overlong line: neither an unreadable file, nor an earlier run, nor the
\* `seen` map of a resumed session costs a turn that can be read somewhere.
ReadableTurnsAreStored ==
  current /\ kind \in {"claude", "antigravity"} =>
    \A f \in File \ overlong : \A i \in DOMAIN files[f] :
      SpendsTokens(files[f][i]) => \E r \in table : r.turn = files[f][i].id

\* Every stored row is what reading all the logs now would give, key and counts:
\* later turns, files or sessions, and files skipped when the row was stored,
\* have not changed it.  That is why a run may ignore the rows already stored.
\* The row of a copilot session is out of date, but of a session in the logs; and
\* what a run that has cut a codex session in two stores for a difference is a
\* running total of the session, or a part of it, and for good.
RowsAgreeWithLogs ==
  LET events == ToSet(Emit(files))
      Within(r, counts) == r.in <= counts.in /\ r.out <= counts.out
  IN  /\ kind # "copilot" /\ overlong = {} /\ ~cut => table \subseteq events
      /\ kind = "copilot" => \A r \in table : \E e \in events : e.key = r.key /\ Within(r, e)
      /\ kind = "codex" => \A r \in table : \E line \in Entries : line.id = r.key /\ Within(r, line)
=============================================================================

-------------------------------- MODULE Setup --------------------------------
(***************************************************************************)
(* Setting a machine up: `init`, `schedule`, `schedule --remove` and       *)
(* `fingerprint`, with what they share on the machine: the two key files   *)
(* and the deploy configuration under ~/.token-monitor, and the crontab.   *)
(*                                                                         *)
(* None of these commands takes a lock.  A file is truncated first and     *)
(* written afterwards, a PEM file in more than one write; the crontab is   *)
(* read by one command and replaced by another.  A process may be killed,  *)
(* or a system call may fail, between any two of these steps.              *)
(*                                                                         *)
(* A key pair is a number, counted from 1 in the order of generation: its  *)
(* fingerprint is that number too.  A crontab is a sequence of lines.      *)
(***************************************************************************)
EXTENDS Integers, Sequences, SequencesExt

CONSTANTS
  Proc,        \* the processes that run these commands
  Job,         \* the lines a user may put in the crontab
  Entry,       \* the line of the scheduler, with its marker
  MaxRuns,     \* bound: how many commands are run
  MaxFaults    \* bound: how many commands are interrupted

ASSUME EntryAssumption == Entry \notin Job
ASSUME BoundAssumption == MaxRuns \in Nat /\ MaxFaults \in Nat

VARIABLES
  priv,       \* signing-key.pem
  pub,        \* signing-key-pub.pem
  config,     \* config.json: "missing", "torn" (truncated) or "whole"
  crontab,    \* the lines of the user's crontab
  pc,         \* where each process is
  command,    \* the command it runs
  mine,       \* the key pair it has generated or loaded, or 0
  existing,   \* the crontab it has read
  announced,  \* the fingerprints init has printed for the team lead
  generated,  \* how many key pairs have been generated
  overlapped, \* whether two commands have run at the same time
  edited,     \* whether the user has edited the crontab while a command ran
  unlisted,   \* whether `crontab -l` has failed on a crontab that exists
  runs,       \* how many commands have been run
  faults      \* how many have been interrupted

keyVars == <<priv, pub, mine, generated>>
cronVars == <<crontab, existing>>
history == <<overlapped, edited, unlisted>>
bounds == <<runs, faults>>
vars == <<keyVars, config, cronVars, pc, command, announced, history, bounds>>

KeyPair == 1..MaxRuns
NoKey == 0

\* A PEM file: its first line, and the rest of it, are written one by one.
PemFile == [exists : BOOLEAN, head : BOOLEAN, key : KeyPair \cup {NoKey}]
Missing == [exists |-> FALSE, head |-> FALSE, key |-> NoKey]
Truncated == [exists |-> TRUE, head |-> FALSE, key |-> NoKey]
Readable(file) == file.head /\ file.key # NoKey

Command == {"init", "init --team", "schedule", "schedule --remove", "fingerprint"}
\* "ok" is an end with no error and no warning, "warned" one with no error but
\* with a warning, "failed" one with an error.
Stopped == {"idle", "ok", "warned", "failed", "interrupted"}
Creating == {"generate", "open priv", "head priv", "rest priv",
             "open pub", "head pub", "rest pub"}
Running == Creating \cup
  {"open config", "write config", "ensure key", "load key", "announce",
   "load config", "list", "install", "remove"}

TypeOK ==
  /\ priv \in PemFile /\ pub \in PemFile
  /\ config \in {"missing", "torn", "whole"}
  /\ crontab \in Seq(Job \cup {Entry})
  /\ pc \in [Proc -> Stopped \cup Running]
  /\ command \in [Proc -> Command]
  /\ mine \in [Proc -> KeyPair \cup {NoKey}]
  /\ existing \in [Proc -> Seq(Job \cup {Entry})]
  /\ announced \subseteq KeyPair
  /\ generated \in 0..MaxRuns
  /\ overlapped \in BOOLEAN
  /\ edited \in BOOLEAN
  /\ unlisted \in BOOLEAN
  /\ runs \in 0..MaxRuns
  /\ faults \in 0..MaxFaults

Init ==
  /\ priv = Missing /\ pub = Missing
  /\ config = "missing"
  /\ crontab = <<>>
  /\ pc = [p \in Proc |-> "idle"]
  /\ command = [p \in Proc |-> "fingerprint"]
  /\ mine = [p \in Proc |-> NoKey]
  /\ existing = [p \in Proc |-> <<>>]
  /\ announced = {}
  /\ generated = 0
  /\ overlapped = FALSE
  /\ edited = FALSE
  /\ unlisted = FALSE
  /\ runs = 0
  /\ faults = 0

Goto(p, label) == pc' = [pc EXCEPT ![p] = label]

-----------------------------------------------------------------------------

\* Mutant of FirstStep: a configuration that is there is not saved again, as a
\* key that is there is not created again.
FirstStepOnce(c) ==
  CASE c = "init" -> "ensure key"
    [] c = "init --team" -> IF config = "missing" THEN "open config" ELSE "ensure key"
    [] c = "schedule" -> "load config"
    [] c = "schedule --remove" -> "list"
    [] c = "fingerprint" -> "load key"

\* Of what the machine keeps, a command touches this first.
FirstStep(c) ==
  CASE c = "init" -> "ensure key"
    [] c = "init --team" -> "open config"
    [] c = "schedule" -> "load config"
    [] c = "schedule --remove" -> "list"
    [] c = "fingerprint" -> "load key"

\* A command starts, at the first of its steps.
Start(p, c) ==
  /\ pc[p] \in Stopped
  /\ runs < MaxRuns
  /\ runs' = runs + 1
  /\ overlapped' = (overlapped \/ \E q \in Proc : pc[q] \in Running)
  /\ command' = [command EXCEPT ![p] = c]
  /\ mine' = [mine EXCEPT ![p] = NoKey]
  /\ existing' = [existing EXCEPT ![p] = <<>>]
  /\ Goto(p, FirstStep(c))
  /\ UNCHANGED <<priv, pub, generated, config, crontab, announced, edited, unlisted, faults>>

\* init --team has fetched the team's configuration and saves it: os.WriteFile
\* truncates the file, and then writes it.
OpenConfig(p) ==
  /\ pc[p] = "open config"
  /\ config' = "torn"
  /\ Goto(p, "write config")
  /\ UNCHANGED <<keyVars, cronVars, command, announced, history, bounds>>

WriteConfig(p) ==
  /\ pc[p] = "write config"
  /\ config' = "whole"
  /\ Goto(p, "ensure key")
  /\ UNCHANGED <<keyVars, cronVars, command, announced, history, bounds>>

\* Mutants of KeyExists: the other file is looked for; none is looked for.
PublicKeyExists == pub.exists
NeverExists == FALSE

\* os.Stat finds signing-key.pem.
KeyExists == priv.exists

\* EnsureKeypair: the key is loaded if its file exists, whatever is in it.
EnsureKeypair(p) ==
  /\ pc[p] = "ensure key"
  /\ Goto(p, IF KeyExists THEN "load key" ELSE "generate")
  /\ UNCHANGED <<keyVars, config, cronVars, command, announced, history, bounds>>

\* Mutant of AfterLoad: the error of a file that is no key is not looked at.
AfterLoadUnchecked(p) == IF command[p] = "fingerprint" THEN "ok" ELSE "announce"

\* A file that holds no key ends the command.
AfterLoad(p) ==
  IF ~Readable(priv) THEN "failed"
  ELSE IF command[p] = "fingerprint" THEN "ok" ELSE "announce"

\* LoadKeypair reads the private key file only; the public key follows from it.
LoadKeypair(p) ==
  /\ pc[p] = "load key"
  /\ mine' = [mine EXCEPT ![p] = IF Readable(priv) THEN priv.key ELSE NoKey]
  /\ Goto(p, AfterLoad(p))
  /\ UNCHANGED <<priv, pub, generated, config, cronVars, command, announced, history, bounds>>

GenerateKey(p) ==
  /\ pc[p] = "generate"
  /\ generated' = generated + 1
  /\ mine' = [mine EXCEPT ![p] = generated + 1]
  /\ Goto(p, "open priv")
  /\ UNCHANGED <<priv, pub, config, cronVars, command, announced, history, bounds>>

\* writePEM, three times a step: the file is created or truncated, then the
\* BEGIN line is written, then the rest.  Each process writes at its own offset,
\* so that it fills in or overwrites what another has written at the same place.
WritePrivateKey(p) ==
  /\ \/ /\ pc[p] = "open priv"
        /\ priv' = Truncated
        /\ Goto(p, "head priv")
     \/ /\ pc[p] = "head priv"
        /\ priv' = [priv EXCEPT !.head = TRUE]
        /\ Goto(p, "rest priv")
     \/ /\ pc[p] = "rest priv"
        /\ priv' = [priv EXCEPT !.key = mine[p]]
        /\ Goto(p, "open pub")
  /\ UNCHANGED <<pub, mine, generated, config, cronVars, command, announced, history, bounds>>

WritePublicKey(p) ==
  /\ \/ /\ pc[p] = "open pub"
        /\ pub' = Truncated
        /\ Goto(p, "head pub")
     \/ /\ pc[p] = "head pub"
        /\ pub' = [pub EXCEPT !.head = TRUE]
        /\ Goto(p, "rest pub")
     \/ /\ pc[p] = "rest pub"
        /\ pub' = [pub EXCEPT !.key = mine[p]]
        /\ Goto(p, "announce")
  /\ UNCHANGED <<priv, mine, generated, config, cronVars, command, announced, history, bounds>>

\* init prints the fingerprint to share with the team lead.  It then collects
\* once (see EventCollection) and loads the configuration; it takes no notice
\* of a failure of either.
Announce(p) ==
  /\ pc[p] = "announce"
  /\ announced' = announced \cup {mine[p]}
  /\ Goto(p, "list")
  /\ UNCHANGED <<keyVars, config, cronVars, command, history, bounds>>

\* schedule loads the configuration, and gives up if it cannot be parsed.
LoadConfig(p) ==
  /\ pc[p] = "load config"
  /\ Goto(p, IF config = "torn" THEN "failed" ELSE "list")
  /\ UNCHANGED <<keyVars, config, cronVars, command, announced, history, bounds>>

\* Mutants of AfterList: the marker is not looked for; any line is taken for it.
AfterListUnmarked(p, lines) ==
  IF command[p] = "schedule --remove" THEN "remove" ELSE "install"
AfterListAnyLine(p, lines) ==
  IF command[p] = "schedule --remove" THEN "remove"
  ELSE IF lines # <<>> THEN "ok" ELSE "install"

\* The step after the crontab was found to hold the given lines: there is
\* nothing to install when the marker is in it.
AfterList(p, lines) ==
  IF command[p] = "schedule --remove" THEN "remove"
  ELSE IF Contains(lines, Entry) THEN "ok" ELSE "install"

\* currentCrontab succeeds.
ListCrontab(p) ==
  /\ pc[p] = "list"
  /\ existing' = [existing EXCEPT ![p] = crontab]
  /\ Goto(p, AfterList(p, crontab))
  /\ UNCHANGED <<keyVars, config, crontab, command, announced, history, bounds>>

\* currentCrontab fails: Install takes the crontab to be empty, Remove returns.
\* `crontab -l` does fail when the user has no crontab.
ListCrontabFails(p) ==
  /\ pc[p] = "list"
  /\ unlisted' = (unlisted \/ crontab # <<>>)
  /\ existing' = [existing EXCEPT ![p] = <<>>]
  /\ Goto(p, IF command[p] = "schedule --remove" THEN "ok" ELSE "install")
  /\ UNCHANGED <<keyVars, config, crontab, command, announced, overlapped, edited, bounds>>

\* setCrontab succeeds: it replaces the whole crontab.
Install(p) ==
  /\ pc[p] = "install"
  /\ crontab' = Append(existing[p], Entry)
  /\ Goto(p, "ok")
  /\ UNCHANGED <<keyVars, config, existing, command, announced, history, bounds>>

\* setCrontab fails, and leaves the crontab as it is: schedule fails, but init
\* only prints a warning and ends without an error.
InstallFails(p) ==
  /\ pc[p] = "install"
  /\ Goto(p, IF command[p] = "schedule" THEN "failed" ELSE "warned")
  /\ UNCHANGED <<keyVars, config, cronVars, command, announced, history, bounds>>

\* Mutant of Kept: `crontab -r`, which removes the whole crontab.
KeptNothing(lines) == <<>>

\* The lines without the marker, in their order.
Kept(lines) ==
  FoldLeft(LAMBDA kept, line : IF line = Entry THEN kept ELSE Append(kept, line),
           <<>>, lines)

RemoveEntry(p) ==
  /\ pc[p] = "remove"
  /\ crontab' = Kept(existing[p])
  /\ Goto(p, "ok")
  /\ UNCHANGED <<keyVars, config, existing, command, announced, history, bounds>>

\* setCrontab fails: the removal fails.
RemoveFails(p) ==
  /\ pc[p] = "remove"
  /\ Goto(p, "failed")
  /\ UNCHANGED <<keyVars, config, cronVars, command, announced, history, bounds>>

\* The process is killed, or a file or the team's configuration that it depends
\* on cannot be read or written.
Interrupt(p) ==
  /\ pc[p] \in Running
  /\ faults < MaxFaults
  /\ faults' = faults + 1
  /\ Goto(p, "interrupted")
  /\ UNCHANGED <<keyVars, config, cronVars, command, announced, history, runs>>

\* The user puts a line of theirs in the crontab.
AddJob(j) ==
  /\ ~Contains(crontab, j)
  /\ crontab' = Append(crontab, j)
  /\ edited' = (edited \/ \E q \in Proc : pc[q] \in Running)
  /\ UNCHANGED <<keyVars, config, existing, pc, command, announced, overlapped, unlisted, bounds>>

Step(p) ==
  \/ OpenConfig(p) \/ WriteConfig(p)
  \/ EnsureKeypair(p) \/ LoadKeypair(p) \/ GenerateKey(p)
  \/ WritePrivateKey(p) \/ WritePublicKey(p)
  \/ Announce(p)
  \/ LoadConfig(p)
  \/ ListCrontab(p) \/ ListCrontabFails(p)
  \/ Install(p) \/ InstallFails(p)
  \/ RemoveEntry(p) \/ RemoveFails(p)

Next ==
  \/ \E p \in Proc :
       \/ \E c \in Command : Start(p, c)
       \/ Step(p)
       \/ Interrupt(p)
  \/ \E j \in Job : AddJob(j)

Spec == Init /\ [][Next]_vars

-----------------------------------------------------------------------------
(* The signing identity. *)

\* There is a usable key, and no process is at creating one.
Settled == Readable(priv) /\ \A p \in Proc : pc[p] \notin Creating

\* From then on no process ever creates another: a later init, a failed one and
\* an interrupted one leave the machine's identity alone.
SettledIdentityIsKept == [][Settled => Settled' /\ priv' = priv]_vars

\* The fingerprint that init has told the user to share is the fingerprint of
\* the key the machine will sign with from then on.
SharedFingerprintSigns == \A k \in announced : Readable(priv) /\ priv.key = k

\* One command at a time, interrupted anywhere and run again, keeps to that.
SharedFingerprintSignsAlone == ~overlapped => SharedFingerprintSigns

\* Nor do the two key files then hold the halves of different pairs.
KeyFilesMatch ==
  ~overlapped /\ Readable(priv) /\ Readable(pub) => priv.key = pub.key

(* The configuration. *)

\* No command that needs the configuration ends well and leaves a torn one: an
\* init --team that was cut off within Save is repaired by the next, and until
\* then schedule fails.  It takes two commands at once to tear the configuration
\* of one that ends well.
ConfigIsSound ==
  [][~overlapped' =>
       \A p \in Proc : pc[p] \in Running /\ pc'[p] \in {"ok", "warned"} =>
         /\ command[p] = "init --team" => config' = "whole"
         /\ command[p] = "schedule" => config' # "torn"]_vars

(* The schedule. *)

\* collect is scheduled at most once, however inits, schedules, removals and
\* the user's own edits interleave.
OneEntry ==
  \A i, j \in DOMAIN crontab : crontab[i] = Entry /\ crontab[j] = Entry => i = j

\* What the user put in the crontab stays in it, however installs and removals
\* overlap: Install appends a line, and Remove removes only the line with the
\* marker.  It takes an edit while a command runs, or a crontab that could not
\* be listed, to lose a line.
TheirLinesAreKept ==
  [][~edited' /\ ~unlisted' => ToSet(crontab) \ {Entry} \subseteq ToSet(crontab')]_vars

\* A command that ends without an error or a warning has had its effect on the
\* schedule, whatever other commands did, do, or left undone, and whatever the
\* user adds meanwhile, as long as the crontab can be listed.  (An init that
\* ends without an error may have printed a warning: then it has installed
\* nothing.)
ScheduleIsAsReported ==
  [][~unlisted' =>
       \A p \in Proc : pc[p] # "ok" /\ pc'[p] = "ok" /\ command[p] # "fingerprint" =>
         (Contains(crontab', Entry) <=> command[p] # "schedule --remove")]_vars
=============================================================================

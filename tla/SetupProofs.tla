---------------------------- MODULE SetupProofs ----------------------------
(***************************************************************************)
(* Setup commands, for any number of processes, runs and interruptions.    *)
(* A usable key that nobody is at creating is never replaced.  While no    *)
(* two commands have run at once, the key files match and the announced    *)
(* fingerprint is that of the key which signs.  However commands overlap,  *)
(* the crontab has one entry, as reported, and keeps the user's lines.     *)
(***************************************************************************)
EXTENDS Setup, FiniteSetTheorems, FoldLemmas, TLAPS

\* What the proof needs to know of the reachable states: the process counters
\* are typed, and a private key file with anything in it exists.
KeyInv ==
  /\ pc \in [Proc -> Stopped \cup Running]
  /\ \A p \in Proc : pc[p] \in {"head priv", "rest priv"} => priv.exists
  /\ priv.exists \in BOOLEAN
  /\ priv = [exists |-> priv.exists, head |-> priv.head, key |-> priv.key]
  /\ Readable(priv) => priv.exists

\* The first step of every command is a step.
LEMMA GotoLemma ==
  ASSUME NEW p \in Proc, NEW label \in Stopped \cup Running,
         pc \in [Proc -> Stopped \cup Running], Goto(p, label)
  PROVE  /\ pc' \in [Proc -> Stopped \cup Running]
         /\ pc'[p] = label
         /\ \A q \in Proc : q # p => pc'[q] = pc[q]
BY DEF Goto

\* A step that leaves the private key file alone, and takes its process to a
\* label other than the two that need the file, keeps the invariant.
LEMMA QuietStep ==
  ASSUME KeyInv, UNCHANGED priv, NEW p \in Proc, NEW label \in Stopped \cup Running,
         Goto(p, label), label \in {"head priv", "rest priv"} => priv.exists
  PROVE  KeyInv'
BY GotoLemma DEF KeyInv, Readable

\* Every step of these commands but a write of the private key, and the user's
\* edits, leave the file alone and go to some label.
LEMMA KeyStep == KeyInv /\ [Next]_vars => KeyInv'
<1> SUFFICES ASSUME KeyInv, [Next]_vars PROVE KeyInv'
  OBVIOUS
<1> USE DEF Stopped, Running, Creating, keyVars, cronVars, history, bounds
<1>1. ASSUME NEW p \in Proc, NEW c \in Command, Start(p, c) PROVE KeyInv'
  BY <1>1, QuietStep DEF Start, FirstStep, Command
<1>2. ASSUME NEW p \in Proc, OpenConfig(p) \/ WriteConfig(p) PROVE KeyInv'
  BY <1>2, QuietStep DEF OpenConfig, WriteConfig
<1>3. ASSUME NEW p \in Proc, EnsureKeypair(p) PROVE KeyInv'
  BY <1>3, QuietStep DEF EnsureKeypair
<1>4. ASSUME NEW p \in Proc, LoadKeypair(p) PROVE KeyInv'
  BY <1>4, QuietStep DEF LoadKeypair, AfterLoad
<1>5. ASSUME NEW p \in Proc, GenerateKey(p) PROVE KeyInv'
  BY <1>5, QuietStep DEF GenerateKey
<1>6. ASSUME NEW p \in Proc, WritePrivateKey(p) PROVE KeyInv'
  <2>1. CASE pc[p] = "open priv"
    <3>1. priv' = [exists |-> TRUE, head |-> FALSE, key |-> NoKey]
      BY <1>6, <2>1 DEF WritePrivateKey, Truncated
    <3>2. Goto(p, "head priv")
      BY <1>6, <2>1 DEF WritePrivateKey
    <3> QED
      BY <3>1, <3>2, GotoLemma DEF KeyInv, Readable
  <2>2. CASE pc[p] = "head priv"
    <3>1. priv.exists
      BY <2>2 DEF KeyInv
    <3>2. priv' = [exists |-> priv.exists, head |-> TRUE, key |-> priv.key]
      BY <1>6, <2>2 DEF WritePrivateKey, KeyInv
    <3>3. Goto(p, "rest priv")
      BY <1>6, <2>2 DEF WritePrivateKey
    <3> QED
      BY <3>1, <3>2, <3>3, GotoLemma DEF KeyInv, Readable
  <2>3. CASE pc[p] = "rest priv"
    <3>1. priv.exists
      BY <2>3 DEF KeyInv
    <3>2. priv' = [exists |-> priv.exists, head |-> priv.head, key |-> mine[p]]
      BY <1>6, <2>3 DEF WritePrivateKey, KeyInv
    <3>3. Goto(p, "open pub")
      BY <1>6, <2>3 DEF WritePrivateKey
    <3> QED
      BY <3>1, <3>2, <3>3, GotoLemma DEF KeyInv, Readable
  <2> QED
    BY <1>6, <2>1, <2>2, <2>3 DEF WritePrivateKey
<1>7. ASSUME NEW p \in Proc, WritePublicKey(p) PROVE KeyInv'
  BY <1>7, QuietStep DEF WritePublicKey
<1>8. ASSUME NEW p \in Proc, Announce(p) \/ LoadConfig(p) PROVE KeyInv'
  BY <1>8, QuietStep DEF Announce, LoadConfig
<1>9. ASSUME NEW p \in Proc, ListCrontab(p) \/ ListCrontabFails(p) PROVE KeyInv'
  BY <1>9, QuietStep DEF ListCrontab, AfterList, ListCrontabFails
<1>10. ASSUME NEW p \in Proc,
              Install(p) \/ InstallFails(p) \/ RemoveEntry(p) \/ RemoveFails(p)
       PROVE  KeyInv'
  BY <1>10, QuietStep DEF Install, InstallFails, RemoveEntry, RemoveFails
<1>11. ASSUME NEW p \in Proc, Interrupt(p) PROVE KeyInv'
  BY <1>11, QuietStep DEF Interrupt
<1>12. CASE UNCHANGED <<priv, pc>>
  BY <1>12 DEF KeyInv, Readable
<1> QED
  BY <1>1, <1>2, <1>3, <1>4, <1>5, <1>6, <1>7, <1>8, <1>9, <1>10, <1>11, <1>12
     DEF Next, Step, AddJob, vars

LEMMA KeyInvariant == Spec => []KeyInv
<1>1. Init => KeyInv
  BY DEF Init, KeyInv, Missing, Readable, NoKey, Stopped
<1> QED
  BY <1>1, KeyStep, PTL DEF Spec

\* In a settled state only EnsureKeypair decides whether to create a key, and
\* the file it finds makes it load that key instead.
LEMMA SettledStep ==
  ASSUME KeyInv, [Next]_vars, Settled
  PROVE  Settled' /\ priv' = priv
<1> USE DEF Stopped, Running, Creating, keyVars, cronVars, history, bounds
<1>1. ASSUME NEW p \in Proc, NEW label \in (Stopped \cup Running) \ Creating,
             Goto(p, label), UNCHANGED priv
      PROVE  Settled' /\ priv' = priv
  BY <1>1, GotoLemma DEF Settled, KeyInv, Readable
<1>2. ASSUME NEW p \in Proc, NEW c \in Command, Start(p, c)
      PROVE  Settled' /\ priv' = priv
  BY <1>1, <1>2 DEF Start, FirstStep, Command
<1>3. ASSUME NEW p \in Proc, OpenConfig(p) \/ WriteConfig(p)
      PROVE  Settled' /\ priv' = priv
  BY <1>1, <1>3 DEF OpenConfig, WriteConfig
<1>4. ASSUME NEW p \in Proc, EnsureKeypair(p) PROVE Settled' /\ priv' = priv
  BY <1>1, <1>4 DEF EnsureKeypair, KeyExists, KeyInv, Settled
<1>5. ASSUME NEW p \in Proc, LoadKeypair(p) PROVE Settled' /\ priv' = priv
  BY <1>1, <1>5 DEF LoadKeypair, AfterLoad
<1>6. ASSUME NEW p \in Proc, Announce(p) \/ LoadConfig(p)
      PROVE  Settled' /\ priv' = priv
  BY <1>1, <1>6 DEF Announce, LoadConfig
<1>7. ASSUME NEW p \in Proc, ListCrontab(p) \/ ListCrontabFails(p)
      PROVE  Settled' /\ priv' = priv
  BY <1>1, <1>7 DEF ListCrontab, AfterList, ListCrontabFails
<1>8. ASSUME NEW p \in Proc,
             Install(p) \/ InstallFails(p) \/ RemoveEntry(p) \/ RemoveFails(p)
      PROVE  Settled' /\ priv' = priv
  BY <1>1, <1>8 DEF Install, InstallFails, RemoveEntry, RemoveFails
<1>9. ASSUME NEW p \in Proc, Interrupt(p) PROVE Settled' /\ priv' = priv
  BY <1>1, <1>9 DEF Interrupt
<1>10. ASSUME NEW p \in Proc, GenerateKey(p) \/ WritePrivateKey(p) \/ WritePublicKey(p)
       PROVE  FALSE
  BY <1>10 DEF GenerateKey, WritePrivateKey, WritePublicKey, Settled
<1>11. CASE UNCHANGED <<priv, pc>>
  BY <1>11 DEF Settled, Readable
<1> QED
  BY <1>2, <1>3, <1>4, <1>5, <1>6, <1>7, <1>8, <1>9, <1>10, <1>11
     DEF Next, Step, AddJob, vars

\* Once settled, the machine's key is never replaced and no process creates one.
THEOREM SettledIdentityIsKeptHolds == Spec => SettledIdentityIsKept
<1>1. KeyInv /\ [Next]_vars => [Settled => Settled' /\ priv' = priv]_vars
  BY SettledStep
<1> QED
  BY <1>1, KeyInvariant, PTL DEF Spec, SettledIdentityIsKept

-----------------------------------------------------------------------------
(* What `crontab` keeps of its lines. *)

\* Kept folds the lines one after the other.
LEMMA KeptLemma ==
  ASSUME NEW L, NEW lines \in Seq(L)
  PROVE  \E g \in [0..Len(lines) -> Seq(L)] :
           /\ g[0] = <<>>
           /\ \A k \in 0..(Len(lines) - 1) :
                g[k + 1] = IF lines[k + 1] = Entry THEN g[k] ELSE Append(g[k], lines[k + 1])
           /\ Kept(lines) = g[Len(lines)]
<1> DEFINE n == Len(lines)
           S == Seq(L)
           step == [k \in 1..n |-> [s \in S |-> IF lines[k] = Entry THEN s ELSE Append(s, lines[k])]]
           F(f) == [s \in SUBSET (1..n) |->
                      IF s = {} THEN <<>>
                      ELSE IF lines[Max(s)] = Entry THEN f[s \ {Max(s)}]
                           ELSE Append(f[s \ {Max(s)}], lines[Max(s)])]
           it == CHOOSE f : f = F(f)
<1>1. n \in Nat /\ <<>> \in S /\ step \in [1..n -> [S -> S]]
  OBVIOUS
<1>2. Kept(lines) = it[1..n]
  BY DOMAIN lines = 1..n DEF Kept, FoldLeft, MapThenFoldSet
<1>a. IsStep(step, n, S)
  <2> HIDE DEF n, S
  <2>1. step \in [1..n -> [S -> S]]
    BY <1>1
  <2> QED
    BY <2>1 DEF IsStep
<1>b. /\ \E f \in [SUBSET (1..n) -> S] : Folds(f, n, <<>>, step)
      /\ \E g \in [0..n -> S] : TakesSteps(g, n, <<>>, step)
  <2> HIDE DEF n, S, step
  <2> QED
    BY <1>1, <1>a, FoldLemma
<1>c. PICK f0 \in [SUBSET (1..n) -> S] : Folds(f0, n, <<>>, step)
  BY <1>b
<1>3. PICK g \in [0..n -> S] : TakesSteps(g, n, <<>>, step)
  BY <1>b
<1>4. ASSUME NEW s \in SUBSET (1..n), s # {}
      PROVE  Max(s) \in 1..n
  BY <1>1, <1>4, MaxOfInterval
<1>5. f0 = F(f0)
  <2>1. ASSUME NEW s \in SUBSET (1..n)
        PROVE  f0[s] = F(f0)[s]
    <3>1. CASE s = {}
      BY <1>c, <3>1 DEF Folds
    <3>2. CASE s # {}
      <4>1. f0[s] = step[Max(s)][f0[s \ {Max(s)}]]
        BY <1>c, <3>2 DEF Folds
      <4>2. Max(s) \in 1..n /\ f0[s \ {Max(s)}] \in S
        BY <1>4, <3>2
      <4> QED
        BY <3>2, <4>1, <4>2
    <3> QED
      BY <3>1, <3>2
  <2>2. DOMAIN f0 = SUBSET (1..n) /\ DOMAIN F(f0) = SUBSET (1..n)
    OBVIOUS
  <2>3. f0 = [s \in SUBSET (1..n) |-> f0[s]] /\ F(f0) = [s \in SUBSET (1..n) |-> F(f0)[s]]
    OBVIOUS
  <2> HIDE DEF F
  <2> QED
    BY <2>1, <2>3
<1>6. it = F(it)
  <2> HIDE DEF F
  <2> QED
    BY <1>5
<1>8. ASSUME NEW k \in 0..(n - 1)
      PROVE  g[k + 1] = IF lines[k + 1] = Entry THEN g[k] ELSE Append(g[k], lines[k + 1])
  <2>1. k \in 0..n /\ k + 1 \in 1..n /\ g[k] \in S
    BY <1>1
  <2>2. g[k + 1] = step[k + 1][g[k]]
    BY <1>3 DEF TakesSteps
  <2> QED
    BY <2>1, <2>2
<1>9. ASSUME NEW k \in 0..(n - 1)
      PROVE  it[1..(k + 1)] = IF lines[k + 1] = Entry THEN it[1..k] ELSE Append(it[1..k], lines[k + 1])
  <2>1. 1..(k + 1) \in SUBSET (1..n) /\ 1..(k + 1) # {} /\ (1..(k + 1)) \ {k + 1} = 1..k
    BY <1>1
  <2>2. Max(1..(k + 1)) = k + 1
    <3>1. 1..(k + 1) \in SUBSET Int /\ k + 1 \in 1..(k + 1) /\ \A x \in 1..(k + 1) : x <= k + 1
      OBVIOUS
    <3> QED
      BY <3>1, MaxIs
  <2>3. it[1..(k + 1)] = F(it)[1..(k + 1)]
    BY <1>6
  <2> HIDE DEF it
  <2> QED
    BY <2>1, <2>2, <2>3
<1>10. it[1..0] = <<>>
  <2>1. 1..0 = {} /\ {} \in SUBSET (1..n)
    OBVIOUS
  <2>2. it[{}] = F(it)[{}]
    BY <1>6
  <2> HIDE DEF it
  <2> QED
    BY <2>1, <2>2
<1>11. it[1..n] = g[n]
  <2> DEFINE T == {k \in Nat : k <= n => it[1..k] = g[k]}
  <2>1. 0 \in T
    BY <1>3, <1>10 DEF TakesSteps
  <2>2. \A k \in Nat : k \in T => k + 1 \in T
    <3> HIDE DEF it, F, step, S
    <3> QED BY <1>1, <1>8, <1>9
  <2> HIDE DEF T
  <2>3. n \in T
    BY <1>1, <2>1, <2>2, Induction
  <2> HIDE DEF it
  <2> QED
    BY <2>3, <1>1 DEF T
<1> HIDE DEF it, step, F
<1>12. g[0] = <<>>
  BY <1>3 DEF TakesSteps
<1> QED
  BY <1>2, <1>8, <1>11, <1>12

\* A sequence that a line is appended to has its lines and that one.
LEMMA AppendedLines ==
  ASSUME NEW L, NEW lines \in Seq(L), NEW line \in L
  PROVE  ToSet(Append(lines, line)) = ToSet(lines) \cup {line}
<1>1. /\ Append(lines, line) \in Seq(L) /\ Len(Append(lines, line)) = Len(lines) + 1
      /\ \A i \in 1..Len(lines) : Append(lines, line)[i] = lines[i]
      /\ Append(lines, line)[Len(lines) + 1] = line
  OBVIOUS
<1>2. DOMAIN lines = 1..Len(lines) /\ Len(lines) \in Nat
  OBVIOUS
<1>3. DOMAIN Append(lines, line) = 1..(Len(lines) + 1)
  BY <1>1
<1> QED
  BY <1>1, <1>2, <1>3 DEF ToSet

\* Of the lines it keeps those that are not the entry.
LEMMA KeptLines ==
  ASSUME NEW L, NEW lines \in Seq(L)
  PROVE  Kept(lines) \in Seq(L) /\ ToSet(Kept(lines)) = ToSet(lines) \ {Entry}
<1> DEFINE n == Len(lines)
<1>1. PICK g \in [0..n -> Seq(L)] :
        /\ g[0] = <<>>
        /\ \A k \in 0..(n - 1) :
             g[k + 1] = IF lines[k + 1] = Entry THEN g[k] ELSE Append(g[k], lines[k + 1])
        /\ Kept(lines) = g[n]
  BY KeptLemma
<1>2. n \in Nat
  OBVIOUS
<1> DEFINE Of(k) == {lines[i] : i \in 1..k} \ {Entry}
           T == {k \in Nat : k <= n => ToSet(g[k]) = Of(k)}
<1>3. 0 \in T
  BY <1>1, <1>2 DEF ToSet
<1>4. ASSUME NEW k \in Nat, k \in T PROVE k + 1 \in T
  <2> SUFFICES ASSUME k + 1 <= n PROVE ToSet(g[k + 1]) = Of(k + 1)
    OBVIOUS
  <2>1. k \in 0..(n - 1) /\ k \in 0..n /\ g[k] \in Seq(L) /\ lines[k + 1] \in L
    <3>1. k \in 0..(n - 1) /\ k \in 0..n /\ k + 1 \in 1..n
      BY <1>2
    <3>2. \A i \in 1..n : lines[i] \in L
      OBVIOUS
    <3> HIDE DEF n, T
    <3> QED
      BY <3>1, <3>2
  <2>2. ToSet(g[k]) = Of(k)
    BY <1>2, <1>4
  <2>3. {lines[i] : i \in 1..(k + 1)} = {lines[i] : i \in 1..k} \cup {lines[k + 1]}
    BY <1>2, <2>1
  <2>4. CASE lines[k + 1] = Entry
    BY <1>1, <2>1, <2>2, <2>3, <2>4
  <2>5. CASE lines[k + 1] # Entry
    <3>1. g[k + 1] = Append(g[k], lines[k + 1])
      BY <1>1, <2>1, <2>5
    <3>2. ToSet(Append(g[k], lines[k + 1])) = ToSet(g[k]) \cup {lines[k + 1]}
      BY <2>1, AppendedLines
    <3> QED
      BY <2>2, <2>3, <2>5, <3>1, <3>2
  <2> QED
    BY <2>4, <2>5
<1> HIDE DEF T
<1>5. n \in T
  BY <1>2, <1>3, <1>4, Induction
<1>6. ToSet(g[n]) = Of(n)
  BY <1>5 DEF T
<1>7. Of(n) = ToSet(lines) \ {Entry}
  BY DEF ToSet
<1> QED
  BY <1>1, <1>2, <1>6, <1>7

-----------------------------------------------------------------------------
(* Type correctness. *)

\* The processes that may still generate a key pair.
Pending ==
  {p \in Proc : pc[p] \in {"open config", "write config", "ensure key", "generate"}}

\* Of a process that writes or announces its key pair, that it has one.
Keyed ==
  \A p \in Proc :
    pc[p] \in {"open priv", "head priv", "rest priv", "open pub", "head pub", "rest pub",
               "announce"} => mine[p] # NoKey

\* A command generates one key pair at most, so that their numbers are enough.
TypeInv ==
  /\ TypeOK
  /\ IsFiniteSet(Pending)
  /\ generated + Cardinality(Pending) <= runs

\* A step that takes no process to where it may generate keeps the count.
LEMMA CountKept ==
  ASSUME TypeInv, UNCHANGED <<generated, runs>>, Pending' \subseteq Pending
  PROVE  IsFiniteSet(Pending') /\ generated' + Cardinality(Pending') <= runs'
<1>1. IsFiniteSet(Pending') /\ Cardinality(Pending') <= Cardinality(Pending)
  BY FS_Subset DEF TypeInv
<1>2. Cardinality(Pending) \in Nat /\ Cardinality(Pending') \in Nat
  BY <1>1, FS_CardinalityType DEF TypeInv
<1>3. generated \in Nat /\ runs \in Nat
  BY BoundAssumption DEF TypeInv, TypeOK
<1> QED
  BY <1>1, <1>2, <1>3 DEF TypeInv

\* Such a step is one from or to a label where this is decided.
LEMMA GotoCount ==
  ASSUME TypeInv, NEW p \in Proc, NEW label \in Stopped \cup Running, Goto(p, label),
         UNCHANGED <<generated, runs>>,
         \/ label \notin {"open config", "write config", "ensure key", "generate"}
         \/ pc[p] \in {"open config", "write config", "ensure key", "generate"}
  PROVE  /\ pc' \in [Proc -> Stopped \cup Running]
         /\ IsFiniteSet(Pending') /\ generated' + Cardinality(Pending') <= runs'
<1>1. /\ pc' \in [Proc -> Stopped \cup Running]
      /\ pc'[p] = label /\ \A q \in Proc : q # p => pc'[q] = pc[q]
  BY GotoLemma DEF TypeInv, TypeOK
<1>2. Pending' \subseteq Pending
  BY <1>1 DEF Pending
<1> QED
  BY <1>1, <1>2, CountKept

\* What a write makes of a PEM file is one.
LEMMA FilesStayTyped ==
  ASSUME NEW file \in PemFile, NEW key \in KeyPair \cup {NoKey}
  PROVE  /\ Truncated \in PemFile
         /\ [file EXCEPT !.head = TRUE] \in PemFile
         /\ [file EXCEPT !.key = key] \in PemFile
BY DEF PemFile, Truncated

LEMMA StartType ==
  ASSUME TypeInv, NEW p \in Proc, NEW c \in Command, Start(p, c)
  PROVE  TypeInv'
<1> DEFINE label == FirstStep(c)
<1>0. /\ runs < MaxRuns /\ runs' = runs + 1
      /\ command' = [command EXCEPT ![p] = c]
      /\ mine' = [mine EXCEPT ![p] = NoKey]
      /\ existing' = [existing EXCEPT ![p] = <<>>]
      /\ Goto(p, label)
      /\ UNCHANGED <<priv, pub, generated, config, crontab, announced, edited, unlisted, faults>>
  BY Zenon DEF Start
<1>1. label \in Stopped \cup Running /\ Goto(p, label)
  BY <1>0 DEF FirstStep, Command, Stopped, Running, Creating
<1> HIDE DEF label
<1>2. /\ pc' \in [Proc -> Stopped \cup Running]
      /\ \A q \in Proc : q # p => pc'[q] = pc[q]
  BY <1>1, GotoLemma DEF TypeInv, TypeOK
<1>3. runs \in Nat /\ runs' = runs + 1 /\ runs' \in 0..MaxRuns
  <2>1. runs \in 0..MaxRuns
    BY DEF TypeInv, TypeOK
  <2> QED
    BY <1>0, <2>1, BoundAssumption
<1>4. TypeOK'
  <2>1. overlapped' \in BOOLEAN
    BY Zenon DEF Start
  <2>2. /\ command \in [Proc -> Command] /\ mine \in [Proc -> KeyPair \cup {NoKey}]
        /\ existing \in [Proc -> Seq(Job \cup {Entry})]
    BY DEF TypeInv, TypeOK
  <2>3. command' \in [Proc -> Command] /\ mine' \in [Proc -> KeyPair \cup {NoKey}]
    BY <1>0, <2>2
  <2>4. existing' \in [Proc -> Seq(Job \cup {Entry})]
    <3>1. <<>> \in Seq(Job \cup {Entry})
      OBVIOUS
    <3> QED
      BY <1>0, <2>2, <3>1
  <2>5. UNCHANGED <<priv, pub, generated, config, crontab, announced, edited, unlisted, faults>>
    BY <1>0
  <2> QED
    BY <1>2, <1>3, <2>1, <2>3, <2>4, <2>5 DEF TypeInv, TypeOK
<1>5. Pending' \subseteq Pending \cup {p}
  BY <1>2 DEF Pending
<1>6. /\ IsFiniteSet(Pending \cup {p})
      /\ Cardinality(Pending \cup {p}) <= Cardinality(Pending) + 1
  <2>1. IsFiniteSet(Pending) /\ Cardinality(Pending) \in Nat
    BY FS_CardinalityType DEF TypeInv
  <2>2. IsFiniteSet(Pending \cup {p})
    BY <2>1, FS_AddElement
  <2>3. Cardinality(Pending \cup {p}) =
          IF p \in Pending THEN Cardinality(Pending) ELSE Cardinality(Pending) + 1
    BY <2>1, FS_AddElement
  <2> QED
    BY <2>1, <2>2, <2>3
<1>7. /\ IsFiniteSet(Pending') /\ Cardinality(Pending') <= Cardinality(Pending \cup {p})
      /\ Cardinality(Pending') \in Nat /\ Cardinality(Pending \cup {p}) \in Nat
      /\ Cardinality(Pending) \in Nat
  BY <1>5, <1>6, FS_Subset, FS_CardinalityType DEF TypeInv
<1>8. generated \in Nat /\ generated' = generated
      /\ generated + Cardinality(Pending) <= runs
  <2>1. generated \in 0..MaxRuns /\ generated + Cardinality(Pending) <= runs
    BY DEF TypeInv, TypeOK
  <2> QED
    BY <1>0, <2>1, BoundAssumption
<1> QED
  BY <1>3, <1>4, <1>6, <1>7, <1>8 DEF TypeInv

LEMMA GenerateType ==
  ASSUME TypeInv, NEW p \in Proc, GenerateKey(p)
  PROVE  TypeInv'
<1>1. /\ pc' \in [Proc -> Stopped \cup Running]
      /\ pc'[p] = "open priv" /\ \A q \in Proc : q # p => pc'[q] = pc[q]
  BY GotoLemma DEF TypeInv, TypeOK, GenerateKey, Stopped, Running, Creating
<1>2. p \in Pending /\ Pending' = Pending \ {p}
  BY <1>1 DEF Pending, GenerateKey
<1>3. /\ IsFiniteSet(Pending') /\ Cardinality(Pending') = Cardinality(Pending) - 1
      /\ Cardinality(Pending') \in Nat /\ Cardinality(Pending) \in Nat
  BY <1>2, FS_RemoveElement, FS_CardinalityType DEF TypeInv
<1>4. /\ generated \in Nat /\ runs \in 0..MaxRuns /\ generated' = generated + 1
      /\ runs' = runs /\ generated + Cardinality(Pending) <= runs
  <2>1. generated \in 0..MaxRuns /\ runs \in 0..MaxRuns
        /\ generated + Cardinality(Pending) <= runs
    BY DEF TypeInv, TypeOK
  <2>2. generated' = generated + 1 /\ runs' = runs
    BY DEF GenerateKey, bounds
  <2>3. generated \in Nat
    BY <2>1, BoundAssumption
  <2> QED
    BY <2>1, <2>2, <2>3
<1>5. generated + 1 \in 0..MaxRuns /\ generated + 1 \in KeyPair
  BY <1>3, <1>4, BoundAssumption DEF KeyPair
<1>6. TypeOK'
  BY <1>1, <1>4, <1>5 DEF TypeInv, TypeOK, GenerateKey, cronVars, history, bounds
<1> QED
  BY <1>3, <1>4, <1>6 DEF TypeInv

LEMMA TypeStep == TypeInv /\ Keyed /\ [Next]_vars => TypeInv'
<1> SUFFICES ASSUME TypeInv, Keyed, [Next]_vars PROVE TypeInv'
  OBVIOUS
<1> USE DEF Stopped, Running, Creating, keyVars, cronVars, history, bounds
<1>1. TypeOK
  BY DEF TypeInv
<1>2. ASSUME NEW p \in Proc, OpenConfig(p) \/ WriteConfig(p) PROVE TypeInv'
  <2>1. TypeOK'
    BY <1>1, <1>2, GotoLemma DEF OpenConfig, WriteConfig, TypeOK
  <2> QED
    BY <1>2, <2>1, GotoCount DEF OpenConfig, WriteConfig, TypeInv
<1>3. ASSUME NEW p \in Proc, EnsureKeypair(p) PROVE TypeInv'
  <2>1. TypeOK'
    BY <1>1, <1>3, GotoLemma DEF EnsureKeypair, TypeOK
  <2> QED
    BY <1>3, <2>1, GotoCount DEF EnsureKeypair, TypeInv
<1>4. ASSUME NEW p \in Proc, LoadKeypair(p) PROVE TypeInv'
  <2>0. mine' \in [Proc -> KeyPair \cup {NoKey}]
    <3>1. mine \in [Proc -> KeyPair \cup {NoKey}] /\ priv.key \in KeyPair \cup {NoKey}
      BY <1>1 DEF TypeOK, PemFile
    <3> QED
      BY <1>4, <3>1 DEF LoadKeypair
  <2>1. TypeOK'
    BY <1>1, <1>4, <2>0, GotoLemma DEF LoadKeypair, AfterLoad, TypeOK
  <2> QED
    BY <1>4, <2>1, GotoCount DEF LoadKeypair, AfterLoad, TypeInv
<1>5. ASSUME NEW p \in Proc, WritePrivateKey(p) PROVE TypeInv'
  <2>1. priv' \in PemFile
    <3>1. priv \in PemFile /\ mine[p] \in KeyPair \cup {NoKey}
      BY <1>1 DEF TypeOK
    <3>2. \/ priv' = Truncated
          \/ priv' = [priv EXCEPT !.head = TRUE]
          \/ priv' = [priv EXCEPT !.key = mine[p]]
      BY <1>5 DEF WritePrivateKey
    <3> QED
      BY <3>1, <3>2, FilesStayTyped
  <2>2. TypeOK'
    BY <1>1, <1>5, <2>1, GotoLemma DEF WritePrivateKey, TypeOK
  <2> QED
    BY <1>5, <2>2, GotoCount DEF WritePrivateKey, TypeInv
<1>6. ASSUME NEW p \in Proc, WritePublicKey(p) PROVE TypeInv'
  <2>1. pub' \in PemFile
    <3>1. pub \in PemFile /\ mine[p] \in KeyPair \cup {NoKey}
      BY <1>1 DEF TypeOK
    <3>2. \/ pub' = Truncated
          \/ pub' = [pub EXCEPT !.head = TRUE]
          \/ pub' = [pub EXCEPT !.key = mine[p]]
      BY <1>6 DEF WritePublicKey
    <3> QED
      BY <3>1, <3>2, FilesStayTyped
  <2>2. TypeOK'
    BY <1>1, <1>6, <2>1, GotoLemma DEF WritePublicKey, TypeOK
  <2> QED
    BY <1>6, <2>2, GotoCount DEF WritePublicKey, TypeInv
<1>7. ASSUME NEW p \in Proc, LoadConfig(p) PROVE TypeInv'
  <2>1. TypeOK'
    BY <1>1, <1>7, GotoLemma DEF LoadConfig, TypeOK
  <2> QED
    BY <1>7, <2>1, GotoCount DEF LoadConfig, TypeInv
<1>8. ASSUME NEW p \in Proc, ListCrontab(p) PROVE TypeInv'
  <2>1. TypeOK'
    BY <1>1, <1>8, GotoLemma DEF ListCrontab, AfterList, TypeOK
  <2> QED
    BY <1>8, <2>1, GotoCount DEF ListCrontab, AfterList, TypeInv
<1>14. ASSUME NEW p \in Proc, ListCrontabFails(p) PROVE TypeInv'
  <2>1. unlisted' \in BOOLEAN
    BY <1>14, Zenon DEF ListCrontabFails
  <2>2. /\ existing' = [existing EXCEPT ![p] = <<>>]
        /\ Goto(p, IF command[p] = "schedule --remove" THEN "ok" ELSE "install")
        /\ UNCHANGED <<keyVars, config, crontab, command, announced, overlapped, edited, bounds>>
    BY <1>14, Zenon DEF ListCrontabFails
  <2>3. TypeOK'
    <3>1. existing' \in [Proc -> Seq(Job \cup {Entry})]
      <4>1. existing \in [Proc -> Seq(Job \cup {Entry})]
        BY <1>1 DEF TypeOK
      <4>2. <<>> \in Seq(Job \cup {Entry})
        OBVIOUS
      <4> QED
        BY <2>2, <4>1, <4>2
    <3> QED
      BY <1>1, <2>1, <2>2, <3>1, GotoLemma DEF TypeOK
  <2> QED
    BY <2>2, <2>3, GotoCount DEF TypeInv
<1>9. ASSUME NEW p \in Proc, Install(p) \/ RemoveEntry(p) PROVE TypeInv'
  <2>1. existing[p] \in Seq(Job \cup {Entry})
    BY <1>1 DEF TypeOK
  <2>2. crontab' \in Seq(Job \cup {Entry})
    BY <1>9, <2>1, KeptLines DEF Install, RemoveEntry
  <2>3. TypeOK'
    BY <1>1, <1>9, <2>2, GotoLemma DEF Install, RemoveEntry, TypeOK
  <2> QED
    BY <1>9, <2>3, GotoCount DEF Install, RemoveEntry, TypeInv
<1>15. ASSUME NEW p \in Proc, InstallFails(p) \/ RemoveFails(p) PROVE TypeInv'
  <2>1. TypeOK'
    BY <1>1, <1>15, GotoLemma DEF InstallFails, RemoveFails, TypeOK
  <2> QED
    BY <1>15, <2>1, GotoCount DEF InstallFails, RemoveFails, TypeInv
<1>10. ASSUME NEW p \in Proc, Interrupt(p) PROVE TypeInv'
  <2>1. faults' \in 0..MaxFaults
    <3>1. faults \in 0..MaxFaults
      BY <1>1 DEF TypeOK
    <3>2. faults < MaxFaults /\ faults' = faults + 1
      BY <1>10 DEF Interrupt
    <3> QED
      BY <3>1, <3>2, BoundAssumption
  <2>2. TypeOK'
    BY <1>1, <1>10, <2>1, GotoLemma DEF Interrupt, TypeOK
  <2> QED
    BY <1>10, <2>2, GotoCount DEF Interrupt, TypeInv
<1>11. ASSUME NEW j \in Job, AddJob(j) PROVE TypeInv'
  <2>0. edited' \in BOOLEAN
    BY <1>11, Zenon DEF AddJob
  <2>3. /\ crontab' = Append(crontab, j)
        /\ UNCHANGED <<keyVars, config, existing, pc, command, announced, overlapped,
                       unlisted, bounds>>
    BY <1>11, Zenon DEF AddJob
  <2>4. crontab' \in Seq(Job \cup {Entry})
    <3>1. crontab \in Seq(Job \cup {Entry}) /\ j \in Job \cup {Entry}
      BY <1>1 DEF TypeOK
    <3> QED
      BY <2>3, <3>1
  <2>1. TypeOK'
    BY <1>1, <2>0, <2>3, <2>4 DEF TypeOK
  <2>2. Pending' = Pending
    BY <1>11 DEF AddJob, Pending
  <2> QED
    BY <1>11, <2>1, <2>2, CountKept DEF AddJob, TypeInv
<1>12. CASE UNCHANGED vars
  <2>1. TypeOK'
    BY <1>1, <1>12 DEF vars, TypeOK
  <2>2. Pending' = Pending
    BY <1>12 DEF vars, Pending
  <2> QED
    BY <1>12, <2>1, <2>2, CountKept DEF vars, TypeInv
<1>13. ASSUME NEW p \in Proc, Announce(p) PROVE TypeInv'
  <2>2. announced' \subseteq KeyPair
    <3>1. mine[p] \in KeyPair
      BY <1>1, <1>13 DEF Announce, TypeOK, Keyed
    <3> QED
      BY <1>1, <1>13, <3>1 DEF Announce, TypeOK
  <2>3. pc' \in [Proc -> Stopped \cup Running]
    BY <1>1, <1>13, GotoLemma DEF Announce, TypeOK
  <2>1. TypeOK'
    BY <1>1, <1>13, <2>2, <2>3 DEF Announce, TypeOK
  <2> QED
    BY <1>13, <2>1, GotoCount DEF Announce, TypeInv
<1> QED
  BY <1>2, <1>3, <1>4, <1>5, <1>6, <1>7, <1>8, <1>9, <1>10, <1>11, <1>12, <1>13,
     <1>14, <1>15, StartType, GenerateType DEF Next, Step

\* A process is given its key pair before it writes, and loads a whole one
\* before it announces.
LEMMA KeyedStep == TypeInv /\ Keyed /\ [Next]_vars => Keyed'
<1> SUFFICES ASSUME TypeInv, Keyed, [Next]_vars PROVE Keyed'
  OBVIOUS
<1> USE DEF Stopped, Running, Creating, keyVars, cronVars, history, bounds
<1> DEFINE Using == {"open priv", "head priv", "rest priv", "open pub", "head pub", "rest pub",
                     "announce"}
<1>0. pc \in [Proc -> Stopped \cup Running] /\ mine \in [Proc -> KeyPair \cup {NoKey}]
  BY DEF TypeInv, TypeOK
<1>1. ASSUME NEW p \in Proc, NEW label \in Stopped \cup Running, Goto(p, label),
             UNCHANGED mine, label \in Using => pc[p] \in Using
      PROVE  Keyed'
  BY <1>0, <1>1, GotoLemma DEF Keyed
<1>2. ASSUME NEW p \in Proc, NEW c \in Command, Start(p, c) PROVE Keyed'
  <2>1. PICK label \in (Stopped \cup Running) \ Using : Goto(p, label)
    BY <1>2 DEF Start, FirstStep, Command
  <2>2. pc'[p] = label /\ \A q \in Proc : q # p => pc'[q] = pc[q]
    BY <1>0, <2>1, GotoLemma
  <2>3. \A q \in Proc : q # p => mine'[q] = mine[q]
    BY <1>0, <1>2 DEF Start
  <2> QED
    BY <2>1, <2>2, <2>3 DEF Keyed
<1>3. ASSUME NEW p \in Proc, OpenConfig(p) \/ WriteConfig(p) PROVE Keyed'
  BY <1>1, <1>3 DEF OpenConfig, WriteConfig
<1>4. ASSUME NEW p \in Proc, EnsureKeypair(p) PROVE Keyed'
  BY <1>1, <1>4 DEF EnsureKeypair
<1>5. ASSUME NEW p \in Proc, LoadKeypair(p) PROVE Keyed'
  <2>1. /\ pc'[p] = AfterLoad(p) /\ \A q \in Proc : q # p => pc'[q] = pc[q]
    BY <1>0, <1>5, GotoLemma DEF LoadKeypair, AfterLoad
  <2>2. /\ mine'[p] = IF Readable(priv) THEN priv.key ELSE NoKey
        /\ \A q \in Proc : q # p => mine'[q] = mine[q]
    BY <1>0, <1>5 DEF LoadKeypair
  <2> QED
    BY <2>1, <2>2 DEF Keyed, AfterLoad, Readable
<1>6. ASSUME NEW p \in Proc, GenerateKey(p) PROVE Keyed'
  <2>1. /\ pc'[p] = "open priv" /\ \A q \in Proc : q # p => pc'[q] = pc[q]
    BY <1>0, <1>6, GotoLemma DEF GenerateKey
  <2>2. /\ mine'[p] = generated + 1 /\ \A q \in Proc : q # p => mine'[q] = mine[q]
    BY <1>0, <1>6 DEF GenerateKey
  <2>3. generated + 1 # NoKey
    <3>1. generated \in 0..MaxRuns
      BY DEF TypeInv, TypeOK
    <3>2. generated \in Nat
      BY <3>1, BoundAssumption
    <3> QED
      BY <3>2 DEF NoKey
  <2> QED
    BY <2>1, <2>2, <2>3 DEF Keyed
<1>7. ASSUME NEW p \in Proc, WritePrivateKey(p) \/ WritePublicKey(p) PROVE Keyed'
  BY <1>1, <1>7 DEF WritePrivateKey, WritePublicKey
<1>8. ASSUME NEW p \in Proc, Announce(p) \/ LoadConfig(p) PROVE Keyed'
  BY <1>1, <1>8 DEF Announce, LoadConfig
<1>9. ASSUME NEW p \in Proc, ListCrontab(p) \/ ListCrontabFails(p) PROVE Keyed'
  BY <1>1, <1>9 DEF ListCrontab, AfterList, ListCrontabFails
<1>10. ASSUME NEW p \in Proc,
              Install(p) \/ InstallFails(p) \/ RemoveEntry(p) \/ RemoveFails(p)
       PROVE  Keyed'
  BY <1>1, <1>10 DEF Install, InstallFails, RemoveEntry, RemoveFails
<1>11. ASSUME NEW p \in Proc, Interrupt(p) PROVE Keyed'
  BY <1>1, <1>11 DEF Interrupt
<1>12. CASE UNCHANGED <<mine, pc>>
  BY <1>12 DEF Keyed
<1> QED
  BY <1>2, <1>3, <1>4, <1>5, <1>6, <1>7, <1>8, <1>9, <1>10, <1>11, <1>12
     DEF Next, Step, AddJob, vars

LEMMA TypeInvariant == Spec => [](TypeInv /\ Keyed)
<1>1. Init => TypeInv
  <2> SUFFICES ASSUME Init PROVE TypeInv
    OBVIOUS
  <2>1. Pending = {}
    BY DEF Init, Pending
  <2>2. <<>> \in Seq(Job \cup {Entry})
    OBVIOUS
  <2>3. 0 \in 0..MaxRuns /\ 0 \in 0..MaxFaults
    BY BoundAssumption
  <2>4. Missing \in PemFile
    BY DEF Missing, PemFile
  <2>5. TypeOK
    BY <2>2, <2>3, <2>4 DEF Init, TypeOK, Stopped, Command
  <2> QED
    BY <2>1, <2>5, FS_EmptySet DEF Init, TypeInv
<1>2. Init => Keyed
  BY DEF Init, Keyed
<1> QED
  BY <1>1, <1>2, TypeStep, KeyedStep, PTL DEF Spec

\* Setup is type-correct: among others, no more key pairs are generated than
\* commands are run, and no crontab has a line that nobody put there.
THEOREM TypeCorrect == Spec => []TypeOK
<1>1. TypeInv => TypeOK
  BY DEF TypeInv
<1> QED
  BY <1>1, TypeInvariant, PTL

-----------------------------------------------------------------------------
(* One command at a time. *)

\* At most one command is running.
Alone == \A p, q \in Proc : pc[p] \in Running /\ pc[q] \in Running => p = q

\* What the two files hold of the key of the one process that creates it.
Written(p) ==
  /\ pc[p] \in {"generate", "open priv"} => ~priv.exists
  /\ pc[p] \in {"head priv", "rest priv"} => priv.key = NoKey
  /\ pc[p] = "rest priv" => priv.head
  /\ pc[p] \in {"open pub", "head pub", "rest pub", "announce"} =>
       Readable(priv) /\ priv.key = mine[p]
  /\ pc[p] = "head pub" => pub.key = NoKey

\* What the files and the announced fingerprints have to do with each other:
\* the public key is written after the private one, and only for it.
Matched ==
  /\ SharedFingerprintSigns
  /\ Readable(pub) => Readable(priv) /\ priv.key = pub.key
  /\ ~priv.exists => ~pub.head

SoleInv == ~overlapped => Alone /\ Matched /\ \A p \in Proc : Written(p)

\* A process that moves alone and touches no file leaves the others where they
\* were: only what it has reached is to be shown.
LEMMA SoleQuiet ==
  ASSUME KeyInv, SoleInv, NEW p \in Proc, NEW label \in Stopped \cup Running, Goto(p, label),
         pc[p] \in Running, UNCHANGED <<priv, pub, overlapped>>,
         \A q \in Proc : q # p => mine'[q] = mine[q],
         ~overlapped => SharedFingerprintSigns' /\ Written(p)'
  PROVE  SoleInv'
<1> SUFFICES ASSUME ~overlapped PROVE Alone' /\ Matched' /\ \A q \in Proc : Written(q)'
  BY DEF SoleInv
<1>1. /\ pc' \in [Proc -> Stopped \cup Running]
      /\ \A q \in Proc : q # p => pc'[q] = pc[q]
  BY GotoLemma DEF KeyInv
<1>2. Alone'
  BY <1>1 DEF SoleInv, Alone
<1>3. Matched'
  BY DEF SoleInv, Matched, Readable
<1>4. \A q \in Proc : q # p => Written(q)'
  BY <1>1 DEF SoleInv, Written, Readable
<1> QED
  BY <1>2, <1>3, <1>4

LEMMA SoleStart ==
  ASSUME KeyInv, SoleInv, NEW p \in Proc, NEW c \in Command, Start(p, c)
  PROVE  SoleInv'
<1> SUFFICES ASSUME ~overlapped' PROVE Alone' /\ Matched' /\ \A q \in Proc : Written(q)'
  BY DEF SoleInv
<1> USE DEF Stopped, Running, Creating
<1>1. ~overlapped /\ \A q \in Proc : pc[q] \notin Running
  BY Zenon DEF Start
<1>2. UNCHANGED <<priv, pub, announced>>
  BY DEF Start
<1>3. PICK label \in (Stopped \cup Running) \ (Creating \cup {"announce"}) : Goto(p, label)
  BY DEF Start, FirstStep, Command
<1>4. /\ pc' \in [Proc -> Stopped \cup Running] /\ pc'[p] = label
      /\ \A q \in Proc : q # p => pc'[q] = pc[q]
  BY <1>3, GotoLemma DEF KeyInv
<1>5. Alone'
  BY <1>1, <1>4 DEF Alone
<1>6. Matched'
  BY <1>1, <1>2 DEF SoleInv, Matched, SharedFingerprintSigns, Readable
<1>7. ASSUME NEW q \in Proc PROVE Written(q)'
  <2>1. pc'[q] \notin Creating \cup {"announce"}
    BY <1>1, <1>3, <1>4
  <2> QED
    BY <2>1 DEF Written
<1> QED
  BY <1>5, <1>6, <1>7

\* The private key file is created if there was none: nothing was announced,
\* and there is no public key.
LEMMA SolePrivate ==
  ASSUME KeyInv, TypeInv, Keyed, SoleInv, NEW p \in Proc, WritePrivateKey(p)
  PROVE  SoleInv'
<1> SUFFICES ASSUME ~overlapped PROVE Alone' /\ Matched' /\ \A q \in Proc : Written(q)'
  BY DEF SoleInv, WritePrivateKey, history
<1> USE DEF Stopped, Running, Creating
<1>1. UNCHANGED <<pub, announced, mine>>
  BY DEF WritePrivateKey
<1>2. PICK label \in Running : Goto(p, label)
  BY DEF WritePrivateKey
<1>3. /\ pc' \in [Proc -> Stopped \cup Running] /\ pc'[p] = label
      /\ \A q \in Proc : q # p => pc'[q] = pc[q]
  BY <1>2, GotoLemma DEF KeyInv
<1>4. pc[p] \in Running /\ \A q \in Proc : q # p => pc[q] \notin Running
  BY DEF WritePrivateKey, SoleInv, Alone
<1>5. Alone'
  BY <1>3, <1>4 DEF Alone
<1>6. ~Readable(priv) /\ ~Readable(pub) /\ announced = {}
  <2>1. pc[p] \in {"open priv", "head priv", "rest priv"} /\ Written(p) /\ Matched
    BY DEF WritePrivateKey, SoleInv
  <2>2. ~Readable(priv)
    BY <2>1 DEF Written, KeyInv, Readable
  <2> QED
    BY <2>1, <2>2 DEF Matched, SharedFingerprintSigns
<1>7. ASSUME NEW q \in Proc, q # p PROVE Written(q)'
  <2>1. pc'[q] = pc[q] /\ pc[q] \notin Running
    BY <1>3, <1>4, <1>7
  <2> QED
    BY <2>1 DEF Written
<1>8. Matched'
  <2>1. priv'.exists
    <3>1. CASE pc[p] = "open priv"
      <4>1. priv' = [exists |-> TRUE, head |-> FALSE, key |-> NoKey]
        BY <3>1 DEF WritePrivateKey, Truncated
      <4> QED
        BY <4>1
    <3>2. CASE pc[p] = "head priv"
      <4>1. priv' = [exists |-> priv.exists, head |-> TRUE, key |-> priv.key]
        BY <3>2 DEF WritePrivateKey, KeyInv
      <4> QED
        BY <3>2, <4>1 DEF KeyInv
    <3>3. CASE pc[p] = "rest priv"
      <4>1. priv' = [exists |-> priv.exists, head |-> priv.head, key |-> mine[p]]
        BY <3>3 DEF WritePrivateKey, KeyInv
      <4> QED
        BY <3>3, <4>1 DEF KeyInv
    <3> QED
      BY <3>1, <3>2, <3>3 DEF WritePrivateKey
  <2> QED
    BY <1>1, <1>6, <2>1 DEF Matched, SharedFingerprintSigns, Readable
<1>9. Written(p)'
  <2>1. CASE pc[p] = "open priv"
    <3>1. pc'[p] = "head priv" /\ priv' = Truncated
      BY <1>2, <1>3, <2>1, GotoLemma DEF WritePrivateKey, KeyInv
    <3> QED
      BY <3>1 DEF Written, Truncated
  <2>2. CASE pc[p] = "head priv"
    <3>1. pc'[p] = "rest priv" /\ priv' = [exists |-> priv.exists, head |-> TRUE, key |-> priv.key]
      BY <1>2, <1>3, <2>2, GotoLemma DEF WritePrivateKey, KeyInv
    <3> QED
      BY <2>2, <3>1 DEF Written, SoleInv
  <2>3. CASE pc[p] = "rest priv"
    <3>1. pc'[p] = "open pub" /\ priv' = [exists |-> priv.exists, head |-> priv.head, key |-> mine[p]]
      BY <1>2, <1>3, <2>3, GotoLemma DEF WritePrivateKey, KeyInv
    <3>2. priv.head /\ mine[p] # NoKey
      BY <2>3 DEF Written, SoleInv, Keyed
    <3> QED
      BY <1>1, <3>1, <3>2 DEF Written, Readable
  <2> QED
    BY <2>1, <2>2, <2>3 DEF WritePrivateKey
<1> QED
  BY <1>5, <1>7, <1>8, <1>9

\* The public key that is written is that of the private key already there.
LEMMA SolePublic ==
  ASSUME KeyInv, TypeInv, SoleInv, NEW p \in Proc, WritePublicKey(p)
  PROVE  SoleInv'
<1> SUFFICES ASSUME ~overlapped PROVE Alone' /\ Matched' /\ \A q \in Proc : Written(q)'
  BY DEF SoleInv, WritePublicKey, history
<1> USE DEF Stopped, Running, Creating
<1>1. UNCHANGED <<priv, announced, mine>>
  BY DEF WritePublicKey
<1>2. PICK label \in Running : Goto(p, label)
  BY DEF WritePublicKey
<1>3. /\ pc' \in [Proc -> Stopped \cup Running] /\ pc'[p] = label
      /\ \A q \in Proc : q # p => pc'[q] = pc[q]
  BY <1>2, GotoLemma DEF KeyInv
<1>4. pc[p] \in Running /\ \A q \in Proc : q # p => pc[q] \notin Running
  BY DEF WritePublicKey, SoleInv, Alone
<1>5. Alone'
  BY <1>3, <1>4 DEF Alone
<1>6. Readable(priv) /\ priv.key = mine[p] /\ priv.exists
  BY DEF WritePublicKey, SoleInv, Written, KeyInv
<1>7. ASSUME NEW q \in Proc, q # p PROVE Written(q)'
  <2>1. pc'[q] = pc[q] /\ pc[q] \notin Running
    BY <1>3, <1>4, <1>7
  <2> QED
    BY <2>1 DEF Written
<1>8. pub \in PemFile
  BY DEF TypeInv, TypeOK
<1>9. CASE pc[p] = "open pub"
  <2>1. pc'[p] = "head pub" /\ pub' = Truncated
    BY <1>2, <1>3, <1>9, GotoLemma DEF WritePublicKey, KeyInv
  <2> QED
    BY <1>1, <1>5, <1>6, <1>7, <2>1
       DEF Written, Matched, SharedFingerprintSigns, SoleInv, Readable, Truncated
<1>10. CASE pc[p] = "head pub"
  <2>1. /\ pc'[p] = "rest pub"
        /\ pub' = [exists |-> pub.exists, head |-> TRUE, key |-> pub.key]
    BY <1>2, <1>3, <1>8, <1>10, GotoLemma DEF WritePublicKey, KeyInv, PemFile
  <2>2. pub.key = NoKey
    BY <1>10 DEF SoleInv, Written
  <2> QED
    BY <1>1, <1>5, <1>6, <1>7, <2>1, <2>2
       DEF Written, Matched, SharedFingerprintSigns, SoleInv, Readable
<1>11. CASE pc[p] = "rest pub"
  <2>1. /\ pc'[p] = "announce"
        /\ pub' = [exists |-> pub.exists, head |-> pub.head, key |-> mine[p]]
    BY <1>2, <1>3, <1>8, <1>11, GotoLemma DEF WritePublicKey, KeyInv, PemFile
  <2> QED
    BY <1>1, <1>5, <1>6, <1>7, <2>1
       DEF Written, Matched, SharedFingerprintSigns, SoleInv, Readable
<1> QED
  BY <1>9, <1>10, <1>11 DEF WritePublicKey

LEMMA SoleStep == KeyInv /\ TypeInv /\ Keyed /\ SoleInv /\ [Next]_vars => SoleInv'
<1> SUFFICES ASSUME KeyInv, TypeInv, Keyed, SoleInv, [Next]_vars PROVE SoleInv'
  OBVIOUS
<1> USE DEF Stopped, Running, Creating, keyVars, cronVars, history, bounds
<1> DEFINE Writing == {"generate", "open priv", "head priv", "rest priv", "open pub",
                       "head pub", "rest pub", "announce"}
<1>0. pc \in [Proc -> Stopped \cup Running] /\ mine \in [Proc -> KeyPair \cup {NoKey}]
  BY DEF TypeInv, TypeOK
<1>1. ASSUME NEW p \in Proc, pc[p] \in Running,
             NEW label \in (Stopped \cup Running) \ Writing, Goto(p, label),
             UNCHANGED <<priv, pub, overlapped, mine, announced>>
      PROVE  SoleInv'
  <2>1. Written(p)'
    BY <1>0, <1>1, GotoLemma DEF Written
  <2>2. ~overlapped => SharedFingerprintSigns'
    BY <1>1 DEF SoleInv, Matched, SharedFingerprintSigns, Readable
  <2> QED
    BY <1>1, <2>1, <2>2, SoleQuiet
<1>2. ASSUME NEW p \in Proc, OpenConfig(p) \/ WriteConfig(p) PROVE SoleInv'
  BY <1>1, <1>2 DEF OpenConfig, WriteConfig
<1>3. ASSUME NEW p \in Proc, EnsureKeypair(p) PROVE SoleInv'
  <2>1. pc'[p] = (IF KeyExists THEN "load key" ELSE "generate") /\ pc[p] \in Running
    BY <1>0, <1>3, GotoLemma DEF EnsureKeypair
  <2>2. Written(p)'
    BY <1>3, <2>1 DEF EnsureKeypair, Written, KeyExists
  <2>3. ~overlapped => SharedFingerprintSigns'
    BY <1>3 DEF EnsureKeypair, SoleInv, Matched, SharedFingerprintSigns, Readable
  <2> QED
    BY <1>3, <2>1, <2>2, <2>3, SoleQuiet DEF EnsureKeypair
<1>4. ASSUME NEW p \in Proc, LoadKeypair(p) PROVE SoleInv'
  <2>1. pc'[p] = AfterLoad(p) /\ pc[p] \in Running
    BY <1>0, <1>4, GotoLemma DEF LoadKeypair, AfterLoad
  <2>2. /\ mine'[p] = IF Readable(priv) THEN priv.key ELSE NoKey
        /\ \A q \in Proc : q # p => mine'[q] = mine[q]
    BY <1>0, <1>4 DEF LoadKeypair
  <2>3. Written(p)'
    BY <1>4, <2>1, <2>2 DEF LoadKeypair, AfterLoad, Written, Readable
  <2>4. ~overlapped => SharedFingerprintSigns'
    BY <1>4 DEF LoadKeypair, SoleInv, Matched, SharedFingerprintSigns, Readable
  <2>5. AfterLoad(p) \in Stopped \cup Running
    BY DEF AfterLoad
  <2> QED
    BY <1>4, <2>1, <2>2, <2>3, <2>4, <2>5, SoleQuiet DEF LoadKeypair
<1>5. ASSUME NEW p \in Proc, GenerateKey(p) PROVE SoleInv'
  <2>1. pc'[p] = "open priv" /\ pc[p] = "generate"
    BY <1>0, <1>5, GotoLemma DEF GenerateKey
  <2>2. \A q \in Proc : q # p => mine'[q] = mine[q]
    BY <1>0, <1>5 DEF GenerateKey
  <2>3. ~overlapped => Written(p)'
    BY <1>5, <2>1 DEF GenerateKey, Written, SoleInv
  <2>4. ~overlapped => SharedFingerprintSigns'
    BY <1>5 DEF GenerateKey, SoleInv, Matched, SharedFingerprintSigns, Readable
  <2> QED
    BY <1>5, <2>1, <2>2, <2>3, <2>4, SoleQuiet DEF GenerateKey
<1>6. ASSUME NEW p \in Proc, Announce(p) PROVE SoleInv'
  <2>1. pc'[p] = "list" /\ pc[p] = "announce"
    BY <1>0, <1>6, GotoLemma DEF Announce
  <2>2. Written(p)'
    BY <2>1 DEF Written
  <2>3. ~overlapped => SharedFingerprintSigns'
    BY <1>6, <2>1 DEF Announce, SoleInv, Matched, Written, SharedFingerprintSigns, Readable
  <2> QED
    BY <1>6, <2>1, <2>2, <2>3, SoleQuiet DEF Announce
<1>7. ASSUME NEW p \in Proc, LoadConfig(p) PROVE SoleInv'
  BY <1>1, <1>7 DEF LoadConfig
<1>8. ASSUME NEW p \in Proc, ListCrontab(p) \/ ListCrontabFails(p) PROVE SoleInv'
  BY <1>1, <1>8 DEF ListCrontab, AfterList, ListCrontabFails
<1>9. ASSUME NEW p \in Proc,
             Install(p) \/ InstallFails(p) \/ RemoveEntry(p) \/ RemoveFails(p)
      PROVE  SoleInv'
  BY <1>1, <1>9 DEF Install, InstallFails, RemoveEntry, RemoveFails
<1>10. ASSUME NEW p \in Proc, Interrupt(p) PROVE SoleInv'
  BY <1>1, <1>10 DEF Interrupt
<1>11. CASE UNCHANGED <<priv, pub, mine, pc, announced, overlapped>>
  BY <1>11 DEF SoleInv, Alone, Matched, SharedFingerprintSigns, Written, Readable
<1> QED
  BY <1>2, <1>3, <1>4, <1>5, <1>6, <1>7, <1>8, <1>9, <1>10, <1>11,
     SoleStart, SolePrivate, SolePublic DEF Next, Step, AddJob, vars

LEMMA SoleInvariant == Spec => []SoleInv
<1>1. Init => SoleInv
  BY DEF Init, SoleInv, Alone, Matched, SharedFingerprintSigns, Written, Readable, Missing,
         Running, Creating
<1> QED
  BY <1>1, SoleStep, KeyInvariant, TypeInvariant, PTL DEF Spec

\* One command at a time, interrupted anywhere and run again: the fingerprint
\* that init has told the user to share is that of the key which signs.
THEOREM SharedFingerprintSignsAloneHolds == Spec => []SharedFingerprintSignsAlone
<1>1. SoleInv => SharedFingerprintSignsAlone
  BY DEF SoleInv, Matched, SharedFingerprintSignsAlone
<1> QED
  BY <1>1, SoleInvariant, PTL

\* One command at a time: two key files that can both be read are of one pair.
THEOREM KeyFilesMatchHolds == Spec => []KeyFilesMatch
<1>1. SoleInv => KeyFilesMatch
  BY DEF SoleInv, Matched, KeyFilesMatch
<1> QED
  BY <1>1, SoleInvariant, PTL

-----------------------------------------------------------------------------
(* The configuration. *)

\* Past its save, an init --team has a whole configuration; past its load, a
\* schedule has one that is not torn.
HasConfig(p) ==
  /\ command[p] = "init --team" /\ pc[p] \in Running \ {"open config", "write config"} =>
       config = "whole"
  /\ command[p] = "schedule" /\
       pc[p] \in Running \ {"open config", "write config", "load config"} =>
       config # "torn"

ConfigInv == ~overlapped => \A p \in Proc : HasConfig(p)

\* The one command that runs has what it needs of the configuration: the others
\* have ended.
LEMMA ConfigStep == TypeInv /\ SoleInv /\ ConfigInv /\ [Next]_vars => ConfigInv'
<1> SUFFICES ASSUME TypeInv, SoleInv, ConfigInv, [Next]_vars, ~overlapped',
                    NEW q \in Proc
             PROVE  HasConfig(q)'
  BY DEF ConfigInv
<1> USE DEF Stopped, Running, Creating, keyVars, cronVars, history, bounds
<1>0. pc \in [Proc -> Stopped \cup Running] /\ command \in [Proc -> Command]
  BY DEF TypeInv, TypeOK
<1>1. ASSUME NEW p \in Proc, NEW label \in Stopped \cup Running, Goto(p, label),
             pc[p] \in Running \ {"open config", "write config", "load config"},
             label \notin {"open config", "write config", "load config"},
             UNCHANGED <<config, command, overlapped>>
      PROVE  HasConfig(q)'
  <2>1. pc'[p] = label /\ \A r \in Proc : r # p => pc'[r] = pc[r]
    BY <1>0, <1>1, GotoLemma
  <2>2. HasConfig(q)
    BY <1>1 DEF ConfigInv
  <2> QED
    BY <1>1, <2>1, <2>2 DEF HasConfig
<1>2. ASSUME NEW p \in Proc, NEW c \in Command, Start(p, c) PROVE HasConfig(q)'
  <2>1. ~overlapped /\ pc[q] \notin Running
    BY <1>2, Zenon DEF Start
  <2>2. pc'[p] = FirstStep(c) /\ \A r \in Proc : r # p => pc'[r] = pc[r]
    BY <1>0, <1>2, GotoLemma DEF Start, FirstStep, Command
  <2>3. command'[p] = c
    BY <1>0, <1>2 DEF Start
  <2>4. CASE q = p
    BY <2>2, <2>3, <2>4 DEF HasConfig, FirstStep
  <2>5. CASE q # p
    BY <2>1, <2>2, <2>5 DEF HasConfig
  <2> QED
    BY <2>4, <2>5
<1>3. ASSUME NEW p \in Proc, OpenConfig(p) \/ WriteConfig(p) PROVE HasConfig(q)'
  <2>1. /\ pc[p] \in Running /\ \A r \in Proc : r # p => pc'[r] = pc[r]
        /\ pc'[p] = "write config" \/ config' = "whole"
        /\ UNCHANGED <<command, overlapped>>
    BY <1>0, <1>3, GotoLemma DEF OpenConfig, WriteConfig
  <2>2. q # p => pc[q] \notin Running
    BY <2>1 DEF SoleInv, Alone
  <2> QED
    BY <2>1, <2>2 DEF HasConfig
<1>4. ASSUME NEW p \in Proc, LoadConfig(p) PROVE HasConfig(q)'
  <2>1. /\ \A r \in Proc : r # p => pc'[r] = pc[r]
        /\ pc[p] = "load config"
        /\ pc'[p] = IF config = "torn" THEN "failed" ELSE "list"
        /\ UNCHANGED <<config, command, overlapped>>
    BY <1>0, <1>4, GotoLemma DEF LoadConfig
  <2>2. HasConfig(q)
    BY <2>1 DEF ConfigInv
  <2> QED
    BY <2>1, <2>2 DEF HasConfig
<1>5. ASSUME NEW p \in Proc, EnsureKeypair(p) \/ LoadKeypair(p) \/ GenerateKey(p)
      PROVE  HasConfig(q)'
  BY <1>1, <1>5 DEF EnsureKeypair, LoadKeypair, AfterLoad, GenerateKey
<1>6. ASSUME NEW p \in Proc, WritePrivateKey(p) \/ WritePublicKey(p) \/ Announce(p)
      PROVE  HasConfig(q)'
  BY <1>1, <1>6 DEF WritePrivateKey, WritePublicKey, Announce
<1>7. ASSUME NEW p \in Proc, ListCrontab(p) PROVE HasConfig(q)'
  BY <1>1, <1>7 DEF ListCrontab, AfterList
<1>8. ASSUME NEW p \in Proc, ListCrontabFails(p) PROVE HasConfig(q)'
  <2>1. /\ Goto(p, IF command[p] = "schedule --remove" THEN "ok" ELSE "install")
        /\ pc[p] = "list" /\ UNCHANGED <<config, command, overlapped>>
    BY <1>8, Zenon DEF ListCrontabFails
  <2> QED
    BY <1>1, <2>1
<1>9. ASSUME NEW p \in Proc,
             Install(p) \/ InstallFails(p) \/ RemoveEntry(p) \/ RemoveFails(p)
      PROVE  HasConfig(q)'
  BY <1>1, <1>9 DEF Install, InstallFails, RemoveEntry, RemoveFails
<1>10. ASSUME NEW p \in Proc, Interrupt(p) PROVE HasConfig(q)'
  <2>1. /\ pc'[p] = "interrupted" /\ \A r \in Proc : r # p => pc'[r] = pc[r]
        /\ UNCHANGED <<config, command, overlapped>>
    BY <1>0, <1>10, GotoLemma DEF Interrupt
  <2>2. HasConfig(q)
    BY <2>1 DEF ConfigInv
  <2> QED
    BY <2>1, <2>2 DEF HasConfig
<1>11. CASE UNCHANGED <<config, command, overlapped, pc>>
  BY <1>11 DEF ConfigInv, HasConfig
<1>12. ASSUME NEW j \in Job, AddJob(j)
       PROVE  UNCHANGED <<config, command, overlapped, pc>>
  BY <1>12 DEF AddJob
<1> QED
  BY <1>2, <1>3, <1>4, <1>5, <1>6, <1>7, <1>8, <1>9, <1>10, <1>11, <1>12
     DEF Next, Step, vars

\* One command at a time, interrupted anywhere: none that needs the configuration
\* ends well and leaves a torn one.
THEOREM ConfigIsSoundHolds == Spec => ConfigIsSound
<1> DEFINE Sound ==
             ~overlapped' =>
               \A p \in Proc : pc[p] \in Running /\ pc'[p] \in {"ok", "warned"} =>
                 /\ command[p] = "init --team" => config' = "whole"
                 /\ command[p] = "schedule" => config' # "torn"
<1>1. TypeInv /\ ConfigInv /\ [Next]_vars => [Sound]_vars
  <2> SUFFICES ASSUME TypeInv, ConfigInv, Next, ~overlapped', NEW p \in Proc,
                      pc[p] \in Running, pc'[p] \in {"ok", "warned"}
               PROVE  /\ command[p] = "init --team" => config' = "whole"
                      /\ command[p] = "schedule" => config' # "torn"
    OBVIOUS
  <2> USE DEF Stopped, Running, Creating, keyVars, cronVars, history, bounds
  <2>0. pc \in [Proc -> Stopped \cup Running]
    BY DEF TypeInv, TypeOK
  <2>1. ASSUME NEW q \in Proc,
               OpenConfig(q) \/ WriteConfig(q) \/ LoadConfig(q) \/ \E c \in Command : Start(q, c)
        PROVE  FALSE
    <3>1. PICK label \in (Stopped \cup Running) \ {"ok", "warned"} : Goto(q, label)
      BY <2>1 DEF OpenConfig, WriteConfig, LoadConfig, Start, FirstStep, Command
    <3>2. q = p => pc'[p] = label
      BY <2>0, <3>1, GotoLemma
    <3>3. q # p
      BY <3>1, <3>2
    <3>4. pc'[p] = pc[p]
      BY <2>0, <3>1, <3>3, GotoLemma
    <3> QED
      BY <3>4
  <2>2. UNCHANGED <<config, overlapped>>
    <3>1. ASSUME NEW q \in Proc, ListCrontabFails(q) PROVE UNCHANGED <<config, overlapped>>
      BY <3>1, Zenon DEF ListCrontabFails
    <3>2. ASSUME NEW j \in Job, AddJob(j) PROVE UNCHANGED <<config, overlapped>>
      BY <3>2, Zenon DEF AddJob
    <3>3. ASSUME NEW q \in Proc, Step(q) PROVE UNCHANGED <<config, overlapped>>
      BY <2>1, <3>1, <3>3 DEF Step, EnsureKeypair, LoadKeypair, GenerateKey,
         WritePrivateKey, WritePublicKey, Announce, ListCrontab,
         Install, InstallFails, RemoveEntry, RemoveFails
    <3>4. ASSUME NEW q \in Proc, Interrupt(q) PROVE UNCHANGED <<config, overlapped>>
      BY <3>4 DEF Interrupt
    <3> QED
      BY <2>1, <3>2, <3>3, <3>4 DEF Next
  <2>3. pc[p] \notin {"open config", "write config", "load config"}
    <3>1. ASSUME NEW q \in Proc, Step(q) \/ Interrupt(q)
          PROVE  \E label \in Stopped \cup Running : Goto(q, label)
      BY <3>1 DEF Step, OpenConfig, WriteConfig, EnsureKeypair, LoadKeypair, AfterLoad,
         GenerateKey, WritePrivateKey, WritePublicKey, Announce, LoadConfig, ListCrontab,
         AfterList, ListCrontabFails, Install, InstallFails, RemoveEntry, RemoveFails, Interrupt
    <3>2. ASSUME NEW q \in Proc, Step(q) \/ Interrupt(q) PROVE q = p
      BY <2>0, <3>1, <3>2, GotoLemma
    <3>3. ASSUME Interrupt(p) PROVE FALSE
      <4>1. Goto(p, "interrupted")
        BY <3>3 DEF Interrupt
      <4>2. pc'[p] = "interrupted"
        BY <2>0, <4>1, GotoLemma
      <4> QED
        BY <4>2
    <3>4. ~\E j \in Job : AddJob(j)
      BY DEF AddJob
    <3>5. Step(p)
      BY <2>1, <3>2, <3>3, <3>4 DEF Next
    <3> QED
      BY <2>1, <3>5 DEF Step, EnsureKeypair, LoadKeypair, GenerateKey, WritePrivateKey,
         WritePublicKey, Announce, ListCrontab, ListCrontabFails, Install, InstallFails,
         RemoveEntry, RemoveFails
  <2>4. HasConfig(p)
    BY <2>2 DEF ConfigInv
  <2> QED
    BY <2>2, <2>3, <2>4 DEF HasConfig
<1>2. Init => ConfigInv
  BY DEF Init, ConfigInv, HasConfig, Running, Creating
<1> QED
  BY <1>1, <1>2, ConfigStep, SoleInvariant, TypeInvariant, PTL DEF Spec, ConfigIsSound

-----------------------------------------------------------------------------
(* The crontab. *)

Line == Job \cup {Entry}

\* The lines of the user.
Theirs(lines) == ToSet(lines) \ {Entry}

\* A command that is about to install has found no entry, and is none that
\* removes; one that is about to remove is.
Decided(p) ==
  /\ pc[p] = "install" =>
       command[p] # "schedule --remove" /\ Entry \notin ToSet(existing[p])
  /\ pc[p] = "remove" => command[p] = "schedule --remove"

\* What it has read is, of the user's lines, what is there.
UpToDate(p) ==
  pc[p] \in {"install", "remove"} => Theirs(existing[p]) = Theirs(crontab)

CronInv ==
  /\ OneEntry
  /\ \A p \in Proc : Decided(p)
  /\ ~edited /\ ~unlisted => \A p \in Proc : UpToDate(p)

\* A crontab without lines has none.
LEMMA NoLines == ToSet(<<>>) = {}
<1>1. DOMAIN <<>> = {}
  OBVIOUS
<1> QED
  BY <1>1 DEF ToSet

\* A line is contained in a crontab if it is one of its lines.
LEMMA ContainsLine ==
  ASSUME NEW lines \in Seq(Line), NEW line
  PROVE  Contains(lines, line) <=> line \in ToSet(lines)
<1>1. DOMAIN lines = 1..Len(lines)
  OBVIOUS
<1> QED
  BY <1>1 DEF Contains, ToSet

\* Of what two sequences of lines have in it at most one entry: one without
\* any that the entry is appended to, and one with one that another is.
LEMMA AppendedEntry ==
  ASSUME NEW lines \in Seq(Line), NEW line \in Line,
         \/ Entry \notin ToSet(lines)
         \/ /\ line # Entry
            /\ \A i, j \in DOMAIN lines : lines[i] = Entry /\ lines[j] = Entry => i = j
  PROVE  LET longer == Append(lines, line)
         IN  \A i, j \in DOMAIN longer : longer[i] = Entry /\ longer[j] = Entry => i = j
<1> DEFINE longer == Append(lines, line)
           n == Len(lines)
<1>1. /\ \A i \in 1..n : longer[i] = lines[i]
      /\ longer[n + 1] = line
      /\ n \in Nat /\ DOMAIN lines = 1..n /\ DOMAIN longer = 1..(n + 1)
  OBVIOUS
<1>2. \A i \in 1..(n + 1) : i \in 1..n \/ i = n + 1
  BY <1>1
<1> HIDE DEF longer, n
<1>3. CASE Entry \notin ToSet(lines)
  <2>1. \A i \in 1..n : lines[i] # Entry
    BY <1>1, <1>3 DEF ToSet
  <2>2. \A i \in 1..(n + 1) : longer[i] = Entry => i = n + 1
    BY <1>1, <1>2, <2>1
  <2> QED
    BY <1>1, <2>2 DEF longer
<1>4. CASE /\ line # Entry
           /\ \A i, j \in DOMAIN lines : lines[i] = Entry /\ lines[j] = Entry => i = j
  <2>1. \A i \in 1..(n + 1) : longer[i] = Entry => i \in 1..n /\ lines[i] = Entry
    BY <1>1, <1>2, <1>4
  <2> QED
    BY <1>1, <1>4, <2>1 DEF longer
<1> QED
  BY <1>3, <1>4

\* A step of a process that leaves the crontab alone, and reaches neither of the
\* two labels where it is replaced, keeps the invariant.
LEMMA CronQuiet ==
  ASSUME TypeInv, CronInv, NEW p \in Proc,
         NEW label \in (Stopped \cup Running) \ {"install", "remove"}, Goto(p, label),
         UNCHANGED <<crontab, edited, unlisted>>,
         \A q \in Proc : q # p => existing'[q] = existing[q] /\ command'[q] = command[q]
  PROVE  CronInv'
<1>1. pc'[p] = label /\ \A q \in Proc : q # p => pc'[q] = pc[q]
  BY GotoLemma DEF TypeInv, TypeOK
<1>2. OneEntry'
  BY DEF CronInv, OneEntry
<1>3. ASSUME NEW q \in Proc PROVE Decided(q)'
  BY <1>1 DEF CronInv, Decided
<1>4. ASSUME ~edited', ~unlisted', NEW q \in Proc PROVE UpToDate(q)'
  BY <1>1, <1>4 DEF CronInv, UpToDate, Theirs
<1> QED
  BY <1>2, <1>3, <1>4 DEF CronInv

\* What a process has read is what there is, or nothing is known of it.
LEMMA CronList ==
  ASSUME TypeInv, CronInv, NEW p \in Proc, ListCrontab(p) \/ ListCrontabFails(p)
  PROVE  CronInv'
<1> USE DEF Stopped, Running, Creating
<1>0. /\ pc \in [Proc -> Stopped \cup Running]
      /\ existing \in [Proc -> Seq(Line)] /\ crontab \in Seq(Line)
  BY DEF TypeInv, TypeOK, Line
<1>1. UNCHANGED <<crontab, command, edited>>
  BY DEF ListCrontab, ListCrontabFails, history
<1>2. PICK label \in Stopped \cup Running : Goto(p, label)
  BY DEF ListCrontab, AfterList, ListCrontabFails
<1>3. pc'[p] = label /\ \A q \in Proc : q # p => pc'[q] = pc[q]
  BY <1>0, <1>2, GotoLemma
<1>4. \A q \in Proc : q # p => existing'[q] = existing[q]
  BY <1>0 DEF ListCrontab, ListCrontabFails
<1>5. OneEntry'
  BY <1>1 DEF CronInv, OneEntry
<1>6. unlisted => unlisted'
  BY Zenon DEF ListCrontab, ListCrontabFails, history
<1>7. \A q \in Proc : q # p => Decided(q)' /\ (~edited' /\ ~unlisted' => UpToDate(q)')
  BY <1>1, <1>3, <1>4, <1>6 DEF CronInv, Decided, UpToDate, Theirs
<1>8. CASE ListCrontab(p)
  <2>1. existing'[p] = crontab /\ pc'[p] = AfterList(p, crontab)
    BY <1>0, <1>8, GotoLemma DEF ListCrontab, AfterList
  <2>2. Contains(crontab, Entry) <=> Entry \in ToSet(crontab)
    BY <1>0, ContainsLine
  <2> QED
    BY <1>1, <1>5, <1>7, <2>1, <2>2 DEF CronInv, Decided, UpToDate, AfterList
<1>9. CASE ListCrontabFails(p)
  <2>1. /\ existing'[p] = <<>>
        /\ pc'[p] = IF command[p] = "schedule --remove" THEN "ok" ELSE "install"
    BY <1>0, <1>9, GotoLemma DEF ListCrontabFails
  <2>2. ~unlisted' => crontab = <<>>
    BY <1>9, Zenon DEF ListCrontabFails
  <2> QED
    BY <1>1, <1>5, <1>7, <2>1, <2>2, NoLines DEF CronInv, Decided, UpToDate
<1> QED
  BY <1>8, <1>9

\* A crontab that is replaced has the user's lines of the one that was read.
LEMMA CronWrites ==
  ASSUME TypeInv, NEW p \in Proc, Install(p) \/ RemoveEntry(p)
  PROVE  /\ crontab' \in Seq(Line)
         /\ Theirs(crontab') = Theirs(existing[p])
         /\ Entry \in ToSet(crontab') <=> pc[p] = "install"
<1>1. existing[p] \in Seq(Line) /\ Entry \in Line
  BY DEF TypeInv, TypeOK, Line
<1>2. CASE Install(p)
  <2>1. crontab' = Append(existing[p], Entry) /\ pc[p] = "install"
    BY <1>2 DEF Install
  <2>2. ToSet(Append(existing[p], Entry)) = ToSet(existing[p]) \cup {Entry}
    BY <1>1, AppendedLines
  <2>3. Append(existing[p], Entry) \in Seq(Line)
    BY <1>1
  <2> QED
    BY <2>1, <2>2, <2>3 DEF Theirs
<1>3. CASE RemoveEntry(p)
  <2>1. crontab' = Kept(existing[p]) /\ pc[p] = "remove"
    BY <1>3 DEF RemoveEntry
  <2>2. /\ Kept(existing[p]) \in Seq(Line)
        /\ ToSet(Kept(existing[p])) = ToSet(existing[p]) \ {Entry}
    BY <1>1, KeptLines
  <2> QED
    BY <2>1, <2>2 DEF Theirs
<1> QED
  BY <1>2, <1>3

LEMMA CronReplaced ==
  ASSUME TypeInv, CronInv, NEW p \in Proc, Install(p) \/ RemoveEntry(p)
  PROVE  CronInv'
<1> USE DEF Stopped, Running, Creating, history
<1>0. pc \in [Proc -> Stopped \cup Running] /\ existing[p] \in Seq(Line) /\ Entry \in Line
  BY DEF TypeInv, TypeOK, Line
<1>1. UNCHANGED <<existing, command, edited, unlisted>> /\ Goto(p, "ok")
  BY DEF Install, RemoveEntry
<1>2. pc'[p] = "ok" /\ \A q \in Proc : q # p => pc'[q] = pc[q]
  BY <1>0, <1>1, GotoLemma
<1>3. /\ crontab' \in Seq(Line)
      /\ Theirs(crontab') = Theirs(existing[p])
      /\ Entry \in ToSet(crontab') <=> pc[p] = "install"
  BY CronWrites
<1>4. OneEntry'
  <2>1. CASE Install(p)
    <3>1. crontab' = Append(existing[p], Entry) /\ pc[p] = "install"
      BY <2>1 DEF Install
    <3>2. Entry \notin ToSet(existing[p])
      BY <3>1 DEF CronInv, Decided
    <3> QED
      BY <1>0, <3>1, <3>2, AppendedEntry DEF OneEntry
  <2>2. CASE RemoveEntry(p)
    <3>1. Entry \notin ToSet(crontab')
      BY <1>3, <2>2 DEF RemoveEntry
    <3> QED
      BY <3>1 DEF OneEntry, ToSet
  <2> QED
    BY <2>1, <2>2
<1>5. ASSUME NEW q \in Proc PROVE Decided(q)'
  BY <1>1, <1>2 DEF CronInv, Decided
<1>6. ASSUME ~edited', ~unlisted', NEW q \in Proc PROVE UpToDate(q)'
  <2>1. UpToDate(p) /\ UpToDate(q)
    BY <1>1, <1>6 DEF CronInv
  <2>2. Theirs(crontab') = Theirs(crontab)
    BY <1>3, <2>1 DEF Install, RemoveEntry, UpToDate
  <2> QED
    BY <1>1, <1>2, <2>1, <2>2 DEF UpToDate
<1> QED
  BY <1>4, <1>5, <1>6 DEF CronInv

\* A line the user adds is none of the scheduler's, and no command that runs
\* knows of it.
LEMMA CronAdded ==
  ASSUME TypeInv, CronInv, NEW j \in Job, AddJob(j)
  PROVE  CronInv'
<1>1. UNCHANGED <<existing, command, pc, unlisted>> /\ crontab' = Append(crontab, j)
  BY DEF AddJob
<1>2. crontab \in Seq(Line) /\ j \in Line /\ j # Entry
  BY EntryAssumption DEF TypeInv, TypeOK, Line
<1>3. OneEntry'
  BY <1>1, <1>2, AppendedEntry DEF CronInv, OneEntry
<1>4. ASSUME NEW q \in Proc PROVE Decided(q)'
  BY <1>1 DEF CronInv, Decided
<1>5. ASSUME ~edited', NEW q \in Proc PROVE pc[q] \notin Running
  BY <1>5, Zenon DEF AddJob
<1>6. ASSUME ~edited', ~unlisted', NEW q \in Proc PROVE UpToDate(q)'
  BY <1>1, <1>5, <1>6 DEF UpToDate, Running
<1> QED
  BY <1>3, <1>4, <1>6 DEF CronInv

LEMMA CronStep == TypeInv /\ CronInv /\ [Next]_vars => CronInv'
<1> SUFFICES ASSUME TypeInv, CronInv, [Next]_vars PROVE CronInv'
  OBVIOUS
<1> USE DEF Stopped, Running, Creating, keyVars, cronVars, history, bounds
<1>1. ASSUME NEW p \in Proc, NEW c \in Command, Start(p, c) PROVE CronInv'
  <2>1. PICK label \in (Stopped \cup Running) \ {"install", "remove"} : Goto(p, label)
    BY <1>1 DEF Start, FirstStep, Command
  <2>2. UNCHANGED <<crontab, edited, unlisted>>
    BY <1>1 DEF Start
  <2>3. \A q \in Proc : q # p => existing'[q] = existing[q] /\ command'[q] = command[q]
    BY <1>1 DEF Start, TypeInv, TypeOK
  <2> QED
    BY <2>1, <2>2, <2>3, CronQuiet
<1>2. ASSUME NEW p \in Proc, NEW label \in (Stopped \cup Running) \ {"install", "remove"},
             Goto(p, label), UNCHANGED <<crontab, existing, command, edited, unlisted>>
      PROVE  CronInv'
  BY <1>2, CronQuiet
<1>3. ASSUME NEW p \in Proc, OpenConfig(p) \/ WriteConfig(p) PROVE CronInv'
  BY <1>2, <1>3 DEF OpenConfig, WriteConfig
<1>4. ASSUME NEW p \in Proc, EnsureKeypair(p) PROVE CronInv'
  BY <1>2, <1>4 DEF EnsureKeypair
<1>5. ASSUME NEW p \in Proc, LoadKeypair(p) PROVE CronInv'
  BY <1>2, <1>5 DEF LoadKeypair, AfterLoad
<1>6. ASSUME NEW p \in Proc, GenerateKey(p) PROVE CronInv'
  BY <1>2, <1>6 DEF GenerateKey
<1>7. ASSUME NEW p \in Proc, WritePrivateKey(p) \/ WritePublicKey(p) PROVE CronInv'
  BY <1>2, <1>7 DEF WritePrivateKey, WritePublicKey
<1>8. ASSUME NEW p \in Proc, Announce(p) \/ LoadConfig(p) PROVE CronInv'
  BY <1>2, <1>8 DEF Announce, LoadConfig
<1>9. ASSUME NEW p \in Proc, Interrupt(p) PROVE CronInv'
  BY <1>2, <1>9 DEF Interrupt
<1>11. ASSUME NEW p \in Proc, InstallFails(p) \/ RemoveFails(p) PROVE CronInv'
  BY <1>2, <1>11 DEF InstallFails, RemoveFails
<1>10. CASE UNCHANGED vars
  BY <1>10 DEF vars, CronInv, OneEntry, Decided, UpToDate
<1> QED
  BY <1>1, <1>3, <1>4, <1>5, <1>6, <1>7, <1>8, <1>9, <1>10, <1>11,
     CronList, CronReplaced, CronAdded DEF Next, Step

LEMMA CronInvariant == Spec => []CronInv
<1>1. Init => CronInv
  BY DEF Init, CronInv, OneEntry, Decided, UpToDate
<1> QED
  BY <1>1, CronStep, TypeInvariant, PTL DEF Spec

\* However inits, schedules, removals and edits interleave, and whichever of
\* them fail, collect is scheduled at most once.
THEOREM OneEntryHolds == Spec => []OneEntry
<1>1. CronInv => OneEntry
  BY DEF CronInv
<1> QED
  BY <1>1, CronInvariant, PTL

\* No command loses a line of the user's, unless the user edits the crontab
\* while it runs or the crontab cannot be listed.
THEOREM TheirLinesAreKeptHolds == Spec => TheirLinesAreKept
<1>1. TypeInv /\ CronInv /\ [Next]_vars =>
        [~edited' /\ ~unlisted' => ToSet(crontab) \ {Entry} \subseteq ToSet(crontab')]_vars
  <2> SUFFICES ASSUME TypeInv, CronInv, Next, ~edited', ~unlisted'
               PROVE  Theirs(crontab) \subseteq ToSet(crontab')
    BY DEF Theirs
  <2> USE DEF keyVars, cronVars, history, bounds
  <2>1. ASSUME NEW p \in Proc, Install(p) \/ RemoveEntry(p)
        PROVE  Theirs(crontab) \subseteq ToSet(crontab')
    <3>1. UpToDate(p)
      BY <2>1 DEF Install, RemoveEntry, CronInv
    <3>2. Theirs(crontab') = Theirs(crontab)
      BY <2>1, <3>1, CronWrites DEF Install, RemoveEntry, UpToDate
    <3> QED
      BY <3>2 DEF Theirs
  <2>2. ASSUME NEW j \in Job, AddJob(j)
        PROVE  Theirs(crontab) \subseteq ToSet(crontab')
    <3>1. crontab \in Seq(Line) /\ j \in Line /\ crontab' = Append(crontab, j)
      BY <2>2 DEF TypeInv, TypeOK, Line, AddJob
    <3>2. ToSet(Append(crontab, j)) = ToSet(crontab) \cup {j}
      BY <3>1, AppendedLines
    <3> QED
      BY <3>1, <3>2 DEF Theirs
  <2>3. CASE UNCHANGED crontab
    BY <2>3 DEF Theirs
  <2>4. ASSUME NEW p \in Proc, Step(p)
        PROVE  Install(p) \/ RemoveEntry(p) \/ UNCHANGED crontab
    BY <2>4 DEF Step, OpenConfig, WriteConfig, EnsureKeypair, LoadKeypair, GenerateKey,
       WritePrivateKey, WritePublicKey, Announce, LoadConfig, ListCrontab, ListCrontabFails,
       InstallFails, RemoveFails
  <2>5. ASSUME NEW p \in Proc, Interrupt(p) \/ \E c \in Command : Start(p, c)
        PROVE  UNCHANGED crontab
    BY <2>5 DEF Interrupt, Start
  <2> QED
    BY <2>1, <2>2, <2>3, <2>4, <2>5 DEF Next
<1> QED
  BY <1>1, CronInvariant, TypeInvariant, PTL DEF Spec, TheirLinesAreKept

\* What a command reports of the schedule when it ends without an error or a
\* warning is so.
THEOREM ScheduleIsAsReportedHolds == Spec => ScheduleIsAsReported
<1> DEFINE Reported ==
             ~unlisted' =>
               \A p \in Proc : pc[p] # "ok" /\ pc'[p] = "ok" /\ command[p] # "fingerprint" =>
                 (Contains(crontab', Entry) <=> command[p] # "schedule --remove")
           Ends(p) == pc[p] # "ok" /\ pc'[p] = "ok" /\ command[p] # "fingerprint"
<1>1. TypeInv /\ TypeInv' /\ CronInv /\ [Next]_vars => [Reported]_vars
  <2> SUFFICES ASSUME TypeInv, TypeInv', CronInv, Next, ~unlisted', NEW p \in Proc, Ends(p)
               PROVE  Entry \in ToSet(crontab') <=> command[p] # "schedule --remove"
    BY ContainsLine DEF TypeInv, TypeOK, Line
  <2> USE DEF Stopped, Running, Creating, keyVars, cronVars, history, bounds
  <2>0. pc \in [Proc -> Stopped \cup Running] /\ crontab \in Seq(Line)
    BY DEF TypeInv, TypeOK, Line
  <2>1. ASSUME NEW q \in Proc, q # p, NEW label \in Stopped \cup Running, Goto(q, label)
        PROVE  FALSE
    BY <2>0, <2>1, GotoLemma
  <2>2. ASSUME NEW label \in (Stopped \cup Running) \ {"ok"}, Goto(p, label)
        PROVE  FALSE
    BY <2>0, <2>2, GotoLemma
  <2>3. ASSUME NEW q \in Proc, NEW c \in Command, Start(q, c) PROVE FALSE
    <3>1. PICK label \in (Stopped \cup Running) \ {"ok"} : Goto(q, label)
      BY <2>3 DEF Start, FirstStep, Command
    <3> QED
      BY <2>1, <2>2, <3>1
  <2>4. ASSUME NEW q \in Proc, Interrupt(q) PROVE FALSE
    BY <2>1, <2>2, <2>4 DEF Interrupt
  <2>5. ASSUME NEW j \in Job, AddJob(j) PROVE FALSE
    BY <2>5 DEF AddJob
  <2>6. ASSUME NEW q \in Proc, Step(q)
        PROVE  \E label \in Stopped \cup Running : Goto(q, label)
    BY <2>6 DEF Step, OpenConfig, WriteConfig, EnsureKeypair, LoadKeypair, AfterLoad,
       GenerateKey, WritePrivateKey, WritePublicKey, Announce, LoadConfig, ListCrontab,
       AfterList, ListCrontabFails, Install, InstallFails, RemoveEntry, RemoveFails
  <2>7. Step(p)
    BY <2>1, <2>3, <2>4, <2>5, <2>6 DEF Next
  <2>8. CASE Install(p) \/ RemoveEntry(p)
    <3>1. Entry \in ToSet(crontab') <=> pc[p] = "install"
      BY <2>8, CronWrites
    <3>2. Decided(p) /\ pc[p] \in {"install", "remove"}
      BY <2>8 DEF CronInv, Install, RemoveEntry
    <3> QED
      BY <3>1, <3>2 DEF Decided
  <2>9. CASE ListCrontab(p)
    <3>1. AfterList(p, crontab) = "ok" /\ crontab' = crontab
      BY <2>0, <2>9, GotoLemma DEF ListCrontab, AfterList
    <3>2. Contains(crontab, Entry) <=> Entry \in ToSet(crontab)
      BY <2>0, ContainsLine
    <3> QED
      BY <3>1, <3>2 DEF AfterList
  <2>10. CASE ListCrontabFails(p)
    <3>1. crontab' = crontab /\ crontab = <<>>
      BY <2>10, Zenon DEF ListCrontabFails
    <3>2. pc'[p] = IF command[p] = "schedule --remove" THEN "ok" ELSE "install"
      BY <2>0, <2>10, GotoLemma DEF ListCrontabFails
    <3> QED
      BY <3>1, <3>2, NoLines
  <2>11. CASE LoadKeypair(p)
    <3>1. AfterLoad(p) = "ok"
      BY <2>0, <2>11, GotoLemma DEF LoadKeypair, AfterLoad
    <3> QED
      BY <3>1 DEF AfterLoad
  <2>12. CASE OpenConfig(p) \/ WriteConfig(p) \/ EnsureKeypair(p) \/ GenerateKey(p)
    BY <2>2, <2>12 DEF OpenConfig, WriteConfig, EnsureKeypair, GenerateKey
  <2>13. CASE WritePrivateKey(p) \/ WritePublicKey(p) \/ Announce(p) \/ LoadConfig(p)
    BY <2>2, <2>13 DEF WritePrivateKey, WritePublicKey, Announce, LoadConfig
  <2>14. CASE InstallFails(p) \/ RemoveFails(p)
    BY <2>2, <2>14 DEF InstallFails, RemoveFails
  <2> QED
    BY <2>7, <2>8, <2>9, <2>10, <2>11, <2>12, <2>13, <2>14 DEF Step
<1> QED
  BY <1>1, CronInvariant, TypeInvariant, PTL DEF Spec, ScheduleIsAsReported
=============================================================================

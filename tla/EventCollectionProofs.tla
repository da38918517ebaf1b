------------------------ MODULE EventCollectionProofs ------------------------
(***************************************************************************)
(* Proofs about the collect flow for every registry of adapters, every set *)
(* of keys and processes and every bound.  None of the safety properties   *)
(* is inductive alone: what a commit does to the table follows from what   *)
(* the transaction holds (RunProgress), that nobody else wrote meanwhile   *)
(* (OneWriter) and what INSERT OR IGNORE saw (NoDuplicateInFlight).        *)
(***************************************************************************)
EXTENDS EventCollection, TLAPS

\* The inductive invariant: the safety invariants together.
IInv ==
  /\ TypeOK
  /\ OneWriter
  /\ RowsWereLogged
  /\ NoDuplicateInFlight
  /\ RunProgress
  /\ SuccessMeansStored

\* The registry's entries are sources, and lengths are natural numbers.
LEMMA RegistryLemma ==
  /\ Len(Registry) \in Nat
  /\ \A i \in 1..Len(Registry) : Registry[i] \in Source
BY RegistryAssumption DEF Source

\* The tables are typed: a bound on versions makes Version a set of naturals.
LEMMA VersionLemma ==
  /\ Absent \in Version
  /\ Version \subseteq Nat
  /\ Empty \in [DedupKey -> Version]
BY BoundAssumption DEF Version, Absent, Empty

\* The versions in the log, the table and every batch are natural numbers.
LEMMA NatLemma ==
  ASSUME TypeOK, NEW p \in Proc, NEW d \in DedupKey
  PROVE  /\ log[d] \in Nat
         /\ events[d] \in Nat
         /\ batch[p] \in [DedupKey -> Version]
         /\ batch[p][d] \in Nat
         /\ tx[p] \in [DedupKey -> Version]
         /\ tx[p][d] \in Nat
<1>1. batch[p] \in [DedupKey -> Version] /\ tx[p] \in [DedupKey -> Version]
  BY DEF TypeOK
<1>2. log[d] \in Version /\ events[d] \in Version
  BY DEF TypeOK
<1> QED
  BY <1>1, <1>2, VersionLemma

\* What an adapter gathers is a batch, and holds nothing that is not logged.
LEMMA GatheredLemma ==
  ASSUME TypeOK, NEW p \in Proc, NEW s, NEW lost
  PROVE  /\ Gathered(p, s, lost) \in [DedupKey -> Version]
         /\ \A d \in DedupKey :
              Gathered(p, s, lost)[d] \in {log[d], batch[p][d]}
BY DEF TypeOK, Gathered

\* The program starts in a state of the inductive invariant.
LEMMA InitInv == Init => IInv
<1> SUFFICES ASSUME Init PROVE IInv
  OBVIOUS
<1> USE VersionLemma, RegistryLemma DEF Init
<1>1. TypeOK
  BY BoundAssumption DEF TypeOK, Stopped
<1>2. OneWriter
  BY ProcAssumption DEF OneWriter
<1>3. RowsWereLogged
  BY DEF RowsWereLogged, Empty, Absent
<1>4. NoDuplicateInFlight /\ SuccessMeansStored
  BY DEF NoDuplicateInFlight, SuccessMeansStored
<1>5. RunProgress
  BY DEF RunProgress, Progress, Empty, Absent
<1> QED
  BY <1>1, <1>2, <1>3, <1>4, <1>5 DEF IInv

\* Every step keeps the types.
LEMMA TypeStep == TypeOK /\ [Next]_vars => TypeOK'
<1> SUFFICES ASSUME TypeOK, [Next]_vars PROVE TypeOK'
  OBVIOUS
<1> USE VersionLemma, RegistryLemma DEF TypeOK, runVars
<1>1. ASSUME NEW d \in DedupKey, LogTurn(d) PROVE TypeOK'
  <2>1. log[d] + 1 \in Version
    BY <1>1, BoundAssumption DEF LogTurn, Version
  <2> QED
    BY <1>1, <2>1 DEF LogTurn
<1>2. ASSUME NEW p \in Proc, NEW s \in Filters(p), Start(p, s) PROVE TypeOK'
  BY <1>2 DEF Start, Filters, Stopped, Running
<1>3. ASSUME NEW p \in Proc, CollectAdapter(p) PROVE TypeOK'
  BY <1>3, GatheredLemma DEF CollectAdapter
<1>4. ASSUME NEW p \in Proc, NEW lost \in SUBSET Key, CollectPartly(p, lost)
      PROVE TypeOK'
  BY <1>4, GatheredLemma, BoundAssumption DEF CollectPartly
<1>5. ASSUME NEW p \in Proc, NothingToWrite(p) PROVE TypeOK'
  BY <1>5 DEF NothingToWrite, Stopped
<1>6. ASSUME NEW p \in Proc, BeginTx(p) PROVE TypeOK'
  BY <1>6 DEF BeginTx, Running, Present
<1>7. ASSUME NEW p \in Proc, NEW d \in DedupKey, InsertOrIgnore(p, d)
      PROVE TypeOK'
  BY <1>7 DEF InsertOrIgnore, RowAdded, StillPending, Running
<1>8. ASSUME NEW p \in Proc, Commit(p) PROVE TypeOK'
  <2>1. WithRows(events, tx[p]) \in [DedupKey -> Version]
    BY DEF WithRows
  <2> QED
    BY <1>8, <2>1 DEF Commit, Stopped
<1>9. ASSUME NEW p \in Proc, Abort(p) PROVE TypeOK'
  BY <1>9, BoundAssumption DEF Abort, Stopped
<1>10. ASSUME NEW p \in Proc, Blocked(p) PROVE TypeOK'
  BY <1>10 DEF Blocked, Stopped
<1>11. CASE UNCHANGED vars
  BY <1>11 DEF vars
<1> QED
  BY <1>1, <1>2, <1>3, <1>4, <1>5, <1>6, <1>7, <1>8, <1>9, <1>10, <1>11
     DEF Next, Agents, Collector, Insert

\* The collect flow is type-correct.
THEOREM TypeCorrect == Spec => []TypeOK
<1>1. Init => TypeOK
  BY InitInv DEF IInv
<1> QED
  BY <1>1, TypeStep, PTL DEF Spec

-----------------------------------------------------------------------------
(* The inductive step, one lemma for each step that disturbs the invariant. *)

\* Logging an entry only raises the version a row or a batch may have.
LEMMA LogTurnStep ==
  ASSUME IInv, TypeOK', NEW e \in DedupKey, LogTurn(e)
  PROVE  IInv'
<1> USE VersionLemma DEF IInv, TypeOK, LogTurn, runVars
<1>1. \A d \in DedupKey : log[d] \in Nat /\ log'[d] \in Nat /\ log[d] <= log'[d]
  BY BoundAssumption DEF Version
<1>2. RowsWereLogged'
  <2> SUFFICES ASSUME NEW d \in DedupKey PROVE events'[d] <= log'[d]
    BY DEF RowsWereLogged
  <2>1. events[d] \in Nat /\ events[d] <= log[d] /\ events' = events
    BY DEF RowsWereLogged
  <2> QED
    BY <1>1, <2>1
<1>3. ASSUME NEW p \in Proc, NEW d \in DedupKey PROVE batch'[p][d] <= log'[d]
  <2>1. batch[p][d] \in Nat /\ batch[p][d] <= log[d] /\ batch' = batch
    BY NatLemma DEF RunProgress, Progress
  <2> QED
    BY <1>1, <2>1
<1>4. RunProgress'
  BY <1>3 DEF RunProgress, Progress, Present
<1>5. OneWriter' /\ NoDuplicateInFlight' /\ SuccessMeansStored'
  BY DEF OneWriter, NoDuplicateInFlight, SuccessMeansStored, Present
<1> QED
  BY <1>2, <1>4, <1>5

\* A new run has read and written nothing.
LEMMA StartStep ==
  ASSUME IInv, TypeOK', NEW q \in Proc, NEW s \in Filters(q), Start(q, s)
  PROVE  IInv'
<1> USE VersionLemma DEF IInv, TypeOK, Start
<1>1. OneWriter' /\ RowsWereLogged'
  BY DEF OneWriter, RowsWereLogged, Stopped
<1>2. NoDuplicateInFlight' /\ SuccessMeansStored'
  BY DEF NoDuplicateInFlight, SuccessMeansStored
<1>3. RunProgress'
  <2> SUFFICES ASSUME NEW p \in Proc PROVE Progress(p)'
    BY DEF RunProgress
  <2>1. CASE p = q
    <3>1. ASSUME NEW d \in DedupKey PROVE batch'[q][d] <= log'[d]
      BY NatLemma DEF Empty, Absent
    <3> QED
      BY <2>1, <3>1 DEF Progress
  <2>2. CASE p # q
    BY <2>2 DEF RunProgress, Progress
  <2> QED
    BY <2>1, <2>2
<1> QED
  BY <1>1, <1>2, <1>3

\* Whatever an adapter reads, and whatever it skips, the batch holds only what
\* was in it or is logged.
LEMMA ReadStep ==
  ASSUME IInv, TypeOK', NEW q \in Proc, NEW lost,
         pc[q] = "collecting", next[q] <= Len(Registry),
         batch' = [batch EXCEPT ![q] = Gathered(q, Registry[next[q]], lost)],
         UNCHANGED <<log, events, lock, pc, filter, pending, tx>>
  PROVE  IInv'
<1> USE VersionLemma DEF IInv, TypeOK
<1>1. OneWriter' /\ RowsWereLogged' /\ NoDuplicateInFlight'
  BY DEF OneWriter, RowsWereLogged, NoDuplicateInFlight
<1>2. ASSUME NEW p \in Proc, p # q PROVE batch'[p] = batch[p]
  BY <1>2
<1>3. SuccessMeansStored'
  BY <1>2 DEF SuccessMeansStored, Present
<1>4. RunProgress'
  <2> SUFFICES ASSUME NEW p \in Proc PROVE Progress(p)'
    BY DEF RunProgress
  <2>1. CASE p = q
    <3>1. ASSUME NEW d \in DedupKey PROVE batch'[q][d] <= log'[d]
      <4>1. batch'[q][d] \in {log[d], batch[q][d]}
        BY GatheredLemma
      <4>2. batch[q][d] <= log[d] /\ log[d] \in Nat
        BY NatLemma DEF RunProgress, Progress
      <4> QED
        BY <4>1, <4>2
    <3> QED
      BY <2>1, <3>1 DEF RunProgress, Progress
  <2>2. CASE p # q
    BY <1>2, <2>2 DEF RunProgress, Progress, Present
  <2> QED
    BY <2>1, <2>2
<1> QED
  BY <1>1, <1>3, <1>4

\* A run that found nothing has stored everything it read.
LEMMA NothingStep ==
  ASSUME IInv, TypeOK', NEW q \in Proc, NothingToWrite(q)
  PROVE  IInv'
<1> USE DEF IInv, TypeOK, NothingToWrite
<1>1. OneWriter' /\ RowsWereLogged' /\ NoDuplicateInFlight'
  BY DEF OneWriter, RowsWereLogged, NoDuplicateInFlight
<1>2. SuccessMeansStored'
  BY DEF SuccessMeansStored, Present
<1>3. RunProgress'
  BY DEF RunProgress, Progress, Present
<1> QED
  BY <1>1, <1>2, <1>3

\* A transaction begins with the whole batch to insert and no row added.
LEMMA BeginStep ==
  ASSUME IInv, TypeOK', NEW q \in Proc, BeginTx(q)
  PROVE  IInv'
<1> USE DEF IInv, TypeOK, BeginTx
<1>1. OneWriter' /\ RowsWereLogged' /\ NoDuplicateInFlight' /\ SuccessMeansStored'
  BY DEF OneWriter, RowsWereLogged, NoDuplicateInFlight, SuccessMeansStored, Present
<1>2. RunProgress'
  BY DEF RunProgress, Progress, Present
<1> QED
  BY <1>1, <1>2

\* One INSERT OR IGNORE: the row is added if its key is not in the table, and
\* no other process can have been writing.
LEMMA InsertStep ==
  ASSUME IInv, TypeOK', NEW q \in Proc, NEW e \in DedupKey, InsertOrIgnore(q, e)
  PROVE  IInv'
<1> USE VersionLemma DEF IInv, TypeOK, InsertOrIgnore, StillPending
<1>1. OneWriter'
  BY ProcAssumption DEF OneWriter, MayWrite
<1>2. RowsWereLogged' /\ SuccessMeansStored'
  BY DEF RowsWereLogged, SuccessMeansStored
<1>3. \A d \in DedupKey :
        tx'[q][d] = IF d # e THEN tx[q][d]
                    ELSE IF events[e] = Absent THEN batch[q][e] ELSE Absent
  BY NatLemma DEF RowAdded
<1>4. \A d \in DedupKey : tx[q][d] # Absent => events[d] = Absent
  <2>1. CASE pc[q] = "begun"
    BY <2>1 DEF RunProgress, Progress, Empty
  <2>2. CASE pc[q] = "inserting"
    BY <2>2 DEF NoDuplicateInFlight
  <2> QED
    BY <2>1, <2>2
<1>5. ASSUME NEW p \in Proc, p # q
      PROVE  tx'[p] = tx[p] /\ pending'[p] = pending[p] /\ pc'[p] = pc[p]
  BY <1>5
<1>6. NoDuplicateInFlight'
  <2> SUFFICES ASSUME NEW p \in Proc, pc'[p] = "inserting",
                      NEW d \in DedupKey, tx'[p][d] # Absent
               PROVE  events'[d] = Absent
    BY DEF NoDuplicateInFlight
  <2>1. CASE p = q
    BY <2>1, <1>3, <1>4
  <2>2. CASE p # q
    BY <2>2, <1>5 DEF NoDuplicateInFlight
  <2> QED
    BY <2>1, <2>2
<1>7. RunProgress'
  <2> SUFFICES ASSUME NEW p \in Proc PROVE Progress(p)'
    BY DEF RunProgress
  <2>1. CASE p = q
    <3>1. /\ pending[q] \subseteq Present(batch[q])
          /\ \A d \in DedupKey : tx[q][d] \in {Absent, batch[q][d]}
          /\ \A d \in Present(batch[q]) \ pending[q] :
               tx[q][d] # Absent \/ events[d] # Absent
      <4>1. CASE pc[q] = "begun"
        BY <4>1 DEF RunProgress, Progress, Empty
      <4>2. CASE pc[q] = "inserting"
        BY <4>2 DEF RunProgress, Progress
      <4> QED
        BY <4>1, <4>2
    <3>2. batch'[q] = batch[q] /\ pending'[q] = pending[q] \ {e} /\ pc'[q] = "inserting"
      OBVIOUS
    <3>3. \A d \in DedupKey : batch'[q][d] <= log'[d]
      BY DEF RunProgress, Progress
    <3>4. pending'[q] \subseteq Present(batch[q])'
      BY <3>1, <3>2 DEF Present
    <3>5. \A d \in DedupKey : tx'[q][d] \in {Absent, batch'[q][d]}
      BY <3>1, <3>2, <1>3
    <3>6. ASSUME NEW d \in Present(batch[q])', d \notin pending'[q]
          PROVE  tx'[q][d] # Absent \/ events'[d] # Absent
      <4>1. d \in DedupKey /\ d \in Present(batch[q]) /\ batch[q][d] # Absent
        BY <3>2, <3>6 DEF Present
      <4>2. CASE d = e
        BY <4>1, <4>2, <1>3
      <4>3. CASE d # e
        BY <4>1, <4>3, <1>3, <3>1, <3>2, <3>6
      <4> QED
        BY <4>2, <4>3
    <3> QED
      BY <2>1, <3>2, <3>3, <3>4, <3>5, <3>6 DEF Progress
  <2>2. CASE p # q
    BY <2>2, <1>5 DEF RunProgress, Progress, Present
  <2> QED
    BY <2>1, <2>2
<1> QED
  BY <1>1, <1>2, <1>6, <1>7

\* What a commit does to the table: every row that was there stays as it was,
\* and the events of the batch join it.
LEMMA CommitLemma ==
  ASSUME IInv, NEW q \in Proc, Commit(q)
  PROVE  /\ \A d \in DedupKey : events[d] # Absent => events'[d] = events[d]
         /\ \A d \in DedupKey : events'[d] \in {events[d], batch[q][d]}
         /\ Present(events') = Present(events) \cup Present(batch[q])
<1> USE DEF IInv, Commit
<1>1. \A d \in DedupKey : events'[d] = IF tx[q][d] # Absent THEN tx[q][d] ELSE events[d]
  BY DEF WithRows
<1>2. \A d \in DedupKey : tx[q][d] # Absent => events[d] = Absent
  BY DEF NoDuplicateInFlight
<1>3. /\ \A d \in DedupKey : tx[q][d] \in {Absent, batch[q][d]}
      /\ \A d \in Present(batch[q]) : tx[q][d] # Absent \/ events[d] # Absent
  BY DEF RunProgress, Progress
<1> QED
  BY <1>1, <1>2, <1>3 DEF Present

\* A commit keeps the invariant: the other runs hold no rows of their own, so
\* nothing they have done so far is out of date.
LEMMA CommitStep ==
  ASSUME IInv, TypeOK', NEW q \in Proc, Commit(q)
  PROVE  IInv'
<1> USE DEF IInv, TypeOK, Commit
<1>1. ASSUME NEW p \in Proc, p # q PROVE pc[p] # "inserting" /\ pc'[p] = pc[p]
  BY <1>1 DEF OneWriter
<1>2. OneWriter' /\ NoDuplicateInFlight'
  BY <1>1, ProcAssumption DEF OneWriter, NoDuplicateInFlight
<1>3. RowsWereLogged'
  <2> SUFFICES ASSUME NEW d \in DedupKey PROVE events'[d] <= log[d]
    BY DEF RowsWereLogged
  <2>1. events[d] <= log[d] /\ batch[q][d] <= log[d]
    BY DEF RowsWereLogged, RunProgress, Progress
  <2>2. events'[d] \in {events[d], batch[q][d]}
    BY CommitLemma
  <2> QED
    BY <2>1, <2>2
<1>4. SuccessMeansStored'
  <2> SUFFICES ASSUME NEW p \in Proc, pc'[p] = "ok", NEW d \in DedupKey,
                      batch[p][d] # Absent
               PROVE  events'[d] # Absent
    BY DEF SuccessMeansStored, Present
  <2>1. Present(events') = Present(events) \cup Present(batch[q])
    BY CommitLemma
  <2>2. d \in Present(batch[p])
    BY DEF Present
  <2>3. CASE p = q
    BY <2>1, <2>2, <2>3 DEF Present
  <2>4. CASE p # q
    <3>1. d \in Present(events)
      BY <1>1, <2>2, <2>4 DEF SuccessMeansStored
    <3> QED
      BY <2>1, <3>1 DEF Present
  <2> QED
    BY <2>3, <2>4
<1>5. RunProgress'
  BY <1>1 DEF RunProgress, Progress, Present
<1> QED
  BY <1>2, <1>3, <1>4, <1>5

\* A run that is cut off loses what it had added and gives up the lock.
LEMMA AbortStep ==
  ASSUME IInv, TypeOK', NEW q \in Proc, Abort(q)
  PROVE  IInv'
<1> USE DEF IInv, TypeOK, Abort
<1>1. OneWriter'
  BY ProcAssumption DEF OneWriter, Running
<1>2. RowsWereLogged' /\ SuccessMeansStored'
  BY DEF RowsWereLogged, SuccessMeansStored
<1>3. NoDuplicateInFlight'
  BY DEF NoDuplicateInFlight
<1>4. RunProgress'
  BY DEF RunProgress, Progress, Present
<1> QED
  BY <1>1, <1>2, <1>3, <1>4

\* A run that another's lock turns away had added no row.
LEMMA BlockedStep ==
  ASSUME IInv, TypeOK', NEW q \in Proc, Blocked(q)
  PROVE  IInv'
<1> USE DEF IInv, TypeOK, Blocked
<1>1. OneWriter' /\ RowsWereLogged' /\ NoDuplicateInFlight' /\ SuccessMeansStored'
  BY DEF OneWriter, RowsWereLogged, NoDuplicateInFlight, SuccessMeansStored, Present
<1>2. RunProgress'
  BY DEF RunProgress, Progress, Present
<1> QED
  BY <1>1, <1>2

\* Every step keeps the inductive invariant.
LEMMA InvStep == IInv /\ [Next]_vars => IInv'
<1> SUFFICES ASSUME IInv, [Next]_vars PROVE IInv'
  OBVIOUS
<1>1. TypeOK'
  BY TypeStep DEF IInv
<1>2. ASSUME NEW d \in DedupKey, LogTurn(d) PROVE IInv'
  BY <1>1, <1>2, LogTurnStep
<1>3. ASSUME NEW p \in Proc, NEW s \in Filters(p), Start(p, s) PROVE IInv'
  BY <1>1, <1>3, StartStep
<1>4. ASSUME NEW p \in Proc, CollectAdapter(p) PROVE IInv'
  BY <1>1, <1>4, ReadStep DEF CollectAdapter
<1>5. ASSUME NEW p \in Proc, NEW lost \in SUBSET Key, CollectPartly(p, lost)
      PROVE IInv'
  BY <1>1, <1>5, ReadStep DEF CollectPartly
<1>6. ASSUME NEW p \in Proc, NothingToWrite(p) PROVE IInv'
  BY <1>1, <1>6, NothingStep
<1>7. ASSUME NEW p \in Proc, BeginTx(p) PROVE IInv'
  BY <1>1, <1>7, BeginStep
<1>8. ASSUME NEW p \in Proc, NEW d \in DedupKey, InsertOrIgnore(p, d) PROVE IInv'
  BY <1>1, <1>8, InsertStep
<1>9. ASSUME NEW p \in Proc, Commit(p) PROVE IInv'
  BY <1>1, <1>9, CommitStep
<1>10. ASSUME NEW p \in Proc, Abort(p) PROVE IInv'
  BY <1>1, <1>10, AbortStep
<1>11. ASSUME NEW p \in Proc, Blocked(p) PROVE IInv'
  BY <1>1, <1>11, BlockedStep
<1>12. CASE UNCHANGED vars
  BY <1>12 DEF vars, IInv, TypeOK, OneWriter, RowsWereLogged, NoDuplicateInFlight,
     SuccessMeansStored, RunProgress, Progress, Present
<1> QED
  BY <1>2, <1>3, <1>4, <1>5, <1>6, <1>7, <1>8, <1>9, <1>10, <1>11, <1>12
     DEF Next, Agents, Collector, Insert

\* The inductive invariant holds in every reachable state.
LEMMA Inductive == Spec => []IInv
BY InitInv, InvStep, PTL DEF Spec

-----------------------------------------------------------------------------
(* The safety properties. *)

\* Between its first INSERT and its COMMIT a process is the only one writing.
THEOREM OneWriterHolds == Spec => []OneWriter
<1>1. IInv => OneWriter
  BY DEF IInv
<1> QED
  BY <1>1, Inductive, PTL

\* Every row was made of something its agent had logged.
THEOREM RowsWereLoggedHolds == Spec => []RowsWereLogged
<1>1. IInv => RowsWereLogged
  BY DEF IInv
<1> QED
  BY <1>1, Inductive, PTL

\* While a process is writing, no row it is adding is in the table already.
THEOREM NoDuplicateInFlightHolds == Spec => []NoDuplicateInFlight
<1>1. IInv => NoDuplicateInFlight
  BY DEF IInv
<1> QED
  BY <1>1, Inductive, PTL

\* A run loses no event that it has read and adds none that it has not.
THEOREM RunProgressHolds == Spec => []RunProgress
<1>1. IInv => RunProgress
  BY DEF IInv
<1> QED
  BY <1>1, Inductive, PTL

\* A collect run that succeeds leaves every event it read in the table, however
\* many other runs read and wrote the same events meanwhile.
THEOREM SuccessMeansStoredHolds == Spec => []SuccessMeansStored
<1>1. IInv => SuccessMeansStored
  BY DEF IInv
<1> QED
  BY <1>1, Inductive, PTL

-----------------------------------------------------------------------------
(* The action properties and the refinement. *)

\* Only a commit and an agent change what readers can see.
LEMMA StepLemma ==
  ASSUME [Next]_vars
  PROVE  \/ UNCHANGED <<log, events>>
         \/ UNCHANGED events /\ \E d \in DedupKey : LogTurn(d)
         \/ \E q \in Proc : Commit(q)
<1> USE DEF runVars
<1>1. CASE Agents
  BY <1>1 DEF Agents, LogTurn
<1>2. ASSUME NEW p \in Proc, Collector(p)
      PROVE  UNCHANGED <<log, events>> \/ \E q \in Proc : Commit(q)
  BY <1>2 DEF Collector, Start, CollectAdapter, CollectPartly, NothingToWrite,
              BeginTx, Insert, InsertOrIgnore, Blocked, Abort
<1>3. CASE UNCHANGED vars
  BY <1>3 DEF vars
<1> QED
  BY <1>1, <1>2, <1>3 DEF Next

\* No row of the events table is ever changed or deleted.
THEOREM RowsAreImmutableHolds == Spec => RowsAreImmutable
<1>1. IInv /\ [Next]_vars =>
        [\A d \in DedupKey : events[d] # Absent => events'[d] = events[d]]_vars
  <2> SUFFICES ASSUME IInv, [Next]_vars, NEW d \in DedupKey, events[d] # Absent
               PROVE  events'[d] = events[d]
    OBVIOUS
  <2>1. CASE UNCHANGED events
    BY <2>1
  <2>2. ASSUME NEW q \in Proc, Commit(q) PROVE events'[d] = events[d]
    BY <2>2, CommitLemma
  <2> QED
    BY <2>1, <2>2, StepLemma
<1> QED
  BY <1>1, Inductive, PTL DEF Spec, RowsAreImmutable

\* The table grows by one run's whole batch at a time, and only when that run
\* succeeds.
THEOREM AllOrNothingHolds == Spec => AllOrNothing
<1>1. IInv /\ [Next]_vars =>
        [events' # events =>
           \E p \in Proc :
             /\ pc[p] \in Running /\ pc'[p] = "ok"
             /\ Present(events') = Present(events) \cup Present(batch[p])]_vars
  <2> SUFFICES ASSUME IInv, [Next]_vars, events' # events
               PROVE  \E p \in Proc :
                        /\ pc[p] \in Running /\ pc'[p] = "ok"
                        /\ Present(events') = Present(events) \cup Present(batch[p])
    OBVIOUS
  <2>1. PICK q \in Proc : Commit(q)
    BY StepLemma
  <2>2. pc[q] \in Running /\ pc'[q] = "ok"
    BY <2>1 DEF Commit, Running, IInv, TypeOK
  <2> QED
    BY <2>1, <2>2, CommitLemma
<1> QED
  BY <1>1, Inductive, PTL DEF Spec, AllOrNothing

\* Every behaviour of the collect processes is a behaviour of the ledger: what
\* readers see is an append-only record that grows by sets of logged entries,
\* whatever the processes, crashes and lost races for the lock behind it.
THEOREM LedgerRefinement == Spec => ImplementsLedger
<1> USE DEF Ledger!ledgerVars
<1>1. Init => Ledger!Init
  BY DEF Init, Ledger!Init, Empty, Absent
<1>2. IInv /\ IInv' /\ [Next]_vars => [Ledger!Next]_(Ledger!ledgerVars)
  <2> SUFFICES ASSUME IInv, IInv', [Next]_vars
               PROVE  [Ledger!Next]_(Ledger!ledgerVars)
    OBVIOUS
  <2>1. CASE UNCHANGED <<log, events>>
    BY <2>1
  <2>2. ASSUME NEW d \in DedupKey, LogTurn(d), UNCHANGED events
        PROVE  Ledger!Next
    BY <2>2 DEF LogTurn, Ledger!Next, Ledger!Log, Absent
  <2>3. ASSUME NEW q \in Proc, Commit(q) PROVE Ledger!Next
    <3>1. events' \in [DedupKey -> 0..MaxVersion]
      BY DEF IInv, TypeOK, Version
    <3>2. ASSUME NEW d \in DedupKey, events'[d] # events[d]
          PROVE  events[d] = 0 /\ events'[d] \in 1..log[d]
      <4>1. events[d] = 0
        BY <2>3, <3>2, CommitLemma DEF Absent
      <4>2. events'[d] = batch[q][d] /\ batch[q][d] <= log[d]
        BY <2>3, <3>2, CommitLemma DEF IInv, RunProgress, Progress
      <4>3. log[d] \in Nat /\ batch[q][d] \in Nat
        BY NatLemma DEF IInv
      <4> QED
        BY <3>2, <4>1, <4>2, <4>3
    <3> QED
      BY <2>3, <3>1, <3>2 DEF Commit, Ledger!Next, Ledger!Record
  <2> QED
    BY <2>1, <2>2, <2>3, StepLemma
<1> QED
  BY <1>1, <1>2, Inductive, PTL DEF Spec, ImplementsLedger, Ledger!Spec
=============================================================================

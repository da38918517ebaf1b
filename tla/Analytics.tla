------------------------------ MODULE Analytics ------------------------------
(***************************************************************************)
(* The reports, as functions of the stored events.  What varies is which   *)
(* events are stored, in which order they arrive, and where a window       *)
(* begins; the state is the table alone, in the order of LoadEvents.       *)
(***************************************************************************)
EXTENDS Findings, DeepAnalysis

CONSTANT MaxEvents  \* bound: how many events are stored

ASSUME EventsAssumption == MaxEvents \in Nat

VARIABLE events  \* the stored events in the order in which LoadEvents returns them

IsByTime(es) == \A i, j \in DOMAIN es : i < j => es[i].ts <= es[j].ts

StoreInit == events = <<>>

\* A run stores a turn, which may be older than others that are stored.  ORDER
\* BY ts says nothing of the order of events of the same second.
Store(e) ==
  /\ Len(events) < MaxEvents
  /\ \E i \in 1..(Len(events) + 1) : events' = InsertAt(events, i, e)
  /\ IsByTime(events')

StoreNext == \E s \in Session, t \in Time, turn \in Turn :
               Store([session |-> s, ts |-> t, turn |-> turn])

StoreSpec == StoreInit /\ [][StoreNext]_events

-----------------------------------------------------------------------------

\* The totals of the engine's one pass over interleaved sessions are the sums of
\* what each session gives by itself: no turn of another session, and no order
\* in which sessions alternate, makes a retry, a restart or a bloated session.
SessionsAreIndependent ==
  LET all == Compute(events)
      alone == [s \in Session |-> Compute(OfSession(events, s))]
      AddsUp(field) == all[field] = SumFunction([s \in Session |-> alone[s][field]])
  IN  \A field \in {"sessions", "spend", "input", "retry", "cold", "bloated", "long"} :
        AddsUp(field)

\* However the tokens and their cost are split up (by activity, by model, by
\* project, by session, and by tool), in the engine, the session statistics and
\* the payload for a language model, the parts account for the whole.
EveryTokenIsAccountedFor ==
  LET m == Compute(events)
      stats == SessionStats(events)
      projects == PayloadProjects(events)
      tools == ToSet(ToolStats(events))
      Accounts(breakdown) ==
        /\ SumFunction([x \in DOMAIN breakdown |-> breakdown[x].tokens]) = m.spend
        /\ SumFunction([x \in DOMAIN breakdown |-> breakdown[x].cost]) = m.cost
  IN  /\ Accounts(m.byActivity) /\ Accounts(m.byModel)
      /\ SumFunction([s \in DOMAIN stats |-> stats[s].cost]) = m.cost
      /\ SumFunction([s \in DOMAIN stats |-> stats[s].spend]) = Sum(AllTokens, events)
      /\ SumFunction([p \in DOMAIN projects |-> projects[p].spend]) = Sum(AllTokens, events)
      /\ \A p \in DOMAIN projects :
           Cardinality(SessionsOf(LoadEvents(events, 0, {p}))) = projects[p].sessions
      /\ \A t \in tools :
           t.retryTokens <= SumFunction([s \in {r \in DOMAIN stats : stats[r].errorTurns > 0} |->
                                           stats[s].spend])

\* A shorter window never shows more: where it begins, in the middle of a
\* session or between an error and its retry, makes up no tokens.
WindowsAreMonotone ==
  \A cutoff \in Time :
    LET longer == Compute(LoadEvents(events, cutoff, Project))
        shorter == Compute(LoadEvents(events, cutoff + 1, Project))
    IN  \A field \in {"sessions", "spend", "cost", "retry", "cold", "long"} :
          shorter[field] <= longer[field]

\* The two halves that the trends compare lose no event and share none, so that
\* the project movers account for the whole change in spend.
MoversAddUp ==
  \A cutoff \in Time :
    LET halves == SplitWindow(events, cutoff)
        cur == Compute(halves.current).spend
        prev == Compute(halves.previous).spend
    IN  /\ cur + prev = Compute(events).spend
        /\ SumFunction(ProjectMovers(halves)) = cur - prev

\* report and analyze agree: on the turns of each session, on the sessions with
\* cold restarts (when every turn has input), of which analyze attributes at
\* least as many tokens, on whether there is any to list, and on who has failed
\* before anything is retried.
AnalysesAgree ==
  LET stats == SessionStats(events)
      sessions == Pass1(events)
      deep == DeepAnalyze(events)
      hasInput == \A e \in ToSet(events) : e.turn.input > 0
  IN  /\ \A s \in SessionsOf(events) :
           /\ stats[s].turns = sessions[s].turns
           /\ sessions[s].cold <= stats[s].coldTokens
           /\ sessions[s].retry > 0 => stats[s].errorTurns > 0
           /\ hasInput => (stats[s].coldTurns > 0 <=> sessions[s].cold > 0)
      /\ hasInput => (deep.coldRestart = <<>> <=> Compute(events).cold = 0)

\* Each recommendation makes sense, in every window: its goal would resolve the
\* finding and is better than what is measured, it saves no more tokens than were
\* spent (but for the premium ones, of which too many are counted), and no more
\* money than the month costs at the rate of the window.  Where the goal is a
\* share of tokens, what is not avoided is that share, to the token.
RecommendationsAddUp ==
  \A cutoff \in Time :
    LET m == Compute(LoadEvents(events, cutoff, Project))
        total == [k \in {"rework", "cold-restart"} |-> IF k = "rework" THEN m.spend ELSE m.input]
        part == [k \in {"rework", "cold-restart"} |-> IF k = "rework" THEN m.retry ELSE m.cold]
        halved == \A x \in Model : m.byModel[x].tokens % 2 = 0
    IN  \A k \in ActiveFindings(m), days \in {1, 30} :
          LET savings == SavingsUsd(k, m, days)
          IN  /\ ~IsActive(k, GoalValue(k))
              /\ IsBetter(k, MetricValue(k, m), GoalValue(k))
              /\ k \notin {"premium-waste", "high-cost"} =>
                   /\ Avoidable(k, m) \in 0..m.spend
                   /\ halved => savings.n * days <= 30 * m.cost * savings.d
              /\ k \in DOMAIN total =>
                   LET rest == 100 * (part[k] - Avoidable(k, m)) - Goal[k] * total[k]
                   IN  0 <= rest /\ rest < 100

\* What one report says of one window is consistent: a trend goes up only if
\* follow-through would call the change an improvement, and down only if not; a
\* persona that comes from a habit goes with the finding about it.
ReportIsConsistent ==
  \A cutoff \in Time :
    LET halves == SplitWindow(events, cutoff)
        cur == Compute(halves.current)
        prev == Compute(halves.previous)
        rows == TrendRows(cur, prev)
        active == ActiveFindings(cur)
        persona == Persona(cur)
    IN  /\ \A k \in TrendKey :
             /\ rows[k] = "up" => IsBetter(k, MetricValue(k, prev), MetricValue(k, cur))
             /\ rows[k] = "down" => IsBetter(k, MetricValue(k, cur), MetricValue(k, prev))
        /\ persona = "firefighter" => active \cap {"rework", "retry-loop"} # {}
        /\ persona = "architect" => "think-overcode" \in active
        /\ persona = "sprinter" => "think-overcode" \notin active
        /\ persona = "surgeon" => active \cap {"cache-miss", "bloat"} = {}

\* The efficiency ratios are in [0, 1].
RatiosInUnitInterval ==
  LET m == Compute(events)
  IN  \A r \in {m.cacheHitRatio, m.reworkRatio, m.thinkToCodeRatio, m.contextBloatShare,
                m.coldRestartShare, m.premiumWasteShare} : 0 <= r.n /\ r.n <= r.d
=============================================================================

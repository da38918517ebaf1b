------------------------------ MODULE Findings ------------------------------
(***************************************************************************)
(* What the reports conclude from the metrics: which of the eight findings *)
(* are active, what resolving each would save, how the metrics move from   *)
(* one half of the window to the other, and which persona they make.       *)
(*                                                                         *)
(* The thresholds, the goals, the directions and the persona's limits are  *)
(* written in five files that do not refer to each other.  All are in      *)
(* hundredths here, and fractions are exact where the code's are floats.   *)
(***************************************************************************)
EXTENDS Metrics

CONSTANT CostLimit  \* the cost beyond which high-cost is active ($50)

ASSUME CostLimitAssumption == CostLimit \in Nat

Finding == {"cache-miss", "rework", "think-overcode", "bloat", "cold-restart",
            "premium-waste", "retry-loop", "high-cost"}

Exceeds(v, hundredths) == v.n * 100 > hundredths * v.d
IsBelow(v, hundredths) == v.n * 100 < hundredths * v.d

\* metricValue.
MetricValue(k, m) ==
  CASE k = "cache-miss"     -> m.cacheHitRatio
    [] k = "rework"         -> m.reworkRatio
    [] k = "think-overcode" -> m.thinkToCodeRatio
    [] k = "bloat"          -> m.contextBloatShare
    [] k = "cold-restart"   -> m.coldRestartShare
    [] k = "premium-waste"  -> m.premiumWasteShare
    [] k = "retry-loop"     -> m.retryShare
    [] k = "high-cost"      -> [n |-> m.cost, d |-> 1]

\* The thresholds of the findings' predicates.
Limit == [k \in Finding |->
  CASE k = "cache-miss" -> 40 [] k = "rework" -> 20 [] k = "think-overcode" -> 50
    [] k = "bloat" -> 20 [] k = "cold-restart" -> 10 [] k = "premium-waste" -> 25
    [] k = "retry-loop" -> 15 [] k = "high-cost" -> 100 * CostLimit]

IsActive(k, v) ==
  IF k = "cache-miss" THEN IsBelow(v, Limit[k]) ELSE Exceeds(v, Limit[k])

ActiveFindings(m) == {k \in Finding : IsActive(k, MetricValue(k, m))}

\* Mutant of IsBetter: lower is better for every metric.
IsLower(k, baseline, current) == current.n * baseline.d < baseline.n * current.d

\* isImproving, of values.
IsBetter(k, baseline, current) ==
  IF k = "cache-miss" THEN current.n * baseline.d > baseline.n * current.d
  ELSE current.n * baseline.d < baseline.n * current.d

-----------------------------------------------------------------------------
(* RecommendationEngine. *)

\* Mutant of Goal: the goal for cold restarts is above their threshold.
LaxGoal == [k \in Finding |->
  CASE k = "cache-miss" -> 60 [] k = "rework" -> 10 [] k = "think-overcode" -> 30
    [] k = "bloat" -> 10 [] k = "cold-restart" -> 15 [] k = "premium-waste" -> 10
    [] k = "retry-loop" -> 5 [] k = "high-cost" -> 0]

\* The goals of the targets.
Goal == [k \in Finding |->
  CASE k = "cache-miss" -> 60 [] k = "rework" -> 10 [] k = "think-overcode" -> 30
    [] k = "bloat" -> 10 [] k = "cold-restart" -> 5 [] k = "premium-waste" -> 10
    [] k = "retry-loop" -> 5 [] k = "high-cost" -> 0]

GoalValue(k) == [n |-> Goal[k], d |-> 100]

\* Up to the goal, from a share v of total, in whole tokens.
Excess(total, v, goal) == (total * (100 * v.n - goal * v.d)) \div (100 * v.d)

\* The tokens that enrich calls avoidable, of an active finding.
Avoidable(k, m) ==
  CASE k = "cache-miss"     ->
         LET v == m.cacheHitRatio
         IN  (m.spend * (Goal[k] * v.d - 100 * v.n)) \div (100 * v.d)
    [] k = "rework"         -> Excess(m.spend, m.reworkRatio, Goal[k])
    [] k = "premium-waste"  -> Excess(m.spend, m.premiumWasteShare, Goal[k])
    [] k = "cold-restart"   ->
         LET v == m.coldRestartShare
         IN  (m.cold * (100 * v.n - Goal[k] * v.d)) \div (100 * v.n)
    [] k = "bloat"          -> m.spend \div 10
    [] k = "think-overcode" -> m.spend \div 20
    [] k = "retry-loop"     -> m.retry \div 2

\* blendedRates: what a token costs, whatever its kind.  Each model's tokens are
\* halved, in integers, and both halves counted.
BlendedRate(m) ==
  SafeDiv(SumFunction([x \in Model |-> m.byModel[x].cost]),
          SumFunction([x \in Model |-> 2 * (m.byModel[x].tokens \div 2)]))

\* SavingsUsd of a month, but for high-cost, whose savings are of the window.
SavingsUsd(k, m, days) ==
  IF k = "high-cost" THEN [n |-> m.cost * 20, d |-> 100]
  ELSE IF days = 0 THEN [n |-> 0, d |-> 1]
  ELSE LET rate == BlendedRate(m)
       IN  [n |-> Avoidable(k, m) * rate.n * 30, d |-> rate.d * days]

\* Enrich: the recommendations by priority (that of equal savings is open).
Enrich(m, days) ==
  LET recs == {[key |-> k, savings |-> SavingsUsd(k, m, days)] : k \in ActiveFindings(m)}
  IN  SetToSortSeq(recs, LAMBDA a, b : a.savings.n * b.savings.d > b.savings.n * a.savings.d)

-----------------------------------------------------------------------------
(* TrendAnalyzer. *)

After(cutoff) == {e \in Event : e.ts > cutoff}

\* Mutant of SplitWindow: an event at the cutoff is in neither half.
SplitWindowStrictly(es, cutoff) ==
  [current |-> Keep(es, After(cutoff)), previous |-> Keep(es, {e \in Event : e.ts < cutoff})]

\* The latter half of a window and the first.  The code's cutoff is the middle of
\* the window, days/2 in integers before now; here it is a parameter, so that what
\* is checked of every cutoff holds of that one for any days.  (No days give no
\* halves; but then no events were loaded.)
SplitWindow(es, cutoff) ==
  [current |-> Keep(es, After(cutoff)), previous |-> Keep(es, Event \ After(cutoff))]

TrendKey == Finding \ {"think-overcode", "high-cost"}

\* trendRow: up is better, if the metric has moved by more than two points.
TrendVerdict(k, cur, prev) ==
  LET delta == [n |-> cur.n * prev.d - prev.n * cur.d, d |-> cur.d * prev.d]
      higherIsBetter == k = "cache-miss"
  IN  IF Exceeds(delta, 2) THEN IF higherIsBetter THEN "up" ELSE "down"
      ELSE IF IsBelow(delta, -2) THEN IF higherIsBetter THEN "down" ELSE "up"
      ELSE "flat"

\* ComputeTrends: the rows, of the metrics of the two halves.
TrendRows(cur, prev) ==
  [k \in TrendKey |-> TrendVerdict(k, MetricValue(k, cur), MetricValue(k, prev))]

InProject(p) == {e \in Event : e.turn.project = p}

\* projectMovers: the projects whose spend has changed, with the change.
ProjectMovers(halves) ==
  LET Of(p, es) == SumIn(SpendOf, es, InProject(p))
      Delta(p) == Of(p, halves.current) - Of(p, halves.previous)
  IN  [p \in {q \in Project : Delta(q) # 0} |-> Delta(p)]

-----------------------------------------------------------------------------

\* Assign: the first persona that fits.
Persona(m) ==
  LET Share(a) == SafeDiv(m.byActivity[a].tokens, m.spend)
  IN  IF Exceeds(m.reworkRatio, 25) \/ Exceeds(m.retryShare, 20) THEN "firefighter"
      ELSE IF Exceeds(m.thinkToCodeRatio, 60) THEN "architect"
      ELSE IF Exceeds(Share("exploration"), 40) THEN "explorer"
      ELSE IF Exceeds(Share("coding"), 50) /\ IsBelow(m.thinkToCodeRatio, 20) THEN "sprinter"
      ELSE IF Exceeds(m.cacheHitRatio, 60) /\ IsBelow(m.contextBloatShare, 10) THEN "surgeon"
      ELSE "balanced"
=============================================================================

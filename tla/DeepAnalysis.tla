---------------------------- MODULE DeepAnalysis ----------------------------
(***************************************************************************)
(* `analyze`: statistics of each session, the lists of the sessions that   *)
(* stand out, statistics of each tool, and the payload for a language      *)
(* model.  SessionAnalyzer walks the events again, with constants of its   *)
(* own for what the metrics engine also computes, and where the engine     *)
(* counts input and output its tokens are all of a turn's.                 *)
(***************************************************************************)
EXTENDS Metrics

CONSTANTS
  TopN,      \* how many sessions a list has at most
  TopToolN   \* how many tools

ASSUME TopAssumption == TopN \in Nat \ {0} /\ TopToolN \in Nat \ {0}

\* Mutant of HasGoneCold: a pause of just the gap counts too.
HasGoneColdAtGap(prevTime, ts) == prevTime # NoTime /\ ts - prevTime >= ColdRestartGap

HasGoneCold(prevTime, ts) == prevTime # NoTime /\ ts - prevTime > ColdRestartGap

NewStat == [turns |-> 0, spend |-> 0, cost |-> 0, errorTurns |-> 0, fixIterations |-> 0,
            coldTurns |-> 0, coldTokens |-> 0, prevActivity |-> "", prevTime |-> NoTime,
            tokens |-> <<>>]

\* buildStat, one turn.
StatOf(st, e) ==
  LET cold == HasGoneCold(st.prevTime, e.ts)
      fixed == st.prevActivity = "testing" /\ ActivityOf[e] = "coding"
  IN  [turns |-> st.turns + 1,
       spend |-> st.spend + AllTokens[e],
       cost |-> st.cost + CostOf[e],
       errorTurns |-> st.errorTurns + IF e.turn.isError THEN 1 ELSE 0,
       fixIterations |-> st.fixIterations + IF fixed THEN 1 ELSE 0,
       coldTurns |-> st.coldTurns + IF cold THEN 1 ELSE 0,
       coldTokens |-> st.coldTokens + IF cold THEN AllTokens[e] ELSE 0,
       prevActivity |-> ActivityOf[e],
       prevTime |-> e.ts,
       tokens |-> Append(st.tokens, AllTokens[e])]

\* The growth from the first half of a long session to the second; 0 of others.
ContextGrowth(st) ==
  LET n == st.turns
      mid == n \div 2
      early == SumFunction(SubSeq(st.tokens, 1, mid))
      late == SumFunction(SubSeq(st.tokens, mid + 1, n))
  IN  IF n >= BloatMinTurns THEN SafeDiv(late * mid, early * (n - mid)) ELSE SafeDiv(0, 1)

\* The activity of the most turns, one of them if there are several.
Dominant(es) ==
  LET Count(a) == Cardinality({i \in DOMAIN es : ActivityOf[es[i]] = a})
      most == Max({Count(a) : a \in Activity})
  IN  {a \in Activity : Count(a) = most}

\* buildStat, the turns of a session one by one.
BuildStat(turns) == FoldLeft(StatOf, NewStat, turns)

\* ComputeSessionStats groups the events by session first.
SessionStats(es) ==
  [s \in SessionsOf(es) |->
     LET turns == OfSession(es, s)
         st == BuildStat(turns)
     IN  [session |-> s, project |-> Head(turns).turn.project, turns |-> st.turns,
          spend |-> st.spend, cost |-> st.cost, errorTurns |-> st.errorTurns,
          fixIterations |-> st.fixIterations, coldTurns |-> st.coldTurns,
          coldTokens |-> st.coldTokens, avgContext |-> st.spend \div st.turns,
          growth |-> ContextGrowth(st), duration |-> Last(turns).ts - Head(turns).ts,
          dominant |-> Dominant(turns)]]

\* The first n of a set that is sorted by an order, which is a set of pairs.
\* Which of equals comes first is left open.
TopOf(S, n, order) ==
  LET First(T) == CHOOSE x \in T : \A y \in T : <<y, x>> \notin order
      left[i \in 0..Cardinality(S)] == IF i = 0 THEN S ELSE left[i - 1] \ {First(left[i - 1])}
  IN  [i \in 1..Min({n, Cardinality(S)}) |-> First(left[i - 1])]

\* DeepAnalyze: the five lists.
DeepAnalyze(es) ==
  LET stats == Range(SessionStats(es))
      Pairs(More(_, _)) == {p \in stats \X stats : More(p[1], p[2])}
  IN  [expensive |-> TopOf(stats, TopN, Pairs(LAMBDA a, b : a.spend > b.spend)),
       fixLoop |-> TopOf({st \in stats : st.fixIterations >= 2}, TopN,
                         Pairs(LAMBDA a, b : a.fixIterations > b.fixIterations)),
       contextHeavy |-> TopOf({st \in stats : st.turns >= BloatMinTurns}, TopN,
                              Pairs(LAMBDA a, b : a.avgContext > b.avgContext)),
       bloatTrend |-> TopOf({st \in stats : st.growth.n >= 2 * st.growth.d}, TopN,
                            Pairs(LAMBDA a, b : a.growth.n * b.growth.d > b.growth.n * a.growth.d)),
       coldRestart |-> TopOf({st \in stats : st.coldTurns > 0}, TopN,
                             Pairs(LAMBDA a, b : a.coldTokens > b.coldTokens))]

\* ComputeToolStats: what turns with a tool have cost, if they failed.
ToolStats(es) ==
  LET Using(t) == Keep(es, {e \in Event : t \in e.turn.tools})
      Failed(t) == Keep(Using(t), {e \in Event : e.turn.isError})
      stats == {[tool |-> t, turns |-> Len(Using(t)), errorTurns |-> Len(Failed(t)),
                 retryTokens |-> Sum(AllTokens, Failed(t))] :
                  t \in {u \in Tool : Using(u) # <<>>}}
  IN  TopOf(stats, TopToolN, {p \in stats \X stats : p[1].turns > p[2].turns})

\* BuildPayload: the projects.
PayloadProjects(es) ==
  LET Of(p) == Keep(es, {e \in Event : e.turn.project = p})
  IN  [p \in {q \in Project : Of(q) # <<>>} |->
         [spend |-> Sum(AllTokens, Of(p)), sessions |-> Cardinality(SessionsOf(Of(p)))]]
=============================================================================

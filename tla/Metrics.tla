------------------------------- MODULE Metrics -------------------------------
(***************************************************************************)
(* MetricsEngine.Compute: what `report`, `push` and `analyze` make of the  *)
(* events of their window.  A pure function of a list of events, which     *)
(* comes ordered by time and with the turns of several sessions mixed.     *)
(*                                                                         *)
(* A ratio is a pair of naturals, [n, d] for n / d, and money is counted   *)
(* in whole units of which Price says how many a token costs.              *)
(***************************************************************************)
EXTENDS Classifier, Integers, FiniteSets, Sequences, SequencesExt, FiniteSetsExt

CONSTANTS
  Session, Project, Model,
  Premium,        \* the models that IsPremiumModel knows
  Price,          \* what a token of each kind costs, of the models in PRICES
  Turn,           \* what a turn may be
  ColdRestartGap, \* the pause after which a session has gone cold
  BloatMinTurns,  \* the turns that make a session a long one
  MaxTime         \* bound: the times of events

Time == 0..MaxTime
NoTime == -1

TurnType == [project : Project, model : Model, tools : SUBSET Tool, isError : BOOLEAN,
             input : Nat, output : Nat, cacheRead : Nat, cacheCreation : Nat]

Event == [session : Session, ts : Time, turn : Turn]

ASSUME TurnAssumption == Turn \subseteq TurnType
ASSUME PriceAssumption ==
  /\ Premium \subseteq Model /\ DOMAIN Price \subseteq Model
  /\ \A m \in DOMAIN Price :
       Price[m] \in [input : Nat, output : Nat, cacheRead : Nat, cacheCreation : Nat]
ASSUME TimeAssumption == ColdRestartGap \in Nat /\ BloatMinTurns \in Nat \ {0} /\ MaxTime \in Nat
ASSUME FiniteAssumption ==
  IsFiniteSet(Session) /\ IsFiniteSet(Project) /\ IsFiniteSet(Model) /\ IsFiniteSet(Tool)

LowValue == {"exploration", "conversation"}

\* What the events that are in S add up to, by their weights, and what all do.
SumIn(w, es, S) == SumFunction([i \in {j \in DOMAIN es : es[j] \in S} |-> w[es[i]]])
Sum(w, es) == SumFunction([i \in DOMAIN es |-> w[es[i]]])

\* The events that are in S, in their order.
Keep(es, S) == FoldLeft(LAMBDA kept, e : IF e \in S THEN Append(kept, e) ELSE kept, <<>>, es)

\* safeDiv: nothing of nothing is zero.
SafeDiv(a, b) == IF b = 0 THEN [n |-> 0, d |-> 1] ELSE [n |-> a, d |-> b]

\* LoadEvents: the events since the cutoff, of the projects that --project names.
Since(cutoff, projects) == {e \in Event : e.ts >= cutoff /\ e.turn.project \in projects}
LoadEvents(es, cutoff, projects) == Keep(es, Since(cutoff, projects))

SessionsOf(es) == {es[i].session : i \in DOMAIN es}
InSession(s) == {e \in Event : e.session = s}
OfSession(es, s) == Keep(es, InSession(s))

\* The activity that the adapter stored with the turn.
ActivityOf == [e \in Event |-> Classify(e.turn.tools)]

InputOf == [e \in Event |-> e.turn.input]
SpendOf == [e \in Event |-> e.turn.input + e.turn.output]
CacheReadOf == [e \in Event |-> e.turn.cacheRead]
CacheCreationOf == [e \in Event |-> e.turn.cacheCreation]
AllTokens == [e \in Event |-> SpendOf[e] + e.turn.cacheRead + e.turn.cacheCreation]

IsPriced(e) == e.turn.model \in DOMAIN Price

\* CostOf: a model without a price costs nothing, and its tokens are estimated.
CostOf == [e \in Event |->
  IF IsPriced(e)
  THEN LET price == Price[e.turn.model]
       IN  e.turn.input * price.input + e.turn.output * price.output +
           e.turn.cacheRead * price.cacheRead + e.turn.cacheCreation * price.cacheCreation
  ELSE 0]

UnpricedOf == [e \in Event |-> IF IsPriced(e) THEN 0 ELSE AllTokens[e]]

-----------------------------------------------------------------------------
(* Pass 1. *)

NewSession == [turns |-> 0, spend |-> 0, cold |-> 0, retry |-> 0,
               hasError |-> FALSE, lastTS |-> NoTime, contextPerTurn |-> <<>>]

\* Mutant of IsColdRestart: the first turn is compared with the zero time.
IsColdRestartOrStart(lastTS, ts) == ts - lastTS > ColdRestartGap

IsColdRestart(lastTS, ts) == lastTS # NoTime /\ ts - lastTS > ColdRestartGap

\* One event, on the state of its session.
AddTurn(ss, e) ==
  LET retried == ss.hasError /\ ~e.turn.isError
  IN  [turns |-> ss.turns + 1,
       spend |-> ss.spend + SpendOf[e],
       cold |-> ss.cold + IF IsColdRestart(ss.lastTS, e.ts) THEN e.turn.input ELSE 0,
       retry |-> ss.retry + IF retried THEN SpendOf[e] ELSE 0,
       hasError |-> e.turn.isError,
       lastTS |-> e.ts,
       contextPerTurn |-> Append(ss.contextPerTurn, e.turn.input + e.turn.cacheRead)]

\* Mutant of Accumulate: one error flag for all sessions.
AccumulateSharedError(sessions, e) ==
  LET ss == AddTurn(sessions[e.session], e)
  IN  [s \in Session |-> IF s = e.session THEN ss
                         ELSE [sessions[s] EXCEPT !.hasError = ss.hasError]]

Accumulate(sessions, e) == [sessions EXCEPT ![e.session] = AddTurn(@, e)]

Pass1(es) == FoldLeft(Accumulate, [s \in Session |-> NewSession], es)

-----------------------------------------------------------------------------
(* Pass 2. *)

IsLong(ss) == ss.turns >= BloatMinTurns

\* The average context of the later turns is at least twice that of the earlier.
IsBloated(ss) ==
  LET n == Len(ss.contextPerTurn)
      mid == n \div 2
      early == SumFunction(SubSeq(ss.contextPerTurn, 1, mid))
      late == SumFunction(SubSeq(ss.contextPerTurn, mid + 1, n))
  IN  IsLong(ss) /\ early > 0 /\ late * mid >= 2 * early * (n - mid)

\* Premium models on low-value turns: pass 2 looks for them among all events
\* once for every session.
PremiumOnLowValue == {e \in Event : e.turn.model \in Premium /\ ActivityOf[e] \in LowValue}
PremiumWaste(es) == Cardinality(SessionsOf(es)) * SumIn(SpendOf, es, PremiumOnLowValue)

\* ActivityBreakdown and ModelBreakdown: the tokens and the cost of some events.
Breakdown(es, S) == [tokens |-> SumIn(SpendOf, es, S), cost |-> SumIn(CostOf, es, S)]

During(a) == {e \in Event : ActivityOf[e] = a}
WithModel(m) == {e \in Event : e.turn.model = m}

\* Mutant of ByActivity: the turns that failed are left out.
ByActivityOfSuccess(es) ==
  [a \in Activity |-> Breakdown(es, {e \in During(a) : ~e.turn.isError})]

ByActivity(es) == [a \in Activity |-> Breakdown(es, During(a))]

ByModel(es) == [m \in Model |-> Breakdown(es, WithModel(m))]

\* MetricsEngine.Compute.  Rework and retries are one sum.
Compute(es) ==
  LET sessions == Pass1(es)
      spend == SumFunction([s \in Session |-> sessions[s].spend])
      cold == SumFunction([s \in Session |-> sessions[s].cold])
      retry == SumFunction([s \in Session |-> sessions[s].retry])
      bloated == Cardinality({s \in Session : IsBloated(sessions[s])})
      long == Cardinality({s \in Session : IsLong(sessions[s])})
      input == Sum(InputOf, es)
      cacheRead == Sum(CacheReadOf, es)
      cacheCreation == Sum(CacheCreationOf, es)
      byActivity == ByActivity(es)
      thinking == byActivity["thinking"].tokens
  IN  [events |-> Len(es),
       sessions |-> Cardinality(SessionsOf(es)),
       spend |-> spend, input |-> input, retry |-> retry, cold |-> cold,
       bloated |-> bloated, long |-> long, premium |-> PremiumWaste(es),
       cost |-> Sum(CostOf, es),
       unpriced |-> Sum(UnpricedOf, es),
       cacheHitRatio |-> SafeDiv(cacheRead, input + cacheRead + cacheCreation),
       reworkRatio |-> SafeDiv(retry, spend),
       retryShare |-> SafeDiv(retry, spend),
       thinkToCodeRatio |-> SafeDiv(thinking, thinking + byActivity["coding"].tokens),
       contextBloatShare |-> SafeDiv(bloated, long),
       coldRestartShare |-> SafeDiv(cold, input),
       premiumWasteShare |-> SafeDiv(PremiumWaste(es), spend),
       byActivity |-> byActivity, byModel |-> ByModel(es)]
=============================================================================

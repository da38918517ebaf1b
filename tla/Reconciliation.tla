--------------------------- MODULE Reconciliation ---------------------------
(***************************************************************************)
(* The reconcile command (application/reconcile.go): it asks a provider,  *)
(* page by page, what it billed for the last days, then loads the local   *)
(* events, and compares the two model by model.  All the while agents     *)
(* spend, providers bill, and collect stores; a provider bills other      *)
(* machines too, and may bill nothing for what is stored here.            *)
(*                                                                         *)
(* A turn has a usage: fresh tokens (input, output and cache creation,    *)
(* which every step merely adds) and tokens read from the cache, which    *)
(* the providers report in two ways.  The window's days are the buckets   *)
(* of the provider's report; a window of more than BucketsPerPage days    *)
(* takes several pages.                                                    *)
(***************************************************************************)
EXTENDS Integers, FiniteSetsExt

CONSTANTS
    Models,          \* the models used, on this machine or another
    Owner,           \* the provider of each model
    Usages,          \* the usages a turn may have
    Buckets,         \* the number of days of the window
    BucketsPerPage,  \* the limit parameter of a request (31)
    MaxBilled,       \* bound: turns that are billed
    MaxStored        \* bound: turns that are stored

ProviderRegistry == {"anthropic", "openai"}
UsageTokens == [fresh : Nat, cached : Nat]

ASSUME OwnerAssumption == Owner \in [Models -> ProviderRegistry]
ASSUME UsagesAssumption ==
    Usages \subseteq UsageTokens \ {[fresh |-> 0, cached |-> 0]}
ASSUME PagesAssumption ==
    Buckets \in Nat \ {0} /\ BucketsPerPage \in Nat \ {0}
ASSUME BoundAssumption == MaxBilled \in Nat /\ MaxStored \in Nat

VARIABLES
    billed,         \* what was billed, by day and model
    stored,         \* what the rows of the events table add up to, by model
    turns,          \* how many turns were billed, and stored (for the bounds)
    pc,             \* what the command does
    provider,       \* --provider
    nextPage,       \* the cursor of the next request
    totals,         \* what the pages so far add up to, by model
    result,         \* what Compare made of it
    billedAtStart   \* history: what each model had been billed at the start

vars == <<billed, stored, turns, pc, provider, nextPage, totals, result, billedAtStart>>
world == <<billed, stored, turns>>
command == <<pc, provider, nextPage, totals, result, billedAtStart>>

Days == 1 .. Buckets
TotalTokens(u) == u.fresh + u.cached
NoUsage == [fresh |-> 0, cached |-> 0]
Plus(u, v) == [fresh |-> u.fresh + v.fresh, cached |-> u.cached + v.cached]

(***************************************************************************)
(* The billing API (external): the rows of one page.  There is a row for  *)
(* each day and model with usage; openai's input_tokens include those     *)
(* read from the cache.                                                    *)
(***************************************************************************)
NoPage == 0
LastPage == (Buckets + BucketsPerPage - 1) \div BucketsPerPage
PageOf(page) == IF page = NoPage THEN 1 ELSE page
DaysOfPage(page) == {d \in Days : (d - 1) \div BucketsPerPage = page - 1}

Row(d, m) ==
    LET u == billed[d][m]
    IN  [day |-> d, model |-> m, cached |-> u.cached,
         input |-> IF Owner[m] = "openai" THEN u.fresh + u.cached ELSE u.fresh]

PageRows(page) ==
    LET HasRow(d, m) == Owner[m] = provider /\ billed[d][m] # NoUsage
    IN  {Row(k[1], k[2]) : k \in {k \in DaysOfPage(page) \X Models : HasRow(k[1], k[2])}}

(***************************************************************************)
(* What it says of the pages to come (external as well): the cursor that   *)
(* it returns while it has more, and that is sent back with the next       *)
(* request, stands for the page that follows.                              *)
(***************************************************************************)
HasMore(page) == page < LastPage

NextPage(page) == page + 1

(***************************************************************************)
(* FetchUsage of the two adapters: what a row adds to its model.          *)
(***************************************************************************)
\* Mutant of UsageOfRow: anthropic's uncached input is taken for openai's input.
UsageOfOpenAIRow(row) == [fresh |-> row.input - row.cached, cached |-> row.cached]

UsageOfRow(row) ==
    IF provider = "openai"
    THEN [fresh |-> row.input - row.cached, cached |-> row.cached]
    ELSE [fresh |-> row.input, cached |-> row.cached]

SumOfRows(rows) ==
    [fresh  |-> MapThenSumSet(LAMBDA row : UsageOfRow(row).fresh, rows),
     cached |-> MapThenSumSet(LAMBDA row : UsageOfRow(row).cached, rows)]

\* Mutant of Accumulated: a model's tokens of one page replace those before.
AccumulatedOfLastPage(rows) ==
    [m \in DOMAIN totals \cup {row.model : row \in rows} |->
        LET OfModel == {row \in rows : row.model = m}
        IN  IF OfModel = {} THEN totals[m] ELSE SumOfRows(OfModel)]

Accumulated(rows) ==
    LET Before(m) == IF m \in DOMAIN totals THEN totals[m] ELSE NoUsage
    IN  [m \in DOMAIN totals \cup {row.model : row \in rows} |->
            Plus(Before(m), SumOfRows({row \in rows : row.model = m}))]

(***************************************************************************)
(* toLocalTotals, over the events of every source, whoever bills them.    *)
(***************************************************************************)
LocalTotals ==
    [m \in {m \in Models : stored[m] # NoUsage} |-> TotalTokens(stored[m])]

(***************************************************************************)
(* Compare.  The tolerance is 5 %: float64(local) > float64(api) * 1.05   *)
(* rounds to the exact comparison at its boundary, multiples of 20.       *)
(***************************************************************************)
VerdictOk == "ok"
VerdictLocalExceedsAPI == "local-exceeds-api"
VerdictLocalOnly == "local-only"

\* Mutant of Exceeds: the boundary is included.
ExceedsOrMeets(localTok, apiTok) == 20 * localTok >= 21 * apiTok

Exceeds(localTok, apiTok) == 20 * localTok > 21 * apiTok

Verdict(m, localTok) ==
    IF m \notin DOMAIN totals THEN VerdictLocalOnly
    ELSE IF Exceeds(localTok, TotalTokens(totals[m])) THEN VerdictLocalExceedsAPI
    ELSE VerdictOk

Compare(localTotals) ==
    LET rows == [m \in DOMAIN localTotals |->
                    [localTokens |-> localTotals[m],
                     verdict |-> Verdict(m, localTotals[m])]]
    IN  [rows |-> rows,
         breach |-> \E m \in DOMAIN rows : rows[m].verdict = VerdictLocalExceedsAPI]

NoResult == [rows |-> <<>>, breach |-> FALSE]

Billed(m) == MapThenSumSet(LAMBDA d : TotalTokens(billed[d][m]), Days)

-----------------------------------------------------------------------------
Init ==
    /\ billed = [d \in Days |-> [m \in Models |-> NoUsage]]
    /\ stored = [m \in Models |-> NoUsage]
    /\ turns = [billed |-> 0, stored |-> 0]
    /\ pc = "idle"
    /\ provider \in ProviderRegistry
    /\ nextPage = NoPage
    /\ totals = <<>>
    /\ result = NoResult
    /\ billedAtStart = [m \in Models |-> 0]

(***************************************************************************)
(* The world: a provider bills a turn of any machine, on any day of the   *)
(* window (bills may be late); collect stores a turn.                     *)
(***************************************************************************)
Bill(d, m, u) ==
    /\ turns.billed < MaxBilled
    /\ turns' = [turns EXCEPT !.billed = @ + 1]
    /\ billed' = [billed EXCEPT ![d][m] = Plus(@, u)]
    /\ UNCHANGED <<stored, command>>

Store(m, u) ==
    /\ turns.stored < MaxStored
    /\ turns' = [turns EXCEPT !.stored = @ + 1]
    /\ stored' = [stored EXCEPT ![m] = Plus(@, u)]
    /\ UNCHANGED <<billed, command>>

(***************************************************************************)
(* Handle, to the first request.  With an unknown provider or without its *)
(* key it ends before it has read anything.                                *)
(***************************************************************************)
Running == pc \in {"fetching", "fetched"}

Start(p) ==
    /\ ~Running
    /\ pc' = "fetching"
    /\ provider' = p
    /\ nextPage' = NoPage
    /\ totals' = <<>>
    /\ result' = NoResult
    /\ billedAtStart' = [m \in Models |-> Billed(m)]
    /\ UNCHANGED world

\* Mutant of FetchPage: the loop goes on after the last page, with the empty
\* cursor that came with it.
FetchPageAgain ==
    LET page == PageOf(nextPage)
    IN  /\ pc = "fetching"
        /\ totals' = Accumulated(PageRows(page))
        /\ nextPage' = IF HasMore(page) THEN NextPage(page) ELSE NoPage
        /\ UNCHANGED <<world, pc, provider, result, billedAtStart>>

(***************************************************************************)
(* One round of the loop in FetchUsage: the server answers with a page of *)
(* the report as it is now.                                                *)
(***************************************************************************)
FetchPage ==
    LET page == PageOf(nextPage)
    IN  /\ pc = "fetching"
        /\ totals' = Accumulated(PageRows(page))
        /\ IF HasMore(page)
           THEN nextPage' = NextPage(page) /\ UNCHANGED pc
           ELSE pc' = "fetched" /\ UNCHANGED nextPage
        /\ UNCHANGED <<world, provider, result, billedAtStart>>

(***************************************************************************)
(* LoadEvents, then Compare, which prints its result.                     *)
(***************************************************************************)
LoadAndCompare ==
    /\ pc = "fetched"
    /\ result' = Compare(LocalTotals)
    /\ pc' = "done"
    /\ UNCHANGED <<world, provider, nextPage, totals, billedAtStart>>

(***************************************************************************)
(* A request fails, is refused or answered with something else, or the    *)
(* events cannot be loaded: an error, and no result.                      *)
(***************************************************************************)
Fail ==
    /\ Running
    /\ pc' = "failed"
    /\ UNCHANGED <<world, provider, nextPage, totals, result, billedAtStart>>

Next ==
    \/ \E d \in Days, m \in Models, u \in Usages : Bill(d, m, u)
    \/ \E m \in Models, u \in Usages : Store(m, u)
    \/ \E p \in ProviderRegistry : Start(p)
    \/ FetchPage
    \/ LoadAndCompare
    \/ Fail

(***************************************************************************)
(* A command that was started goes on: each of its requests is answered   *)
(* or fails (the client has a timeout of 30 s).                           *)
(***************************************************************************)
Spec == Init /\ [][Next]_vars /\ WF_vars(FetchPage \/ LoadAndCompare \/ Fail)

-----------------------------------------------------------------------------
TypeOK ==
    /\ billed \in [Days -> [Models -> UsageTokens]]
    /\ stored \in [Models -> UsageTokens]
    /\ turns \in [billed : 0 .. MaxBilled, stored : 0 .. MaxStored]
    /\ pc \in {"idle", "fetching", "fetched", "done", "failed"}
    /\ provider \in ProviderRegistry
    /\ nextPage \in NoPage .. LastPage
    /\ DOMAIN totals \subseteq Models
    /\ \A m \in DOMAIN totals : totals[m] \in UsageTokens /\ Owner[m] = provider
    /\ result.breach \in BOOLEAN
    /\ DOMAIN result.rows \subseteq Models
    /\ billedAtStart \in [Models -> Nat]

(***************************************************************************)
(* Although the report grows between two pages, what the pages add up to  *)
(* is a total that the model went through since the command was started:  *)
(* no day is left out and none is added twice (FetchUsage).               *)
(***************************************************************************)
FetchIsBracketed ==
    pc \in {"fetched", "done"} =>
        \A m \in Models : Owner[m] = provider =>
            LET fetched == IF m \in DOMAIN totals THEN TotalTokens(totals[m]) ELSE 0
            IN  billedAtStart[m] <= fetched /\ fetched <= Billed(m)

\* The breach threshold in words: more than 5 % above.
IsFivePercentAbove(localTok, tok) == 100 * (localTok - tok) > 5 * tok

(***************************************************************************)
(* The comparison of a total that grew over several requests with one     *)
(* that was loaded later errs on neither side: a row is flagged only if   *)
(* it exceeds what was billed at the start, and is flagged if it exceeds  *)
(* even what has been billed since; a model billed nothing at all is      *)
(* local-only; and the breach is that of the rows (Compare).              *)
(***************************************************************************)
VerdictsAreJustified ==
    pc = "done" =>
        /\ \A m \in DOMAIN result.rows :
              LET row == result.rows[m]
              IN  /\ row.verdict = VerdictLocalExceedsAPI =>
                        /\ Owner[m] = provider
                        /\ IsFivePercentAbove(row.localTokens, billedAtStart[m])
                  /\ (Owner[m] = provider /\ billedAtStart[m] > 0
                        /\ IsFivePercentAbove(row.localTokens, Billed(m))) =>
                        row.verdict = VerdictLocalExceedsAPI
                  /\ (Owner[m] # provider \/ Billed(m) = 0) =>
                        row.verdict = VerdictLocalOnly
        /\ result.breach <=> \E m \in DOMAIN result.rows :
                                result.rows[m].verdict = VerdictLocalExceedsAPI

(***************************************************************************)
(* However long the window and however the report grows, the loop over    *)
(* the pages ends, with a result or an error (FetchUsage).                *)
(***************************************************************************)
FetchEnds == pc = "fetching" ~> pc \in {"done", "failed"}

=============================================================================

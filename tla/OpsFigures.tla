------------------------------ MODULE OpsFigures ------------------------------
(***************************************************************************)
(* The figures of the ops dashboard: services/ops_dashboard.py under the   *)
(* endpoints of routers/ops_dashboard.py.  A table is a function from its  *)
(* keys to its rows; ranking, names and latencies are left out, and all    *)
(* queries of an endpoint read the same database.                          *)
(***************************************************************************)
EXTENDS Spending, SequencesExt

CONSTANTS
  Day,
  SetClient,   \* [prompt sets -> their clients]
  RecentLimit  \* recent_runs(limit)

ASSUME DayAssumption == Day \in Nat \ {0}
ASSUME RecentLimitAssumption == RecentLimit \in Nat

VARIABLES
  prompts,      \* rows [id, set, root, current]; root = Null for the first version
  testClients   \* clients flagged is_test

Time == INSTANCE Calendar

-----------------------------------------------------------------------------
(* Joins *)

RootOf(p) == IF p.root = Null THEN p.id ELSE p.root
Lineage(id) == {p \in prompts : \E q \in prompts : q.id = id /\ RootOf(p) = RootOf(q)}
PromptOf(r) == CHOOSE p \in prompts : p.id = r.ask.prompt
SetOf(r) == PromptOf(r).set
ClientOf(r) == SetClient[SetOf(r)]
ProviderOf(r) == models[r.model].provider

Total(f(_), set) == SumFunction([x \in set |-> f(x)])

\* SUM(): of the values that are not NULL, and NULL when there is none.
SumSql(values) ==
  LET known == {pair \in {<<x, values[x]>> : x \in DOMAIN values} : pair[2] # Null}
  IN IF known = {} THEN Null ELSE SumFunction([pair \in known |-> pair[2]])
SqlSum(f(_), rows) == SumSql([x \in rows |-> f(x)])

Failed(rs) == {r \in rs : r.status = "error"}

\* COUNT and SUM over the groups of GROUP BY.
GroupBy(rs, Key(_)) == [k \in {Key(r) : r \in rs} |-> {r \in rs : Key(r) = k}]
Row(rs) == [runs |-> Cardinality(rs), errors |-> Cardinality(Failed(rs)), cost |-> SqlSum(CostSql, rs)]
Rows(groups) == [k \in DOMAIN groups |-> Row(groups[k])]

\* _classify_attribution
Attribution(r) ==
  CASE r.ask.by # Null -> r.ask.by
    [] r.ask.by = Null /\ r.ask.trigger = "scheduled" -> "scheduler"
    [] r.ask.by = Null /\ r.ask.trigger # "scheduled" -> "unknown"

-----------------------------------------------------------------------------
(* Scope *)

Everything(range, test) ==
  [range |-> range, client |-> Null, set |-> Null, prompt |-> Null, user |-> Null, test |-> test]

\* ops_scoped_run_ids_query, with the bounds _ops_scope resolves.
OpsRuns(scope) ==
  {r \in runs :
     /\ r.status # "pending"
     /\ scope.test \/ ClientOf(r) \notin testClients
     /\ Time!Within(r.started, Time!RangeBounds(scope.range, now))
     /\ scope.client \in {Null, ClientOf(r)}
     /\ scope.set \in {Null, SetOf(r)}
     /\ scope.prompt = Null \/ PromptOf(r) \in Lineage(scope.prompt)
     /\ scope.user = Null \/ scope.user = Attribution(r)}

-----------------------------------------------------------------------------
(* Tables *)

Tokens(r) == TokensSql(r.usage)
InputOf(r) == Tokens(r)[1]
OutputOf(r) == Tokens(r)[2]

\* Cache axes: 0 for a payload without one, NULL without a payload.
ReadOf(r) == IF r.usage = Null THEN Null ELSE CacheSql(r.usage, "cache_read")
WriteOf(r) ==
  LET At(path) == OrZero(ReadPath(r.usage, path))
  IN IF r.usage = Null THEN Null
     ELSE At(OPENAI.cache.cache_write) + At(PERPLEXITY.cache.cache_write)
          + At(ANTHROPIC.cache.cache_write_5m) + At(ANTHROPIC.cache.cache_write_1h)

\* The citation_verifications of a set of runs, as <<run, row>>; a row is never changed.
VerdictsOf(rs) == UNION {{<<r, v>> : v \in r.verdicts} : r \in rs}
VerdictCost(x) == x[2].cost

\* ops_summary
OpsSummary(rs) ==
  [runs |-> Cardinality(rs), errors |-> Cardinality(Failed(rs)), cost |-> SqlSum(CostSql, rs),
   verification |-> SqlSum(VerdictCost, VerdictsOf(rs)),
   input |-> SqlSum(InputOf, rs), output |-> SqlSum(OutputOf, rs),
   read |-> SqlSum(ReadOf, rs), write |-> SqlSum(WriteOf, rs)]

\* provider_cost_rows
ProviderRows(rs) ==
  LET by == GroupBy(rs, ProviderOf)
      RowOf(group) == [runs |-> Cardinality(group), errors |-> Cardinality(Failed(group)),
                       cost |-> SqlSum(CostSql, group), input |-> SqlSum(InputOf, group),
                       output |-> SqlSum(OutputOf, group)]
  IN [p \in DOMAIN by |-> RowOf(by[p])]

ClientRows(rs) == Rows(GroupBy(rs, ClientOf))

\* user_ops_rows groups by user and trigger, and names each group afterwards.
UserRows(rs) ==
  LET Key(r) == <<r.ask.by, r.ask.trigger>>
      by == GroupBy(rs, Key)
      Name(k) == Attribution(CHOOSE r \in by[k] : TRUE)
  IN {[name |-> Name(k), row |-> Row(by[k])] : k \in DOMAIN by}

PromptSetRows(rs) == Rows(GroupBy(rs, SetOf))

\* Mutant: the runs of the listed version only.
PromptRows_Current(set, rs) ==
  LET mine == {r \in rs : SetOf(r) = set}
      RunsOf(c) == {r \in mine : r.ask.prompt = c}
  IN [c \in {p.id : p \in {p \in prompts : p.current /\ RunsOf(p.id) # {}}} |-> Row(RunsOf(c))]

\* prompt_ops_rows: one row per version marked current, with the runs of its lineage.
PromptRows(set, rs) ==
  LET mine == {r \in rs : SetOf(r) = set}
      RunsOf(c) == {r \in mine : PromptOf(r) \in Lineage(c)}
  IN [c \in {p.id : p \in {p \in prompts : p.current /\ RunsOf(p.id) # {}}} |-> Row(RunsOf(c))]

ModelOf(r) == r.model

\* prompt_model_comparison_rows
ModelRows(rs) == Rows(GroupBy(rs, ModelOf))

\* recent_runs, of the newest: the price of each is computed in Python.
RecentRuns(rs) ==
  LET After(r) == {s \in rs : s.started > r.started}
  IN [r \in {r \in rs : Cardinality(After(r)) < RecentLimit} |->
        [cost |-> Cost(r), tokens |-> RawTokens(r.usage), by |-> Attribution(r)]]

\* daily_values
DailyValues(rs, unit) ==
  LET Key(r) == Time!Bucket(r.started, unit)
      by == GroupBy(rs, Key)
  IN [b \in DOMAIN by |-> <<Cardinality(by[b]) - Cardinality(Failed(by[b])), Cardinality(Failed(by[b]))>>]

-----------------------------------------------------------------------------
(* Endpoints of /ops/api *)

\* ops_daily: every bucket of the window, with or without runs.
Daily(scope) ==
  LET rs == OpsRuns(scope)
      unit == Time!Granularity(scope.range)
      values == DailyValues(rs, unit)
      axis == Time!Axis({r.started : r \in rs}, Time!RangeBounds(scope.range, now), unit)
  IN [b \in axis |-> IF b \in DOMAIN values THEN values[b] ELSE <<0, 0>>]

\* ops_prompt_sets and ops_prompts narrow by their own parameter only.
PromptSetPage(scope) ==
  PromptSetRows(OpsRuns([Everything(scope.range, scope.test) EXCEPT !.client = scope.client]))
PromptPage(scope) ==
  PromptRows(scope.set, OpsRuns([Everything(scope.range, scope.test) EXCEPT !.set = scope.set]))

\* ops_prompt_detail
PromptDetail(scope) == [models |-> ModelRows(OpsRuns(scope)), recent |-> RecentRuns(OpsRuns(scope))]

\* ops_user_detail
UserDetail(scope) ==
  LET rs == OpsRuns([Everything(scope.range, scope.test) EXCEPT !.user = scope.user])
  IN [clients |-> ClientRows(rs), recent |-> RecentRuns(rs)]

-----------------------------------------------------------------------------
(* services/cost.py, per client and per prompt *)

ClientRuns(c) == {r \in runs : ClientOf(r) = c}

\* Mutant: one join, in which a run appears once per citation.
MonthSpend_Joined(c) ==
  LET month == Time!Bucket(now, "month") * Time!Ticks("month")
      spent == {r \in ClientRuns(c) : r.started >= month /\ CostSql(r) # Null}
      PerCitation(r) == CostSql(r) * Max({1, Len(r.ask.cites)}) + OrZero(SqlSum(VerdictCost, VerdictsOf({r})))
  IN IF spent = {} THEN Null ELSE Total(PerCitation, spent)

\* client_month_to_date_spend: two sums, because a run has many judged citations.
MonthSpend(c) ==
  LET month == Time!Bucket(now, "month") * Time!Ticks("month")
      spent == SqlSum(CostSql, {r \in ClientRuns(c) : r.started >= month /\ r.status # "pending"})
      judged == SqlSum(VerdictCost, {x \in VerdictsOf(ClientRuns(c)) : x[2].at >= month})
  IN IF spent = Null /\ judged = Null THEN Null ELSE OrZero(spent) + OrZero(judged)

\* AVG(), as <<sum, count>>
ASSUME AverageAssumption == Null \notin Nat \X Nat

Average(f(_), rows) ==
  LET known == {x \in rows : f(x) # Null}
  IN IF known = {} THEN Null ELSE <<SqlSum(f, known), Cardinality(known)>>

\* average_historical_cost
AverageCost(prompt, m) ==
  Average(Cost, {r \in runs : PromptOf(r) \in Lineage(prompt) /\ r.model = m /\ r.status = "success"})

\* average_llm_judge_cost_per_citation
AverageJudgeCost == Average(VerdictCost, VerdictsOf(runs))

\* The product of the counts of some averages.
CommonDenominator(average, known) == FoldSet(LAMBDA x, y : average[x][2] * y, 1, known)

\* _estimate_window_cost: what a window of these prompts is expected to cost, as
\* <<sum, denominator>> or None, and how many of its combinations have a history.
WindowEstimate(lineages, ms, personas) ==
  LET average == [x \in lineages \X ms |-> AverageCost(x[1], x[2])]
      known == {x \in DOMAIN average : average[x] # Null}
      scale == CommonDenominator(average, known)
      Share(x) == (average[x][1] * personas * scale) \div average[x][2]
  IN [cost |-> IF known = {} THEN Null ELSE <<Total(Share, known), scale>>, known |-> Cardinality(known)]
=============================================================================

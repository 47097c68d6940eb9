-------------------------------- MODULE Reports --------------------------------
(***************************************************************************)
(* The dashboards over a system at work: prompts get new versions, clients *)
(* are flagged as test clients, runs start, end and have their citations   *)
(* judged, and after each of these steps every figure that is derived      *)
(* twice must come out the same.  Prices stay as they are (Spending).      *)
(***************************************************************************)
EXTENDS ClientFigures

CONSTANTS
  Asks,        \* runs somebody asks for: [lineage, model, by, trigger, cites, wait]
  FirstPrompts,   \* what there is to begin with
  Judgements,  \* outcomes of a judge job: [citations judged -> [verdict, cost]]
  MaxJobs,     \* bound: judge jobs
  Ranges       \* bound: the windows looked at, among DashboardRange

ASSUME RangesAssumption == Ranges \subseteq Time!DashboardRange

vars == <<spendingVars, prompts, testClients>>

Clients == {SetClient[s] : s \in DOMAIN SetClient}
Sets == DOMAIN SetClient
Users == {Attribution(r) : r \in runs}

\* A person runs by hand, the worker runs what is scheduled.
IsAsk(ask) ==
  /\ ask.cites \in Seq(DOMAIN Normalized) /\ ask.trigger \in {"manual", "scheduled"}
  /\ ask.by # Null => ask.trigger = "manual" /\ ask.by \notin {"scheduler", "unknown"}

\* A table of prompts: every version names a root of its own set, and some version of every
\* lineage is current.
ArePrompts(ps) ==
  /\ IsFiniteSet(ps)
  /\ \A p \in ps :
       /\ p = [id |-> p.id, set |-> p.set, root |-> p.root, current |-> p.current]
       /\ p.id \in 1..Cardinality(ps) /\ p.set \in Sets
       /\ \E q \in ps : q.id = RootOf(p) /\ RootOf(q) = q.id /\ q.set = p.set
       /\ \E q \in ps : RootOf(q) = RootOf(p) /\ q.current
  /\ \A p, q \in ps : p.id = q.id => p = q

ASSUME AsksAssumption == \A ask \in Asks : IsAsk(ask) /\ ask.wait \in Nat
ASSUME FirstPromptsAssumption == ArePrompts(FirstPrompts)

\* _VERDICT_MAP, and the verdict where the page or the reply could not be read.
JudgeVerdicts ==
  {"llm_supported", "llm_partial", "llm_not_supported", "llm_contradicted", "unverifiable"}

ASSUME JudgementsAssumption == \A verdicts \in Judgements : \A i \in DOMAIN verdicts :
  verdicts[i].cost \in Nat \cup {Null} /\ verdicts[i].verdict \in JudgeVerdicts
ASSUME NamesAssumption == Null \notin {"scheduler", "unknown"} \cup Sets \cup Clients

Init ==
  /\ SpendingInit /\ prompts = FirstPrompts /\ testClients = {}

\* A person may run any version, the worker runs the current one.
Ask ==
  /\ \E ask \in Asks, p \in prompts :
       /\ RootOf(p) = ask.lineage /\ (ask.trigger = "scheduled" => p.current)
       /\ StartRun(ask.model, [prompt |-> p.id, by |-> ask.by, trigger |-> ask.trigger,
                               cites |-> ask.cites], ask.wait)
  /\ UNCHANGED <<prompts, testClients>>

\* update_prompt of one that was asked: whichever version the page showed, only this one's
\* flag is taken away.
EditPrompt(p) ==
  /\ sent < MaxForms /\ \E r \in runs : PromptOf(r) \in Lineage(p.id)
  /\ prompts' = (prompts \ {p}) \cup
       {[p EXCEPT !.current = FALSE],
        [id |-> Cardinality(prompts) + 1, set |-> p.set, root |-> RootOf(p), current |-> TRUE]}
  /\ sent' = sent + 1
  /\ UNCHANGED <<now, priceVars, formVars, runs, testClients>>

\* toggle_client_test
FlagClient(c) ==
  /\ sent < MaxForms
  /\ testClients' = IF c \in testClients THEN testClients \ {c} ELSE testClients \cup {c}
  /\ sent' = sent + 1
  /\ UNCHANGED <<now, priceVars, formVars, runs, prompts>>

\* judge_citations by one job: some of the citations are passed over, the others get a row
\* more.  Another job judges them all again.
LLM_JUDGE_PROVIDERS == {"openai", "google_gemini"}

Judge(r) ==
  /\ ProviderOf(r) \in LLM_JUDGE_PROVIDERS /\ r.status = "success"
  /\ Cardinality({x[2].at : x \in VerdictsOf(runs)}) < MaxJobs
  /\ \E verdicts \in Judgements :
       /\ DOMAIN verdicts \cap DOMAIN r.ask.cites # {}
       /\ runs' = (runs \ {r}) \cup {[r EXCEPT !.verdicts = @ \cup
            {[cite |-> i, at |-> now, verdict |-> verdicts[i].verdict, cost |-> verdicts[i].cost] :
               i \in DOMAIN verdicts \cap DOMAIN r.ask.cites}]}
  /\ now' = now + 1
  /\ UNCHANGED <<priceVars, formVars, sent, prompts, testClients>>

End(r) == EndRun(r) /\ UNCHANGED <<prompts, testClients>>

Next ==
  \/ Ask
  \/ \E p \in prompts : EditPrompt(p)
  \/ \E c \in Clients : FlagClient(c)
  \/ \E r \in runs : End(r) \/ Judge(r)

Spec == Init /\ [][Next]_vars

-----------------------------------------------------------------------------
(* Properties *)

\* The sum of a table's rows.
Sum(rows) ==
  LET pairs == {<<k, rows[k]>> : k \in DOMAIN rows}
      Runs(pair) == pair[2].runs
      Errors(pair) == pair[2].errors
      CostIn(pair) == pair[2].cost
  IN [runs |-> Total(Runs, pairs), errors |-> Total(Errors, pairs), cost |-> SqlSum(CostIn, pairs)]

EmptyRow == [runs |-> 0, errors |-> 0, cost |-> Null]
RowAt(rows, k) == IF k \in DOMAIN rows THEN rows[k] ELSE EmptyRow

\* Editing an older version, or two edits at once, leaves two current ones.
OneCurrent(set) == \A p, q \in prompts :
  p.set = set /\ p.current /\ q.current /\ RootOf(p) = RootOf(q) => p = q

TablesOf(scope) ==
  LET all == OpsRuns(scope)
      providers == ProviderRows(all)
      users == UserRows(all)
      clients == ClientRows(all)
      sets == PromptSetRows(all)
      pages == [set \in Sets |-> PromptPage([scope EXCEPT !.set = set])]
      Input(p) == providers[p].input
  IN /\ \A rows \in {providers, clients, ModelRows(all)} : Sum(rows) = Row(all)
     /\ SqlSum(Input, DOMAIN providers) = OpsSummary(all).input
     /\ \A u \in Users \ {"unknown"} :
          /\ {x.row : x \in {x \in users : x.name = u}} \cup {EmptyRow}
               = {Sum(UserDetail([scope EXCEPT !.user = u]).clients), EmptyRow}
     /\ \A c \in Clients : Sum(PromptSetPage([scope EXCEPT !.client = c])) = RowAt(clients, c)
     /\ \A s \in Sets : OneCurrent(s) => Sum(pages[s]) = RowAt(sets, s)
     /\ \A p \in prompts : p.current =>
          LET detail == PromptDetail([scope EXCEPT !.prompt = p.id])
              asked == Sum(detail.models)
              Shown(r) == detail.recent[r].cost
          IN /\ asked = RowAt(pages[p.set], p.id)
             /\ Cardinality(DOMAIN detail.recent) < RecentLimit
                  => SqlSum(Shown, DOMAIN detail.recent) = asked.cost

\* Every breakdown of the ops dashboard adds up to the figure above it: providers, clients
\* and models to the summary, a user's clients to the user, a client's sets to the client,
\* a set's prompts to the set, a prompt's models and recent runs to the prompt.  The scope
\* is a set of runs: a bounded window and the open one stand for all.
TablesAddUp ==
  \A range \in Ranges \cap {"7d", "all"}, test \in BOOLEAN :
    TablesOf(Everything(range, test))

Everywhere == Everything("all", TRUE)

\* Where no combination was run twice, the average of its cost is its cost; failed runs, which
\* cost nothing where the model is free, are no history.
WindowOf(set) ==
  LET estimate == WindowEstimate({RootOf(p) : p \in {p \in prompts : p.set = set}}, DOMAIN models, 1)
      row == RowAt(PromptSetRows(OpsRuns(Everywhere)), set)
  IN IF estimate.known = 0 THEN OrZero(row.cost) = 0
     ELSE estimate.cost[2] = 1 => estimate.cost[1] = row.cost

\* The budget warning, the cost previews and the dashboard price the same runs alike: a
\* client whose runs are all of this month has spent what its summary shows, the average
\* shown for a prompt and model is that of their row, a window of a schedule is expected to
\* cost what one window did, and the average of a verdict is that of the whole summary.
SpendingIsOne ==
  /\ \A c \in Clients :
       LET summary == OpsSummary(OpsRuns([Everywhere EXCEPT !.client = c])) IN
       (\A r \in ClientRuns(c) : Time!Bucket(r.started, "month") = Time!Bucket(now, "month"))
         => OrZero(MonthSpend(c)) = OrZero(summary.cost) + OrZero(summary.verification)
  /\ \A p \in prompts, m \in DOMAIN models :
       AverageCost(p.id, m) # Null
         => AverageCost(p.id, m)[1] = ModelRows(OpsRuns([Everywhere EXCEPT !.prompt = p.id]))[m].cost
  /\ \A set \in Sets : WindowOf(set)
  /\ LET summary == OpsSummary(OpsRuns(Everywhere)) IN
     IF AverageJudgeCost = Null THEN summary.verification = Null
     ELSE AverageJudgeCost[1] = summary.verification

\* No run falls between two bars: the points of every chart add up to the figure of the
\* same window, be it open, aligned with its buckets or not.
ChartsShowEveryRun ==
  \A range \in Ranges :
    /\ LET points == Daily(Everything(range, FALSE))
           Bar(b) == points[b][1] + points[b][2]
       IN Total(Bar, DOMAIN points) = Cardinality(OpsRuns(Everything(range, FALSE)))
    /\ \A c \in Clients :
         LET scoped == Scoped(c, range, Null)
             weeks == Weekly(scoped)
             Bar(w) == CitationTotals(weeks[w])[1]
         IN Total(Bar, DOMAIN weeks) = ClientSummary(scoped).citations

\* The window of a trend and the one it is compared with share no run and miss none
\* ("would otherwise be counted in both", dashboard.py:55-57).
PeriodsMeet ==
  \A c \in Clients, range \in Ranges :
    LET scoped == Scoped(c, range, Null)
        from == scoped.bounds[1]
    IN scoped.previous # Null =>
         /\ scoped.runs \cap scoped.previous = {}
         /\ scoped.runs \cup scoped.previous = ClientScope(c, <<from - (now - from), now>>, Null)

\* Every run of a window is shown exactly once: by one bar of its chart, and in one of two
\* adjacent periods.
EveryRunIsShownOnce == ChartsShowEveryRun /\ PeriodsMeet

CitationsAddUp(rs) ==
  LET league == DomainLeague(rs)
      Cited(d) == league[d].citations
  IN /\ \A d \in DOMAIN league : league[d].runs <= Cardinality(rs)
     /\ Cardinality(DOMAIN league) < LeagueLimit =>
          /\ Cardinality(DOMAIN league) = CitationTotals(rs)[2]
          /\ Total(Cited, DOMAIN league)
               = Cardinality({x \in CitationsOf(rs) : DomainOf(x) # Null})

\* A citation judged by several jobs is counted once, for its provider and for its domain.
VerdictsAddUp(scoped) ==
  LET shown == CitationVerification(scoped)
      league == DomainLeague(scoped.runs)
      OfProvider(p) == Checked(shown.providers[p])
      OfDomain(d) == Checked(shown.domains[d])
      judged == {c \in CitationsOf(scoped.runs) : \E v \in c[1].verdicts : v.cite = c[2]}
  IN /\ Total(OfProvider, DOMAIN shown.providers) = Cardinality(judged)
     /\ Cardinality(DOMAIN shown.domains) < LeagueLimit =>
          Total(OfDomain, DOMAIN shown.domains) = Cardinality({c \in judged : DomainOf(c) # Null})
     /\ \A d \in DOMAIN league \cap DOMAIN shown.domains : OfDomain(d) <= league[d].citations
     /\ shown.xai.citations + Cardinality(judged) <= CitationTotals(scoped.runs)[1]

\* The tables of domains and of verdicts agree with the tiles above them: no domain is
\* cited by more runs than there are (dashboard.py:309-318), nor checked more often than cited.
LeagueAddsUp ==
  \A c \in Clients, range \in Ranges :
    LET scoped == Scoped(c, range, Null)
    IN CitationsAddUp(scoped.runs) /\ VerdictsAddUp(scoped)
=============================================================================

------------------------------- MODULE Spending -------------------------------
(***************************************************************************)
(* Models, their prices and the runs that are charged by them: the         *)
(* administration of app/routers/ai_models.py, with a form open in each    *)
(* administrator's browser and a transaction of some length, against runs  *)
(* that start and end meanwhile.  A price row is effective from the start  *)
(* of the transaction that wrote it (func.now()).  Every reading of the    *)
(* clock is later than the one before.                                     *)
(***************************************************************************)
EXTENDS Costs

CONSTANTS
  Models, Admins,
  Edits,       \* what an administrator changes in a form
  Samples,     \* [providers -> usage payloads of its API]
  FirstModels, \* what models there may be to begin with
  Start,       \* the time it begins
  MaxRuns,     \* bound: runs
  MaxForms     \* bound: forms submitted

\* A table of models.
IsModels(ms) ==
  /\ ms = [m \in DOMAIN ms |-> ms[m]]
  /\ \A m \in DOMAIN ms :
       /\ ms[m] = [provider |-> ms[m].provider, free |-> ms[m].free, active |-> ms[m].active]
       /\ ms[m].provider \in DOMAIN Samples

ASSUME SamplesAssumption ==
  DOMAIN Samples # {} /\ \A p \in DOMAIN Samples : \A usage \in Samples[p] : Payload(usage)
ASSUME EditsAssumption ==
  \A edit \in Edits : "provider" \in DOMAIN edit => edit.provider \in DOMAIN Samples
ASSUME StartAssumption ==
  Start \in Nat /\ Start > 1 /\ \A first \in FirstModels : IsModels(first)

VARIABLES
  now,
  models,    \* [Models that exist -> [provider, free, active]]
  prices,    \* ai_model_price_components
  page,      \* [Admins -> the form in the browser, or Null]
  saving,    \* [Admins -> the submission being served, or Null]
  sent,      \* forms submitted so far
  runs

formVars == <<page, saving>>
priceVars == <<models, prices>>
spendingVars == <<now, models, prices, page, saving, sent, runs>>

RowsOf(m) == {row \in prices : row.model = m}
Today(m) == PricesAt(RowsOf(m), now)
NoPrices == [c \in {} |-> 0]

-----------------------------------------------------------------------------
(* ai_models.py *)

\* _model_to_form_state: a model as it is now, or an empty form.
FormState(m) ==
  IF m \in DOMAIN models
  THEN [model |-> m, new |-> FALSE, provider |-> models[m].provider,
        free |-> models[m].free, prices |-> Today(m)]
  ELSE [model |-> m, new |-> TRUE, provider |-> CHOOSE p \in DOMAIN Samples : TRUE,
        free |-> FALSE, prices |-> NoPrices]

OpenForm(a, m) ==
  /\ page[a] = Null /\ saving[a] = Null /\ sent < MaxForms
  /\ page' = [page EXCEPT ![a] = FormState(m)]
  /\ UNCHANGED <<now, priceVars, saving, sent, runs>>

\* The fields as they were shown, but for those typed over.
Over(shown, typed) ==
  [f \in DOMAIN shown \cup DOMAIN typed |-> IF f \in DOMAIN typed THEN typed[f] ELSE shown[f]]
Filled(form, edit) ==
  [model |-> form.model, new |-> form.new,
   provider |-> IF "provider" \in DOMAIN edit THEN edit.provider ELSE form.provider,
   free |-> IF "free" \in DOMAIN edit THEN edit.free ELSE form.free,
   prices |-> Over(form.prices, edit.prices)]

\* _validate_and_parse_model_form (409) and _get_model_or_404: the name is free, or the
\* model is there and no price of today has been left blank.
Accepted(form) ==
  /\ form.new = (form.model \notin DOMAIN models)
  /\ DOMAIN Today(form.model) \subseteq DOMAIN form.prices

\* The transaction begins; the prices it compares with are read now.
SubmitForm(a) ==
  /\ page[a] # Null /\ saving[a] = Null
  /\ \E edit \in Edits :
       LET form == Filled(page[a], edit)
       IN saving' = [saving EXCEPT ![a] =
            IF Accepted(form) THEN [form |-> form, begun |-> now, today |-> Today(form.model)]
            ELSE Null]
  /\ page' = [page EXCEPT ![a] = Null]
  /\ now' = now + 1 /\ sent' = sent + 1
  /\ UNCHANGED <<priceVars, runs>>

Changed(saved) == {c \in DOMAIN saved.form.prices :
                     c \notin DOMAIN saved.today \/ saved.today[c] # saved.form.prices[c]}

NewRows(saved) == {[model |-> saved.form.model, component |-> c, price |-> saved.form.prices[c],
                    from |-> saved.begun] : c \in Changed(saved)}

\* Mutant: the price row of a component is overwritten.
Written_InPlace(saved) ==
  {IF row.model = saved.form.model /\ row.component \in Changed(saved)
   THEN [row EXCEPT !.price = saved.form.prices[row.component]] ELSE row : row \in prices}
  \cup {row \in NewRows(saved) : row.component \notin DOMAIN saved.today}

\* The price rows once a form is committed: a component whose price changed has one more.
Written(saved) == prices \cup NewRows(saved)

\* create_ai_model and update_ai_model commit.  A model deleted meanwhile is a 500, as is
\* a second one of its name.
SaveModel(a) ==
  /\ saving[a] # Null
  /\ LET form == saving[a].form IN
     IF form.new = (form.model \in DOMAIN models)
     THEN UNCHANGED priceVars
     ELSE /\ prices' = Written(saving[a])
          /\ models' = [m \in DOMAIN models \cup {form.model} |->
               IF m # form.model THEN models[m]
               ELSE [provider |-> form.provider, free |-> form.free,
                     active |-> form.new \/ models[m].active]]
  /\ saving' = [saving EXCEPT ![a] = Null]
  /\ UNCHANGED <<now, page, sent, runs>>

ToggleActive(m) ==
  /\ sent < MaxForms /\ m \in DOMAIN models
  /\ models' = [models EXCEPT ![m].active = ~@]
  /\ sent' = sent + 1
  /\ UNCHANGED <<now, prices, formVars, runs>>

\* _model_run_count keeps a model that was run; its price rows go with it.
DeleteModel(m) ==
  /\ sent < MaxForms /\ m \in DOMAIN models
  /\ \A r \in runs : r.model # m
  /\ models' = [n \in DOMAIN models \ {m} |-> models[n]]
  /\ prices' = prices \ RowsOf(m)
  /\ sent' = sent + 1
  /\ UNCHANGED <<now, formVars, runs>>

-----------------------------------------------------------------------------
(* Runs, as far as they are charged *)

\* create_pending_run, `wait' ticks from now; `ask' is what this module does not look at.
StartRun(m, ask, wait) ==
  /\ Cardinality(runs) < MaxRuns /\ m \in DOMAIN models /\ models[m].active
  /\ runs' = runs \cup {[id |-> Cardinality(runs) + 1, model |-> m, started |-> now + wait,
       status |-> "pending", api |-> models[m].provider, usage |-> Null,
       verdicts |-> {}, ask |-> ask]}
  /\ now' = now + wait + 1
  /\ UNCHANGED <<priceVars, formVars, sent>>

Ends(r, status, usage) ==
  runs' = (runs \ {r}) \cup {[r EXCEPT !.status = status, !.usage = usage]}

\* A failed run has no raw_responses row; an answer may come without a usage payload.
EndRun(r) ==
  /\ r.status = "pending"
  /\ \/ Ends(r, "error", Null)
     \/ \E usage \in Samples[r.api] \cup {Null} : Ends(r, "success", usage)
  /\ UNCHANGED <<now, priceVars, formVars, sent>>

\* What each of the two ways makes of a run.
Cost(r) == EstimateRunCost(r.usage, models[r.model].free, PricesAt(RowsOf(r.model), r.started))
CostSql(r) == RunCostSql(r.usage, models[r.model].free, PricesAt(RowsOf(r.model), r.started))

-----------------------------------------------------------------------------
(* The specification *)

FirstPrice(m, c) == [model |-> m, component |-> c, price |-> IF c = "input" THEN 3 ELSE 2, from |-> 1]

\* Some models are there, each with a price for every component.
SpendingInit ==
  /\ models \in FirstModels /\ prices = {FirstPrice(m, c) : m \in DOMAIN models, c \in Components}
  /\ page = [a \in Admins |-> Null] /\ saving = [a \in Admins |-> Null] /\ sent = 0
  /\ runs = {} /\ now = Start

Administration ==
  \/ \E a \in Admins : SubmitForm(a) \/ SaveModel(a) \/ \E m \in Models : OpenForm(a, m)
  \/ \E m \in Models : ToggleActive(m) \/ DeleteModel(m)

SpendingNext ==
  \/ Administration
  \/ \E m \in Models : StartRun(m, Null, 0)
  \/ \E r \in runs : EndRun(r)

SpendingSpec == SpendingInit /\ [][SpendingNext]_spendingVars

-----------------------------------------------------------------------------
(* Properties *)

\* Whatever the provider, its payload and the prices of the day, SQL and Python make the
\* same of a run: "the Python and SQL implementations can never independently drift"
\* (cost.py:198-201).
TwinsAgree ==
  \A r \in runs : Cost(r) = CostSql(r) /\ RawTokens(r.usage) = TokensSql(r.usage)

CostOf(id) == LET r == CHOOSE r \in runs : r.id = id IN Cost(r)

CostsAreKept ==
  \A r \in runs :
    r.status # "pending" /\ CostOf(r.id)' # CostOf(r.id)
      => \/ models'[r.model].free # models[r.model].free
         \/ \E a \in Admins : /\ saving[a] # Null /\ saving'[a] = Null
                              /\ saving[a].form.model = r.model /\ saving[a].begun <= r.started

\* What a finished run cost is not changed by later prices.  It does change with is_free,
\* which has no history, and with a price whose transaction began before the run.
PastCostsStay == [][CostsAreKept]_spendingVars

\* The price history of the edit form says of every moment what a run of that moment is
\* charged, whatever rows were merged into one span.
HistorySpansTell ==
  \A m \in DOMAIN models, c \in Components :
    LET mine == {row \in RowsOf(m) : row.component = c}
        spans == PriceHistory(mine)
        Holding(t) == {s \in spans : s.from <= t /\ (s.until = Null \/ t < s.until)}
    IN \A row \in prices, d \in {0, 1} :
         LET t == row.from + d IN
         IF c \in DOMAIN PricesAt(mine, t)
         THEN \E s \in spans : Holding(t) = {s} /\ s.price = PricesAt(mine, t)[c]
         ELSE Holding(t) = {}
=============================================================================

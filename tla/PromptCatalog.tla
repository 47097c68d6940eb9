---------------------------- MODULE PromptCatalog ----------------------------
(***************************************************************************)
(* Clients, prompt sets, versioned prompts, markets, bulk import, the      *)
(* runs that are the evidence of what was asked, and the schedules that    *)
(* ask prompts again: app/routers/prompts.py, prompt_sets.py, clients.py,  *)
(* markets.py, runs.py, app/services/prompt_import.py and the fan-out of   *)
(* app/services/queue.py.  Handlers that only render are left out, and so  *)
(* are names and notes.                                                    *)
(***************************************************************************)
EXTENDS Brands

CONSTANT MaxImportRows  \* MAX_IMPORT_ROWS

Loaded(s, table) == Row(Seen(s)[table], Form(s).id)

-----------------------------------------------------------------------------
(* Versions of a prompt *)

\* Mutant: a version points to the version it was made from.
RootOf_Previous(p) == p.id
RootOf(p) == IF p.root = 0 THEN p.id ELSE p.root
Lineage(d, root) == {p \in d.prompts : p.id = root \/ p.root = root}
Asked(d, prompts) == \E r \in d.runs : \E p \in prompts : r.prompt = p.id

NewPrompt(d, set, text, market, active) ==
  [id |-> Fresh(d), set |-> set, root |-> 0, version |-> 1, current |-> TRUE,
   active |-> active, text |-> text, market |-> market]

CanEdit(f) == Has(db.prompts, f.id) /\ Has(db.markets, f.market)

NextVersion(old, f) ==
  [NewPrompt(db, old.set, f.text, f.market, f.active) EXCEPT
     !.root = RootOf(old), !.version = old.version + 1]

\* Replacing what the loaded row said: only attributes that differ are written.
EditInPlace(s, old) ==
  LET now == Row(db.prompts, old.id) IN
  IF old.active = Form(s).active THEN Commit(s, TRUE, db)
  ELSE Commit(s, Has(db.prompts, old.id),
              [db EXCEPT !.prompts = Put(@, [now EXCEPT !.active = Form(s).active])])

EditAsNewVersion(s, old) ==
  LET now == Row(db.prompts, old.id)
      kept == IF old.current /\ Has(db.prompts, old.id)
              THEN Put(db.prompts, [now EXCEPT !.current = FALSE]) ELSE db.prompts
  IN Commit(s, old.current => Has(db.prompts, old.id),
            [db EXCEPT !.prompts = kept \cup {NextVersion(old, Form(s))}, !.last = @ + 1])

\* Mutant: a corrected text replaces the old one.
UpdatePrompt_InPlace(s) ==
  /\ Serving(s, "edit")
  /\ LET now == Row(db.prompts, Form(s).id) IN
     Commit(s, Has(db.prompts, Form(s).id),
            [db EXCEPT !.prompts = Put(@, [now EXCEPT !.text = Form(s).text])])

UpdatePrompt(s) ==
  /\ Serving(s, "edit")
  /\ LET old == Loaded(s, "prompts") IN
     IF Form(s).text = old.text /\ Form(s).market = old.market
     THEN EditInPlace(s, old) ELSE EditAsNewVersion(s, old)

CanDeletePrompt(f) ==
  Has(db.prompts, f.id) /\ ~Asked(db, Lineage(db, RootOf(Row(db.prompts, f.id))))

\* _delete_prompt_lineage: the versions go before the roots they point to.
DeletePrompt(s) ==
  /\ Serving(s, "delete_prompt")
  /\ LET gone == Lineage(Seen(s), RootOf(Loaded(s, "prompts"))) IN
     Commit(s, TRUE, [db EXCEPT !.prompts = Without(@, {p.id : p \in gone})])

-----------------------------------------------------------------------------
(* Prompt sets and clients *)

PromptsOf(d, set) == {p \in d.prompts : p.set = set}
SetsOf(d, client) == {t \in d.sets : t.client = client}

CreateSet(s) ==
  /\ Serving(s, "create_set")
  /\ Commit(s, TRUE, [db EXCEPT !.sets = @ \cup {[id |-> Fresh(db), client |-> Form(s).id]},
                                !.last = @ + 1])

CanCreatePrompt(f) == Has(db.sets, f.id) /\ Has(db.markets, f.market)

CreatePrompt(s) ==
  /\ Serving(s, "create_prompt")
  /\ Commit(s, TRUE, [db EXCEPT
       !.prompts = @ \cup {NewPrompt(db, Form(s).id, Form(s).text, Form(s).market, TRUE)},
       !.last = @ + 1])

CanDeleteSet(f) == Has(db.sets, f.id) /\ ~Asked(db, PromptsOf(db, f.id))

\* One flush of the ORM deletes rows in the order of their keys: a root goes before
\* the versions that point to it, which the foreign key refuses.
InKeyOrder(prompts) == \A p \in prompts : p.root = 0

\* Mutant: everything is left to the cascade.
DeleteSet_Cascade(s) ==
  /\ Serving(s, "delete_set")
  /\ LET gone == PromptsOf(db, Form(s).id) IN
     Commit(s, InKeyOrder(gone),
            [db EXCEPT !.sets = Without(@, {Form(s).id}), !.prompts = @ \ gone])

\* The prompts loaded are deleted version by version; db.delete(prompt_set) then takes
\* along whatever else the set holds by now.
DeleteSet(s) ==
  /\ Serving(s, "delete_set")
  /\ LET late == {p \in PromptsOf(db, Form(s).id) : ~Has(Seen(s).prompts, p.id)} IN
     Commit(s, InKeyOrder(late),
            [db EXCEPT !.sets = Without(@, {Form(s).id}),
                       !.prompts = @ \ PromptsOf(db, Form(s).id)])

PromptsOfClient(d, client) == UNION {PromptsOf(d, t.id) : t \in SetsOf(d, client)}

CanDeleteClient(f) == Has(db.clients, f.id) /\ ~Asked(db, PromptsOfClient(db, f.id))

DeleteClient(s) ==
  /\ Serving(s, "delete_client")
  /\ LET client == Form(s).id  prompts == PromptsOfClient(db, client) IN
     Commit(s, InKeyOrder(prompts),
            [db EXCEPT !.clients = Without(@, {client}), !.prompts = @ \ prompts,
                       !.sets = @ \ SetsOf(db, client),
                       !.brands = @ \ BrandTree(db, client)])

-----------------------------------------------------------------------------
(* Markets *)

CodeTaken(code, but) == \E m \in db.markets : m.code = code /\ m.id # but

CanCreateMarket(f) == ~CodeTaken(f.code, 0)

CreateMarket(s) ==
  /\ Serving(s, "create_market")
  /\ Commit(s, TRUE, [db EXCEPT !.markets = @ \cup {[id |-> Fresh(db), code |-> Form(s).code]},
                                !.last = @ + 1])

CanUpdateMarket(f) == Has(db.markets, f.id) /\ ~CodeTaken(f.code, f.id)

UpdateMarket(s) ==
  /\ Serving(s, "update_market")
  /\ LET m == Form(s).id  changed == Loaded(s, "markets").code # Form(s).code IN
     Commit(s, changed => Has(db.markets, m),
            IF changed THEN [db EXCEPT !.markets = Put(@, [id |-> m, code |-> Form(s).code])]
            ELSE db)

CanDeleteMarket(f) ==
  Has(db.markets, f.id) /\ \A p \in db.prompts : p.market # f.id

DeleteMarket(s) ==
  /\ Serving(s, "delete_market")
  /\ Commit(s, TRUE, [db EXCEPT !.markets = Without(@, {Form(s).id})])

-----------------------------------------------------------------------------
(* Bulk import: a file, a preview that writes nothing, a form sent back *)

\* What the parsers make of one line of a file: nothing of a blank one, an error of one
\* with more cells than the header.  A padded line has more cells, all empty.
Broken == [text |-> "", code |-> "", broken |-> TRUE]
Parsed(line) == [text |-> line.text, code |-> line.code, broken |-> FALSE]

CsvRow(line) ==
  CASE line.shape = "blank" -> <<>>
    [] line.shape \in {"ragged", "padded"} -> <<Broken>>
    [] OTHER -> <<Parsed(line)>>

XlsxRow(line) ==
  CASE line.shape = "blank" -> <<>>
    [] line.shape = "ragged" -> <<Broken>>
    [] OTHER -> <<Parsed(line)>>

JsonRow(line) == <<Parsed(line)>>

LineRow(format, line) ==
  CASE format = "csv"  -> CsvRow(line)
    [] format = "xlsx" -> XlsxRow(line)
    [] format = "json" -> JsonRow(line)

\* Each row under the number of its line.
Rows(file) ==
  LET At(i) == LineRow(file.format, file.lines[i])
  IN [i \in {i \in DOMAIN file.lines : At(i) # <<>>} |-> At(i)[1]]

\* build_existing_texts_lookup: the current texts of a set in a market.
ExistingTexts(d, set, market) ==
  {Folded[p.text] : p \in {p \in PromptsOf(d, set) : p.market = market /\ p.current}}

UnknownCode(row) == row.code # "" /\ \A m \in db.markets : m.code # row.code

MarketOf(row, default) ==
  IF row.code = "" THEN default ELSE (CHOOSE m \in db.markets : m.code = row.code).id

RowError(row) == row.broken \/ row.text = "" \/ UnknownCode(row)

\* A row is a duplicate of an existing prompt or of an earlier row of the file.
Status(rows, i, set, default) ==
  LET At(j) == <<MarketOf(rows[j], default), Folded[rows[j].text]>>
  IN IF RowError(rows[i]) THEN "error"
     ELSE IF \/ Folded[rows[i].text] \in ExistingTexts(db, set, At(i)[1])
             \/ \E j \in DOMAIN rows : j < i /\ ~RowError(rows[j]) /\ At(j) = At(i)
          THEN "duplicate" ELSE "new"

Preview ==
  /\ served < MaxRequests
  /\ \E f \in menu :
       LET rows == Rows(f.file) IN
       /\ f.op = "preview"
       /\ Has(db.sets, f.id) /\ Has(db.markets, f.market)
       /\ DOMAIN rows # {} /\ Cardinality(DOMAIN rows) <= MaxImportRows
       /\ forms' = forms \cup {[set |-> f.id, rows |-> [i \in DOMAIN rows |->
            [text |-> rows[i].text, status |-> Status(rows, i, f.id, f.market),
             market |-> IF RowError(rows[i]) THEN 0 ELSE MarketOf(rows[i], f.market)]]]}
  /\ served' = served + 1
  /\ UNCHANGED <<db, menu, req, ticks>>

\* The checkbox of an error row is disabled; the market of any row can be changed.
SendForm(s) == \E form \in forms :
  LET fine == {i \in DOMAIN form.rows : form.rows[i].status # "error"} IN
  \E include \in SUBSET fine, moved \in SUBSET fine, to \in {m.id : m \in db.markets} :
    /\ moved \subseteq include
    /\ Begin(s, [op |-> "confirm", id |-> form.set, include |-> include,
                 rows |-> [i \in DOMAIN form.rows |->
                   IF i \in moved THEN [form.rows[i] EXCEPT !.market = to] ELSE form.rows[i]]])

\* What _confirm_import_rows looks at: what is included and whose market is still there.
Included(s, i) ==
  i \in DOMAIN Form(s).rows /\ i \in Form(s).include /\ Has(Seen(s).markets, Form(s).rows[i].market)

\* Row by row, each text is added to those known to exist.
Known(s, i) ==
  LET rows == Form(s).rows
      Key(j) == <<rows[j].market, Folded[rows[j].text]>>
  IN \/ Key(i)[2] \in ExistingTexts(Seen(s), Form(s).id, Key(i)[1])
     \/ \E j \in DOMAIN rows : j < i /\ Included(s, j) /\ Key(j) = Key(i)

\* Mutant: the preview's word is taken for what is new.
Imported_AsPreviewed(s) == {i \in DOMAIN Form(s).rows : Included(s, i)}

Imported(s) ==
  {i \in DOMAIN Form(s).rows :
     Included(s, i) /\ (Known(s, i) => Form(s).rows[i].status = "duplicate")}

ConfirmImport(s) ==
  /\ Serving(s, "confirm")
  /\ LET Number(i) == Cardinality({j \in Imported(s) : j <= i})
         Added(i) == [NewPrompt(db, Form(s).id, Form(s).rows[i].text, Form(s).rows[i].market, TRUE)
                        EXCEPT !.id = db.last + Number(i)]
     IN Commit(s, TRUE, [db EXCEPT !.last = @ + Cardinality(Imported(s)),
                                   !.prompts = @ \cup {Added(i) : i \in Imported(s)}])

-----------------------------------------------------------------------------
(* Evidence, and the schedules that ask again *)

CanRun(f) ==
  /\ Has(db.prompts, f.id) /\ Row(db.prompts, f.id).active
  /\ Has(db.markets, f.market) /\ Has(db.personas, f.persona)

TriggerRun(s) ==
  /\ Serving(s, "run")
  /\ Commit(s, TRUE, [db EXCEPT !.runs = @ \cup {[prompt |-> Form(s).id, market |-> Form(s).market,
       persona |-> Form(s).persona, asked |-> Loaded(s, "prompts").text]}])

\* _target_prompts; of two current versions of a prompt either may be read.
TargetPrompts(s) ==
  LET current == {p \in db.prompts : p.current} IN
  IF s.target[1] = "prompt"
  THEN LET versions == Lineage(db, s.target[2]) \cap current IN
       IF versions = {} THEN {{}} ELSE {{p} : p \in versions}
  ELSE {{p \in current : p.set = s.target[2] /\ p.active}}

Fanout(s, prompts) ==
  {[schedule |-> s.id, window |-> ticks, prompt |-> p.id, model |-> m, persona |-> q,
    market |-> IF s.market = 0 THEN p.market ELSE s.market] :
      p \in prompts, m \in s.models, q \in s.personas}

ActiveSchedules == {s \in db.schedules : s.active}

\* A ticker pass with every schedule due: one transaction.  If it fails the worker exits.
Tick ==
  /\ ticks > 0
  /\ \E chosen \in [ActiveSchedules -> SUBSET db.prompts] :
       LET new == [db EXCEPT !.queue = @ \cup
                     UNION {Fanout(s, chosen[s]) : s \in ActiveSchedules}] IN
       /\ \A s \in ActiveSchedules : chosen[s] \in TargetPrompts(s)
       /\ db' = IF Consistent(new) THEN new ELSE db
  /\ ticks' = ticks - 1
  /\ UNCHANGED <<menu, forms, req, served>>
=============================================================================

------------------------------- MODULE Catalog -------------------------------
(***************************************************************************)
(* The administration of the site as one system: what users submit, in any *)
(* order and two at a time, and the ticker that reads the same tables.     *)
(***************************************************************************)
EXTENDS SchedulePlans, Directory

\* The checks a handler makes before it writes, on what it loads.
Accepts(f) ==
  \/ f.op = "edit" /\ CanEdit(f)
  \/ f.op = "delete_prompt" /\ CanDeletePrompt(f)
  \/ f.op = "create_client"
  \/ f.op = "create_brand" /\ CanCreateBrand(f)
  \/ f.op = "delete_brand" /\ Has(db.brands, f.id)
  \/ f.op = "create_set" /\ Has(db.clients, f.id)
  \/ f.op = "create_prompt" /\ CanCreatePrompt(f)
  \/ f.op = "delete_set" /\ CanDeleteSet(f)
  \/ f.op = "delete_client" /\ CanDeleteClient(f)
  \/ f.op = "create_market" /\ CanCreateMarket(f)
  \/ f.op = "update_market" /\ CanUpdateMarket(f)
  \/ f.op = "delete_market" /\ CanDeleteMarket(f)
  \/ f.op = "run" /\ CanRun(f)
  \/ f.op = "create_schedule" /\ CanSchedule(f)
  \/ f.op \in {"update_schedule", "toggle_schedule", "delete_schedule"} /\ Has(db.schedules, f.id)
  \/ f.op = "create_persona"
  \/ f.op = "update_persona" /\ CanUpdatePersona(f)
  \/ f.op = "delete_persona" /\ CanDeletePersona(f)
  \/ f.op = "create_user" /\ IsAdmin(f.by) /\ f.role \in Roles
  \/ f.op = "update_user" /\ CanUpdateUser(f)
  \/ f.op = "toggle_user" /\ CanToggleUser(f)
  \/ f.op = "reset_password" /\ IsAdmin(f.by) /\ Has(db.users, f.id)

Submit(s) == \E f \in menu : Accepts(f) /\ Begin(s, f)

Prompts(s) == UpdatePrompt(s) \/ DeletePrompt(s) \/ CreatePrompt(s) \/ TriggerRun(s)
Sets(s) == CreateSet(s) \/ DeleteSet(s) \/ DeleteClient(s) \/ SendForm(s) \/ ConfirmImport(s)
Clients(s) == CreateClient(s) \/ CreateBrand(s) \/ DeleteBrand(s)
Markets(s) == CreateMarket(s) \/ UpdateMarket(s) \/ DeleteMarket(s)
Personas(s) == CreatePersona(s) \/ UpdatePersona(s) \/ DeletePersona(s)
Schedules(s) ==
  CreateSchedule(s) \/ UpdateSchedule(s) \/ ToggleSchedule(s) \/ DeleteSchedule(s)
Users(s) == CreateUser(s) \/ UpdateUser(s) \/ ToggleUser(s) \/ ResetPassword(s)

Next ==
  \/ \E s \in Slots : \/ Submit(s) \/ Prompts(s) \/ Sets(s) \/ Clients(s) \/ Markets(s)
                      \/ Schedules(s) \/ Personas(s) \/ Users(s)
  \/ Preview \/ Tick

Spec == SiteInit /\ [][Next]_vars

-----------------------------------------------------------------------------
(* Rows, forms and databases *)

Text == DOMAIN Folded

Prompt == [id : Nat \ {0}, set : Nat, root : Nat, version : Nat, current : BOOLEAN,
           active : BOOLEAN, text : Text, market : Nat]
Market == [id : Nat, code : STRING]
Persona == [id : Nat, default : BOOLEAN]
User == [id : Nat, role : Roles, active : BOOLEAN]

\* What users submit.
FileLine == [shape : {"row", "blank", "ragged", "padded"}, text : Text, code : STRING]
ImportFile == [format : {"csv", "xlsx", "json"}, lines : Seq(FileLine)]

PromptForm ==
  [op : {"edit"}, id : Nat, text : Text, market : Nat, active : BOOLEAN]
  \cup [op : {"create_prompt"}, id : Nat, text : Text, market : Nat]
  \cup [op : {"run"}, id : Nat, market : Nat, persona : Nat]
  \cup [op : {"preview"}, id : Nat, market : Nat, file : ImportFile]

Targets == {"prompt", "set"} \X (Nat \ {0})
PlanForm == [op : {"create_schedule", "update_schedule"}, id : Nat,
  target : Targets, market : Nat, models : SUBSET STRING, personas : SUBSET Nat]

BrandForm ==
  [op : {"create_client"}, name : Text]
  \cup [op : {"create_brand"}, id : Nat, kind : {"alias", "entity", "entity_alias"}, name : Text]
  \cup [op : {"create_market"}, code : STRING] \cup [op : {"update_market"}, id : Nat, code : STRING]

UserForm ==
  [op : {"create_persona", "update_persona"}, id : Nat, default : BOOLEAN]
  \cup [op : {"create_user", "update_user"}, by : Nat, id : Nat, role : Roles]
  \cup [op : {"toggle_user", "reset_password"}, by : Nat, id : Nat]

RowForm == [op : {"create_set", "delete_prompt", "delete_set", "delete_client", "delete_market",
  "delete_brand", "delete_persona", "toggle_schedule", "delete_schedule"}, id : Nat]

AnyForm == PromptForm \cup PlanForm \cup BrandForm \cup UserForm \cup RowForm

Tables == {"clients", "sets", "markets", "prompts", "personas", "brands", "users", "runs",
           "schedules", "queue", "last"}

\* Primary keys, given in order.
Numbered(rows, last) ==
  /\ \A p, q \in rows : p.id = q.id => p = q
  /\ \A p \in rows : p.id <= last

IsDatabase(d) ==
  /\ d = [table \in Tables |-> d[table]] /\ d.last \in Nat /\ d.markets \subseteq Market
  /\ d.prompts \subseteq Prompt /\ Numbered(d.prompts, d.last)
  /\ d.personas \subseteq Persona /\ Numbered(d.personas, d.last)
  /\ d.users \subseteq User /\ Numbered(d.users, d.last)
  /\ Consistent(d)

\* A form, or a schedule, asks of finitely many models as finitely many personas.
IsFinite(f) == IsFiniteSet(f.models) /\ IsFiniteSet(f.personas)
FinitePlans(submitted) ==
  \A f \in submitted : f.op \in {"create_schedule", "update_schedule"} => IsFinite(f)

IsSchedule(c) ==
  /\ c = [id |-> c.id, client |-> c.client, target |-> c.target, market |-> c.market,
          models |-> c.models, personas |-> c.personas, active |-> c.active]
  /\ c.id \in Nat /\ c.target \in Targets /\ IsFinite(c)

\* The target is, or was, one of this client's: client_id is a copy that is never updated.
PlacedAt(d, target, client) ==
  /\ target[2] <= d.last
  /\ \A t \in d.sets :
       (IF target[1] = "set" THEN t.id = target[2]
        ELSE \E p \in d.prompts : p.id = target[2] /\ p.set = t.id) => t.client = client

PlansOK(d) ==
  /\ IsFiniteSet(d.prompts)
  /\ Numbered(d.sets, d.last) /\ \A t \in d.sets : t.id \in Nat
  /\ Numbered(d.schedules, d.last)
  /\ \A c \in d.schedules : IsSchedule(c) /\ PlacedAt(d, c.target, c.client)

\* The tables hold well-formed rows and keep their constraints.
TypeOK ==
  /\ IsDatabase(db) /\ menu \subseteq AnyForm /\ served \in Nat /\ ticks \in Nat
  /\ \A s \in Slots : req[s] # NoRequest => req[s].alone \in BOOLEAN

KeepsEvidence(d) ==
  \A r \in d.runs : \E p \in d.prompts : p.id = r.prompt /\ p.text = r.asked

\* Every run keeps the text that was asked: whatever is edited or deleted meanwhile, the
\* version a run names is still there and says what the provider was sent (NFR-6).
EvidenceKept == KeepsEvidence(db)

WholeLineages(d) ==
  /\ \A p \in d.prompts : p.root # 0 =>
       \E root \in d.prompts : root.id = p.root /\ root.root = 0 /\ root.set = p.set
  /\ \A p \in d.prompts : p.root = 0 => \E v \in Lineage(d, p.id) : v.current

\* The versions of a prompt all point to the one root, in one set, and at least one of
\* them is current: a schedule that asks this prompt finds a text, and a delete that goes
\* through the root finds every version (utils.py current_prompt_version).
LineagesAreWhole == WholeLineages(db)

\* What nobody has run or scheduled can be deleted, and nothing is left of it: a set or a
\* prompt, however often it was edited (the versions must go before their root), and a
\* competitor with its names.
DeletesAreComplete == [][\A s \in Slots :
  EndsAlone(s, {"delete_set", "delete_prompt", "delete_brand"}) /\ db.queue = {} =>
    CASE Form(s).op = "delete_set" ->
           ~Has(db'.sets, Form(s).id) /\ PromptsOf(db', Form(s).id) = {}
      [] Form(s).op = "delete_prompt" -> Lineage(db', RootOf(Loaded(s, "prompts"))) = {}
      [] Form(s).op = "delete_brand" ->
           ~Has(db'.brands, Form(s).id) /\ NamesOf(db', {Form(s).id}) = {}]_vars

\* An import nobody forced duplicates into adds no prompt twice: not against what is
\* there when the form is sent, minutes after the preview, and not within the file.
ImportAddsNoDuplicate == [][\A s \in Slots :
  LET forced == \E i \in Form(s).include : Form(s).rows[i].status = "duplicate"
      added == db'.prompts \ db.prompts
  IN EndsAlone(s, {"confirm"}) /\ ~forced =>
       \A p \in added, q \in db'.prompts :
         (q.set = p.set /\ q.market = p.market /\ q.current
            /\ Folded[q.text] = Folded[p.text]) => q = p]_vars

\* No request by itself takes away the last active administrator or the default persona:
\* nobody could reach the user administration again (users.py) or no run could be framed.
LastOnesStay == [][\A s \in Slots : Ends(s) /\ req[s].alone =>
  /\ (\E u \in db.users : Administers(u)) => \E u \in db'.users : Administers(u)
  /\ Defaults(db) # {} => Defaults(db') # {}]_vars

\* The schedule pages and the ticker resolve a target in different code, and agree: a window
\* is as many runs as the form announced, the form warns of just those schedules that
\* would ask the same prompt of the same model as the same persona, and the badges of the
\* list say what the forms would (schedules.py find_all_overlap_counts).
SchedulesAskAsShown ==
  LET Runs(s) == UNION {Fanout(s, prompts) : prompts \in TargetPrompts(s)}
      Question(q) == <<RootOf(Row(db.prompts, q.prompt)), q.model, q.persona>>
      Questions(s) == {Question(q) : q \in Runs(s)}
      Warned(s) == Overlapping(s, s.client, s.id)
      badges == OverlapCounts(db.schedules)
  IN \A s \in db.schedules :
       /\ \A shown \in ResolveTarget(db, s), asked \in TargetPrompts(s) :
            RunsPerWindow(shown, s) = Cardinality(Fanout(s, asked))
       /\ Warned(s) = {t \in ActiveSchedules \ {s} :
                          t.client = s.client /\ Questions(s) \cap Questions(t) # {}}
       /\ s.id \in DOMAIN badges => badges[s.id] = Cardinality(Warned(s))

-----------------------------------------------------------------------------
\* The tables a behaviour starts from are some the site can be in.
ASSUME ScenesAreSound == \A scene \in Scenes :
  /\ IsDatabase(scene.db) /\ KeepsEvidence(scene.db) /\ WholeLineages(scene.db)
  /\ PlansOK(scene.db)
  /\ scene.menu \subseteq AnyForm /\ FinitePlans(scene.menu) /\ scene.ticks \in Nat

-----------------------------------------------------------------------------
(* What the code says of itself and does not keep *)

\* queue.py: "The ticker: turn every active, due RunSchedule into run_queue rows."
EveryDueScheduleIsQueued == [][ticks' # ticks =>
  \A s \in ActiveSchedules : TargetPrompts(s) # {{}} =>
    \E q \in db'.queue : q.schedule = s.id /\ q.window = ticks]_vars

=============================================================================

-------------------------------- MODULE Site --------------------------------
(***************************************************************************)
(* The web application's request handlers and the database under them.     *)
(* A handler loads rows, decides, and commits once: between the two other  *)
(* requests commit.  What it loaded is kept in the request, its writes are *)
(* computed from that, and the tables' constraints are checked when it     *)
(* commits (a violated one is a 500 and leaves the tables as they were).   *)
(* All rows a handler reads are taken as read at one moment.               *)
(***************************************************************************)
EXTENDS Integers, FiniteSets, SequencesExt

CONSTANTS
  Slots,        \* requests served at the same time (threads of the web process)
  MaxRequests,  \* bound: requests in a behaviour
  Scenes,       \* [db : tables to start from, menu : what users submit, ticks : passes]
  Folded        \* [texts -> texts]: a text without its case and outer blanks

VARIABLES
  db,      \* the tables
  menu,    \* the forms users submit, fixed at the start
  forms,   \* import previews open in a browser
  req,     \* [Slots -> the request served, with what it has loaded]
  served,  \* requests taken so far
  ticks    \* ticker passes still to come

vars == <<db, menu, forms, req, served, ticks>>

\* A slot that serves nothing.
NoRequest == [form |-> "none"]

Has(table, i) == \E row \in table : row.id = i
Row(table, i) == CHOOSE row \in table : row.id = i
Without(table, ids) == {row \in table : row.id \notin ids}
Put(table, row) == Without(table, {row.id}) \cup {row}

\* Rows are numbered by one serial.
Fresh(d) == d.last + 1

-----------------------------------------------------------------------------
(* Constraints of app/models: foreign keys, unique columns, the partial unique index on *)
(* the default persona.  target and personas of a schedule are plain columns.           *)

PromptKeys(d) == \A p \in d.prompts :
  /\ Has(d.sets, p.set) /\ Has(d.markets, p.market)
  /\ p.root = 0 \/ Has(d.prompts, p.root)

EvidenceKeys(d) == \A r \in d.runs :
  Has(d.prompts, r.prompt) /\ Has(d.markets, r.market) /\ Has(d.personas, r.persona)

ScheduleKeys(d) == \A s \in d.schedules :
  Has(d.clients, s.client) /\ (s.market = 0 \/ Has(d.markets, s.market))

QueueKeys(d) == \A q \in d.queue :
  /\ q.schedule = 0 \/ Has(d.schedules, q.schedule)
  /\ Has(d.prompts, q.prompt)
  /\ Has(d.markets, q.market) /\ Has(d.personas, q.persona)

\* A row of brands is one of client_aliases ("alias"), tracked_entities ("entity") or
\* tracked_entity_aliases, each with its functional index on (owner, lower(name)).
OwnerTable(d, kind) ==
  IF kind = "entity_alias" THEN {b \in d.brands : b.kind = "entity"} ELSE d.clients
Siblings(d, kind, owner) == {b \in d.brands : b.kind = kind /\ b.owner = owner}
BrandKeys(d) == \A b \in d.brands :
  /\ Has(OwnerTable(d, b.kind), b.owner)
  /\ \A c \in Siblings(d, b.kind, b.owner) : Folded[b.name] = Folded[c.name] => b = c

Uniques(d) ==
  /\ \A c, e \in d.clients : c.slug = e.slug => c = e
  /\ \A m, n \in d.markets : m.code = n.code => m = n
  /\ \A p, q \in d.personas : p.default /\ q.default => p = q

Consistent(d) ==
  /\ \A s \in d.sets : Has(d.clients, s.client)
  /\ PromptKeys(d) /\ EvidenceKeys(d) /\ ScheduleKeys(d) /\ QueueKeys(d) /\ BrandKeys(d) /\ Uniques(d)

-----------------------------------------------------------------------------
Form(s) == req[s].form
Seen(s) == req[s].seen
Serving(s, op) == req[s] # NoRequest /\ Form(s).op = op

\* A request is alone while no other one is being served.
Begin(s, form) ==
  /\ req[s] = NoRequest /\ served < MaxRequests
  /\ served' = served + 1
  /\ req' = [x \in Slots |->
       IF x = s
       THEN [form |-> form, seen |-> db, alone |-> \A y \in Slots : req[y] = NoRequest]
       ELSE IF req[x] = NoRequest THEN NoRequest
       ELSE [req[x] EXCEPT !.alone = FALSE]]
  /\ UNCHANGED <<db, menu, forms, ticks>>

\* found says that every row the ORM updates is still there (StaleDataError otherwise).
Commit(s, found, new) ==
  /\ db' = IF found /\ Consistent(new) THEN new ELSE db
  /\ req' = [req EXCEPT ![s] = NoRequest]
  /\ UNCHANGED <<menu, forms, served, ticks>>

Ends(s) == req[s] # NoRequest /\ req'[s] = NoRequest
EndsAlone(s, ops) == Ends(s) /\ req[s].alone /\ Form(s).op \in ops

SiteInit ==
  /\ \E scene \in Scenes : db = scene.db /\ menu = scene.menu /\ ticks = scene.ticks
  /\ forms = {}
  /\ req = [s \in Slots |-> NoRequest]
  /\ served = 0
=============================================================================

---------------------------- MODULE Catalog_proofs ----------------------------
(***************************************************************************)
(* What administration may not do to the evidence and to itself, proved:   *)
(* every handler makes of the tables d some tables that follow from d, and *)
(* what follows keeps texts, lineages and rows in use (Follows).  Requests *)
(* work on rows they have seen before; those agree with the tables as far  *)
(* as these still go (Agrees).                                             *)
(***************************************************************************)
EXTENDS Catalog, TLAPS, FiniteSetTheorems

\* A database in which every prompt has a whole lineage and every run its text.
Sound(d) == IsDatabase(d) /\ KeepsEvidence(d) /\ WholeLineages(d)

\* The tables are well typed, whatever their constraints.
Typed(d) ==
  /\ d = [table \in Tables |-> d[table]] /\ d.last \in Nat /\ d.markets \subseteq Market
  /\ d.prompts \subseteq Prompt /\ Numbered(d.prompts, d.last)
  /\ d.personas \subseteq Persona /\ Numbered(d.personas, d.last)
  /\ d.users \subseteq User /\ Numbered(d.users, d.last)

SameText(p, q) == p.text = q.text /\ p.set = q.set /\ p.root = q.root

\* A prompt's id stands for one text for ever.
Agrees(old, new) ==
  /\ old.last <= new.last
  /\ \A p \in old.prompts, q \in new.prompts : p.id = q.id => SameText(p, q)

\* What a handler makes of the tables d, as long as the constraints hold.
Follows(d, new) ==
  /\ Typed(new) /\ WholeLineages(new) /\ d.last <= new.last
  /\ \A p \in new.prompts : p.id > d.last \/ \E q \in d.prompts : q.id = p.id /\ SameText(p, q)
  /\ \A r \in new.runs : r \in d.runs \/ \E p \in d.prompts : p.id = r.prompt /\ p.text = r.asked
  /\ \A u \in d.users : Has(new.users, u.id)

-----------------------------------------------------------------------------
(* Rows *)

LEMMA RowIs ==
  ASSUME NEW table, NEW i, Has(table, i)
  PROVE  Row(table, i) \in table /\ Row(table, i).id = i
BY DEF Has, Row

LEMMA PutIsNumbered ==
  ASSUME NEW rows, NEW last, Numbered(rows, last), NEW row, row.id <= last
  PROVE  /\ Numbered(Put(rows, row), last)
         /\ \A p \in rows : Has(Put(rows, row), p.id)
BY DEF Numbered, Put, Without, Has

LEMMA FreshIsNumbered ==
  ASSUME NEW rows, NEW last \in Nat, \A p \in rows : p.id \in Nat, Numbered(rows, last),
         NEW row, row.id = last + 1
  PROVE  Numbered(rows \cup {row}, last + 1)
<1>1. \A p \in rows : p.id <= last + 1 /\ p.id # last + 1
  BY DEF Numbered
<1> QED
  BY <1>1 DEF Numbered

LEMMA LaterIsNumbered ==
  ASSUME NEW rows, NEW last \in Nat, \A p \in rows : p.id \in Nat, Numbered(rows, last),
         NEW later \in Nat, last <= later
  PROVE  Numbered(rows, later)
BY DEF Numbered

LEMMA FewerAreNumbered ==
  ASSUME NEW rows, NEW last, Numbered(rows, last), NEW left, left \subseteq rows
  PROVE  Numbered(left, last)
BY DEF Numbered

LEMMA IsTyped == ASSUME NEW d PROVE IsDatabase(d) <=> Typed(d) /\ Consistent(d)
BY DEF IsDatabase, Typed

LEMMA FollowingIsSound ==
  ASSUME NEW d, NEW new, Sound(d), Follows(d, new), Consistent(new)
  PROVE  /\ Sound(new)
         /\ \A old : Typed(old) /\ Agrees(old, d) => Agrees(old, new)
<1>1. IsDatabase(new) /\ WholeLineages(new)
  BY IsTyped DEF Follows
<1>2. Typed(d) /\ Typed(new)
  BY IsTyped DEF Sound, Follows
<1>3. KeepsEvidence(new)
  <2> SUFFICES ASSUME NEW r \in new.runs
               PROVE  \E p \in new.prompts : p.id = r.prompt /\ p.text = r.asked
    BY DEF KeepsEvidence
  <2>1. PICK p \in d.prompts : p.id = r.prompt /\ p.text = r.asked
    BY DEF Follows, Sound, KeepsEvidence
  <2>2. PICK q \in new.prompts : q.id = r.prompt
    BY DEF Consistent, EvidenceKeys, Has
  <2>3. ~(q.id > d.last)
    BY <1>2, <2>1, <2>2 DEF Typed, Numbered, Prompt
  <2>4. PICK o \in d.prompts : o.id = q.id /\ SameText(q, o)
    BY <2>3 DEF Follows
  <2>5. o = p
    BY <1>2, <2>1, <2>2, <2>4 DEF Typed, Numbered
  <2> QED
    BY <2>1, <2>2, <2>4, <2>5 DEF SameText
<1>4. ASSUME NEW old, Typed(old), Agrees(old, d)
      PROVE  Agrees(old, new)
  <2>1. old.last <= new.last
    BY <1>2, <1>4 DEF Agrees, Follows, Typed
  <2>2. ASSUME NEW p \in old.prompts, NEW q \in new.prompts, p.id = q.id
        PROVE  SameText(p, q)
    <3>0. /\ old.last \in Nat /\ d.last \in Nat /\ p.id \in Nat /\ p.id <= old.last
          /\ old.last <= d.last
      BY <1>2, <1>4 DEF Typed, Numbered, Agrees, Prompt
    <3>1. ~(q.id > d.last)
      BY <2>2, <3>0
    <3>2. PICK o \in d.prompts : o.id = q.id /\ SameText(q, o)
      BY <3>1 DEF Follows
    <3> QED
      BY <1>4, <2>2, <3>2 DEF Agrees, SameText
  <2> QED
    BY <2>1, <2>2 DEF Agrees
<1> QED
  BY <1>1, <1>3, <1>4 DEF Sound

-----------------------------------------------------------------------------
(* Requests *)

\* Rows of a file under their line numbers; what is no error has a text.
RowsOK(rows) ==
  /\ \E n \in Nat : DOMAIN rows \subseteq 1..n
  /\ \A i \in DOMAIN rows :
       /\ rows[i] = [text |-> rows[i].text, status |-> rows[i].status, market |-> rows[i].market]
       /\ rows[i].market \in Nat /\ (rows[i].status # "error" => rows[i].text \in Text)

FormOK(f) ==
  \/ f \in AnyForm
  \/ /\ f.op = "confirm" /\ f.id \in Nat /\ RowsOK(f.rows)
     /\ \A i \in f.include : f.rows[i].status # "error"

\* What a request has read was sound, and agrees with the tables as far as they still go.
RequestOK(s) ==
  /\ req[s] = [form |-> Form(s), seen |-> Seen(s), alone |-> req[s].alone]
  /\ FormOK(Form(s)) /\ Sound(Seen(s)) /\ Agrees(Seen(s), db)
  /\ Form(s).op \in {"edit", "run", "delete_prompt"} => Has(Seen(s).prompts, Form(s).id)
  /\ Form(s).op \in {"update_user", "toggle_user", "reset_password"} =>
       Has(db.users, Form(s).id) /\ Has(Seen(s).users, Form(s).id)

CatalogInv ==
  /\ TypeOK /\ Sound(db) /\ req = [s \in Slots |-> req[s]]
  /\ \A f \in forms : f.set \in Nat /\ RowsOK(f.rows)
  /\ \A s \in Slots : req[s] # NoRequest => RequestOK(s)

\* A request is answered; what it makes of the tables follows from them.
Answered(s) ==
  /\ db' = db \/ (Consistent(db') /\ Follows(db, db'))
  /\ req' = [req EXCEPT ![s] = NoRequest] /\ UNCHANGED <<menu, forms, served, ticks>>

\* And leaves personas and users alone.
AnsweredBeside(s) == Answered(s) /\ db'.personas = db.personas /\ db'.users = db.users

LEMMA CommitAnswers ==
  ASSUME NEW s, NEW found, NEW new, Commit(s, found, new),
         found /\ Consistent(new) => Follows(db, new)
  PROVE  Answered(s)
BY DEF Commit, Answered

LEMMA PromptsLeft ==
  ASSUME Sound(db), NEW s, NEW found, NEW new, Commit(s, found, new),
         new = [table \in Tables |-> new[table]],
         new.prompts = db.prompts, new.runs = db.runs, new.last \in {db.last, db.last + 1},
         new.personas \subseteq Persona, Numbered(new.personas, new.last),
         new.users \subseteq User, Numbered(new.users, new.last),
         \A u \in db.users : Has(new.users, u.id), new.markets \subseteq Market
  PROVE  Answered(s)
<1>1. Typed(db) /\ WholeLineages(db)
  BY IsTyped DEF Sound
<1>2. db.last \in Nat /\ new.last \in Nat /\ db.last <= new.last
  BY <1>1 DEF Typed
<1>3. \A p \in db.prompts : p.id \in Nat
  BY <1>1 DEF Typed, Prompt
<1>4. Numbered(new.prompts, new.last)
  BY <1>1, <1>2, <1>3, LaterIsNumbered DEF Typed
<1>5. Typed(new)
  BY <1>1, <1>2, <1>4 DEF Typed
<1>6. WholeLineages(new)
  BY <1>1 DEF WholeLineages, Lineage
<1>7. Follows(db, new)
  BY <1>2, <1>5, <1>6 DEF Follows, SameText
<1> QED
  BY <1>7, CommitAnswers

LEMMA OtherTables ==
  ASSUME Sound(db), NEW s, NEW found, NEW new, Commit(s, found, new),
         new = [table \in Tables |-> new[table]],
         new.prompts = db.prompts, new.runs = db.runs, new.last \in {db.last, db.last + 1},
         new.personas = db.personas, new.users = db.users, new.markets \subseteq Market
  PROVE  AnsweredBeside(s)
<1>1. Typed(db)
  BY IsTyped DEF Sound
<1>2. db.last \in Nat /\ new.last \in Nat /\ db.last <= new.last
  BY <1>1 DEF Typed
<1>3. \A p \in db.personas \cup db.users : p.id \in Nat
  BY <1>1 DEF Typed, Persona, User
<1>4. Numbered(new.personas, new.last) /\ Numbered(new.users, new.last)
  BY <1>1, <1>2, <1>3, LaterIsNumbered DEF Typed
<1>5. \A u \in db.users : Has(new.users, u.id)
  BY DEF Has
<1>6. new.personas \subseteq Persona /\ new.users \subseteq User
  BY <1>1 DEF Typed
<1>7. Answered(s)
  BY <1>4, <1>5, <1>6, PromptsLeft
<1>8. db' = db \/ db' = new
  BY DEF Commit
<1> QED
  BY <1>7, <1>8 DEF AnsweredBeside

\* The requests that touch neither prompts nor runs, personas nor users.
LEMMA OthersAnswered ==
  ASSUME CatalogInv, NEW s \in Slots,
         \/ CreateSet(s) \/ Clients(s) \/ Markets(s) \/ Schedules(s)
  PROVE  AnsweredBeside(s)
<1>1. db = [table \in Tables |-> db[table]] /\ db.last \in Nat /\ Sound(db)
      /\ db.markets \subseteq Market
  BY IsTyped DEF CatalogInv, Sound, Typed
<1>2. CASE CreateSet(s)
  BY <1>1, <1>2, OtherTables DEF CreateSet, Tables
<1>3. CASE CreateClient(s)
  BY <1>1, <1>3, OtherTables DEF CreateClient, Tables
<1>4. CASE CreateBrand(s)
  BY <1>1, <1>4, OtherTables DEF CreateBrand, Tables
<1>5. CASE DeleteBrand(s)
  BY <1>1, <1>5, OtherTables DEF DeleteBrand, Tables
<1>6. ASSUME Form(s).op \in {"create_market", "update_market"}, req[s] # NoRequest
      PROVE  Form(s).code \in STRING /\ (Form(s).op = "update_market" => Form(s).id \in Nat)
  <2>1. FormOK(Form(s))
    BY <1>6 DEF CatalogInv, RequestOK
  <2> QED
    BY <1>6, <2>1 DEF FormOK, AnyForm, PromptForm, PlanForm, BrandForm, UserForm, RowForm
<1>7. CASE CreateMarket(s)
  <2> DEFINE row == [id |-> Fresh(db), code |-> Form(s).code]
             new == [db EXCEPT !.markets = @ \cup {row}, !.last = @ + 1]
  <2>1. row \in Market
    BY <1>1, <1>6, <1>7 DEF CreateMarket, Serving, Market, Fresh
  <2>2. Commit(s, TRUE, new)
    BY <1>7 DEF CreateMarket
  <2> HIDE DEF row
  <2> QED
    BY <1>1, <2>1, <2>2, OtherTables DEF Tables
<1>8. CASE UpdateMarket(s)
  <2> DEFINE row == [id |-> Form(s).id, code |-> Form(s).code]
             new == [db EXCEPT !.markets = Put(@, row)]
             changed == Loaded(s, "markets").code # Form(s).code
             found == changed => Has(db.markets, Form(s).id)
  <2>1. row \in Market
    BY <1>6, <1>8 DEF UpdateMarket, Serving, Market
  <2>2. Commit(s, found, IF changed THEN new ELSE db)
    BY <1>8 DEF UpdateMarket
  <2> HIDE DEF row, changed, found
  <2>3. CASE Commit(s, found, db)
    BY <1>1, <2>3, OtherTables
  <2>4. CASE Commit(s, found, new)
    <3>1. new.markets \subseteq Market
      BY <1>1, <2>1 DEF Tables, Put, Without
    <3> QED
      BY <1>1, <2>4, <3>1, OtherTables DEF Tables
  <2> QED
    BY <2>2, <2>3, <2>4
<1>9. CASE DeleteMarket(s)
  <2> DEFINE left == Without(db.markets, {Form(s).id})
             new == [db EXCEPT !.markets = left]
  <2>1. left \subseteq Market
    BY <1>1 DEF Without
  <2>2. Commit(s, TRUE, new)
    BY <1>9 DEF DeleteMarket
  <2> HIDE DEF left
  <2> QED
    BY <1>1, <2>1, <2>2, OtherTables DEF Tables
<1>10. CASE CreateSchedule(s)
  BY <1>1, <1>10, OtherTables DEF CreateSchedule, Tables
<1>11. CASE UpdateSchedule(s)
  BY <1>1, <1>11, OtherTables DEF UpdateSchedule, Tables
<1>12. CASE ToggleSchedule(s)
  BY <1>1, <1>12, OtherTables DEF ToggleSchedule, Tables
<1>13. CASE DeleteSchedule(s)
  <2> DEFINE left == {[q EXCEPT !.schedule = IF @ = Form(s).id THEN 0 ELSE @] : q \in db.queue}
             new == [db EXCEPT !.schedules = Without(@, {Form(s).id}), !.queue = left]
  <2>1. Commit(s, Has(db.schedules, Form(s).id), new)
    BY <1>13 DEF DeleteSchedule
  <2> HIDE DEF left
  <2>2. /\ new = [table \in Tables |-> new[table]] /\ new.prompts = db.prompts
        /\ new.runs = db.runs /\ new.last = db.last
        /\ new.markets = db.markets /\ new.personas = db.personas /\ new.users = db.users
    BY <1>1 DEF Tables
  <2> HIDE DEF new
  <2> QED
    BY <1>1, <2>1, <2>2, OtherTables
<1> QED
  BY <1>2, <1>3, <1>4, <1>5, <1>7, <1>9, <1>10, <1>11, <1>12, <1>13, <1>8
     DEF Clients, Markets, Schedules

LEMMA PersonasAnswered ==
  ASSUME CatalogInv, NEW s \in Slots, Personas(s)
  PROVE  Answered(s)
<1>1. /\ db = [table \in Tables |-> db[table]] /\ db.last \in Nat /\ Sound(db)
      /\ db.markets \subseteq Market
      /\ db.personas \subseteq Persona /\ Numbered(db.personas, db.last)
      /\ db.users \subseteq User /\ Numbered(db.users, db.last)
      /\ \A p \in db.personas \cup db.users : p.id \in Nat
  BY IsTyped DEF CatalogInv, Sound, Typed, Persona, User
<1>2. /\ Numbered(db.users, db.last + 1) /\ \A u \in db.users : Has(db.users, u.id)
      /\ Numbered(db.personas, db.last + 1)
  BY <1>1, LaterIsNumbered DEF Has
<1>3. ASSUME NEW rows
      PROVE  ClearDefault(rows) \subseteq Persona /\ Numbered(ClearDefault(rows), db.last)
  <2> DEFINE New(p) == IF Has(rows, p.id) THEN [p EXCEPT !.default = FALSE] ELSE p
  <2>1. ASSUME NEW p \in db.personas
        PROVE  New(p) \in Persona /\ New(p).id = p.id
    <3>1. p \in Persona
      BY <1>1
    <3> QED
      BY <3>1 DEF Persona
  <2>2. ClearDefault(rows) = {New(p) : p \in db.personas}
    BY DEF ClearDefault
  <2> HIDE DEF New
  <2> QED
    <3>1. ClearDefault(rows) \subseteq Persona
      BY <2>1, <2>2
    <3>2. \A p \in ClearDefault(rows) : \E q \in db.personas : p = New(q) /\ p.id = q.id
      BY <2>1, <2>2
    <3> QED
      BY <1>1, <3>1, <3>2 DEF Numbered
<1>4. CASE CreatePersona(s)
  <2>1. PICK cleared :
          Commit(s, StillThere(cleared),
            [db EXCEPT !.last = @ + 1, !.personas = ClearDefault(cleared) \cup
               {[id |-> Fresh(db), default |-> Form(s).default]}])
    BY <1>4 DEF CreatePersona
  <2> DEFINE row == [id |-> Fresh(db), default |-> Form(s).default]
             new == [db EXCEPT !.last = @ + 1, !.personas = ClearDefault(cleared) \cup {row}]
  <2>2. Form(s).op = "create_persona" /\ FormOK(Form(s))
    BY <1>4 DEF CreatePersona, Serving, CatalogInv, RequestOK
  <2>3. row \in Persona
    BY <1>1, <2>2 DEF FormOK, AnyForm, PromptForm, PlanForm, BrandForm, UserForm, RowForm,
                      Persona, Fresh
  <2>4. Numbered(ClearDefault(cleared) \cup {row}, db.last + 1)
    <3>1. /\ row.id = db.last + 1 /\ Numbered(ClearDefault(cleared), db.last)
          /\ \A p \in ClearDefault(cleared) : p.id \in Nat
      BY <1>3 DEF Fresh, Persona
    <3> HIDE DEF row
    <3> QED
      BY <1>1, <3>1, FreshIsNumbered
  <2>5. /\ new = [table \in Tables |-> new[table]] /\ new.prompts = db.prompts
        /\ new.runs = db.runs /\ new.last = db.last + 1
        /\ new.markets = db.markets /\ new.personas = ClearDefault(cleared) \cup {row} /\ new.users = db.users
    BY <1>1 DEF Tables
  <2> HIDE DEF row
  <2>6. new.personas \subseteq Persona
    BY <1>3, <2>3, <2>5
  <2> HIDE DEF new
  <2> QED
    BY <1>1, <1>2, <2>1, <2>4, <2>5, <2>6, PromptsLeft DEF new, row
<1>5. CASE UpdatePersona(s)
  <2>1. Form(s).op = "update_persona" /\ FormOK(Form(s))
    BY <1>5 DEF UpdatePersona, Serving, CatalogInv, RequestOK
  <2>2. Form(s).id \in Nat
    BY <2>1 DEF FormOK, AnyForm, PromptForm, PlanForm, BrandForm, UserForm, RowForm
  <2> DEFINE row == [id |-> Form(s).id, default |-> TRUE]
             New(cleared) == [db EXCEPT !.personas = Put(ClearDefault(cleared), row)]
  <2>3. CASE Commit(s, TRUE, db)
    BY <1>1, <2>3, OtherTables DEF AnsweredBeside
  <2>4. ASSUME NEW cleared,
               Commit(s, StillThere(cleared) /\ Has(db.personas, Form(s).id), New(cleared))
        PROVE  Answered(s)
    <3> DEFINE new == New(cleared)
    <3>1. CASE ~Has(db.personas, Form(s).id)
      BY <2>4, <3>1 DEF Commit, Answered
    <3>2. CASE Has(db.personas, Form(s).id)
      <4>1. Form(s).id <= db.last
        BY <1>1, <3>2 DEF Has, Numbered
      <4>2. row \in Persona /\ row.id = Form(s).id
        BY <2>2 DEF Persona
      <4> HIDE DEF row
      <4>3. Put(ClearDefault(cleared), row) \subseteq Persona
        BY <1>3, <4>2 DEF Put, Without
      <4>4. Numbered(Put(ClearDefault(cleared), row), db.last)
        BY <1>3, <4>1, <4>2, PutIsNumbered
      <4>5. /\ new = [table \in Tables |-> new[table]] /\ new.prompts = db.prompts
            /\ new.runs = db.runs /\ new.last = db.last
            /\ new.markets = db.markets /\ new.personas = Put(ClearDefault(cleared), row) /\ new.users = db.users
        BY <1>1 DEF Tables
      <4>6. Commit(s, StillThere(cleared) /\ Has(db.personas, Form(s).id), new)
        BY <2>4
      <4> HIDE DEF new
      <4> QED
        BY <1>1, <1>2, <4>3, <4>4, <4>5, <4>6, PromptsLeft
    <3> QED
      BY <3>1, <3>2
  <2> QED
    BY <1>5, <2>3, <2>4 DEF UpdatePersona
<1>6. CASE DeletePersona(s)
  <2> DEFINE left == Without(db.personas, {Form(s).id})
             new == [db EXCEPT !.personas = left]
  <2>1. left \subseteq Persona /\ Numbered(left, db.last)
    BY <1>1, FewerAreNumbered DEF Without
  <2>2. Commit(s, TRUE, new)
    BY <1>6 DEF DeletePersona
  <2> HIDE DEF left
  <2>3. /\ new = [table \in Tables |-> new[table]] /\ new.prompts = db.prompts
        /\ new.runs = db.runs /\ new.last = db.last
        /\ new.markets = db.markets /\ new.personas = left /\ new.users = db.users
    BY <1>1 DEF Tables
  <2> HIDE DEF new
  <2> QED
    BY <1>1, <1>2, <2>1, <2>2, <2>3, PromptsLeft
<1> QED
  BY <1>4, <1>5, <1>6 DEF Personas

\* One more user, or another row for one that is there.
LEMMA UserIsPut ==
  ASSUME Sound(db), NEW s, NEW user \in User, Has(db.users, user.id),
         Commit(s, TRUE, SetUser(user))
  PROVE  Answered(s)
<1>1. /\ db = [table \in Tables |-> db[table]] /\ db.last \in Nat /\ db.markets \subseteq Market
      /\ db.personas \subseteq Persona /\ Numbered(db.personas, db.last)
      /\ db.users \subseteq User /\ Numbered(db.users, db.last)
  BY IsTyped DEF Sound, Typed
<1> DEFINE new == [db EXCEPT !.users = Put(@, user)]
<1>2. user.id <= db.last
  BY <1>1 DEF Has, Numbered
<1>3. /\ Numbered(Put(db.users, user), db.last) /\ Put(db.users, user) \subseteq User
      /\ \A u \in db.users : Has(Put(db.users, user), u.id)
  BY <1>1, <1>2, PutIsNumbered DEF Put, Without
<1>4. /\ new = [table \in Tables |-> new[table]] /\ new.prompts = db.prompts
      /\ new.runs = db.runs /\ new.last = db.last
      /\ new.markets = db.markets /\ new.personas = db.personas /\ new.users = Put(db.users, user)
  BY <1>1 DEF Tables
<1>5. Commit(s, TRUE, new)
  BY DEF SetUser
<1> HIDE DEF new
<1> QED
  BY <1>1, <1>3, <1>4, <1>5, PromptsLeft

LEMMA UsersAnswered ==
  ASSUME CatalogInv, NEW s \in Slots, Users(s)
  PROVE  Answered(s)
<1>1. /\ db = [table \in Tables |-> db[table]] /\ db.last \in Nat /\ Sound(db)
      /\ db.markets \subseteq Market
      /\ db.personas \subseteq Persona /\ Numbered(db.personas, db.last)
      /\ db.users \subseteq User /\ Numbered(db.users, db.last)
      /\ \A p \in db.personas \cup db.users : p.id \in Nat
  BY IsTyped DEF CatalogInv, Sound, Typed, Persona, User
<1>2. Numbered(db.personas, db.last + 1)
  BY <1>1, LaterIsNumbered
<1>3. ASSUME Form(s).op \in {"update_user", "toggle_user", "reset_password"}, req[s] # NoRequest
      PROVE  /\ Row(db.users, Form(s).id) \in User /\ Row(db.users, Form(s).id).id = Form(s).id
             /\ Has(db.users, Form(s).id) /\ FormOK(Form(s))
  <2>1. RequestOK(s) /\ Has(db.users, Form(s).id)
    BY <1>3 DEF CatalogInv, RequestOK
  <2>2. FormOK(Form(s))
    BY <2>1 DEF RequestOK
  <2> QED
    BY <1>1, <2>1, <2>2, RowIs
<1>4. CASE CreateUser(s)
  <2> DEFINE row == [id |-> Fresh(db), role |-> Form(s).role, active |-> TRUE]
             new == [db EXCEPT !.last = @ + 1, !.users = @ \cup {row}]
  <2>1. Form(s).op = "create_user" /\ FormOK(Form(s)) /\ Commit(s, TRUE, new)
    <3>1. Commit(s, TRUE, new) /\ Form(s).op = "create_user" /\ req[s] # NoRequest
      BY <1>4 DEF CreateUser, Serving
    <3>2. RequestOK(s)
      BY <3>1 DEF CatalogInv
    <3> QED
      BY <3>1, <3>2 DEF RequestOK
  <2>2. Form(s).role \in Roles
    BY <2>1 DEF FormOK, AnyForm, PromptForm, PlanForm, BrandForm, UserForm, RowForm
  <2>3. row \in User /\ row.id = db.last + 1
    BY <1>1, <2>2 DEF User, Fresh
  <2> HIDE DEF row
  <2>4. /\ Numbered(db.users \cup {row}, db.last + 1) /\ db.users \cup {row} \subseteq User
        /\ \A u \in db.users : Has(db.users \cup {row}, u.id)
    BY <1>1, <2>3, FreshIsNumbered DEF Has
  <2>5. /\ new = [table \in Tables |-> new[table]] /\ new.prompts = db.prompts
        /\ new.runs = db.runs /\ new.last = db.last + 1
        /\ new.markets = db.markets /\ new.personas = db.personas /\ new.users = db.users \cup {row}
    BY <1>1 DEF Tables
  <2> HIDE DEF new
  <2> QED
    BY <1>1, <1>2, <2>1, <2>4, <2>5, PromptsLeft
<1>5. CASE UpdateUser(s)
  <2> DEFINE now == Row(db.users, Form(s).id)
             user == [now EXCEPT !.role = Form(s).role]
  <2>1. /\ Form(s).op = "update_user" /\ req[s] # NoRequest
        /\ Commit(s, TRUE, db) \/ Commit(s, TRUE, SetUser(user))
    BY <1>5 DEF UpdateUser, Serving
  <2>2. Form(s).role \in Roles
    BY <1>3, <2>1 DEF FormOK, AnyForm, PromptForm, PlanForm, BrandForm, UserForm, RowForm
  <2>3. now \in User /\ now.id = Form(s).id /\ Has(db.users, Form(s).id)
    BY <1>3, <2>1
  <2> HIDE DEF now
  <2>4. user \in User /\ user.id = Form(s).id
    BY <2>2, <2>3 DEF User
  <2> HIDE DEF user
  <2> QED
    BY <1>1, <2>1, <2>3, <2>4, OtherTables, UserIsPut DEF AnsweredBeside
<1>6. ASSUME NEW active \in BOOLEAN, Commit(s, TRUE, SetUser([Row(db.users, Form(s).id) EXCEPT !.active = active])),
             Form(s).op \in {"toggle_user", "reset_password"}, req[s] # NoRequest
      PROVE  Answered(s)
  <2> DEFINE now == Row(db.users, Form(s).id)
             user == [now EXCEPT !.active = active]
  <2>1. now \in User /\ now.id = Form(s).id /\ Has(db.users, Form(s).id)
    BY <1>3, <1>6
  <2> HIDE DEF now
  <2>2. user \in User /\ user.id = Form(s).id
    BY <2>1 DEF User
  <2>3. Commit(s, TRUE, SetUser(user))
    BY <1>6 DEF now
  <2> HIDE DEF user
  <2> QED
    BY <1>1, <2>1, <2>2, <2>3, UserIsPut
<1>7. CASE ToggleUser(s)
  <2> DEFINE loaded == Target(s, "users")
             active == ~loaded.active
  <2>1. /\ Form(s).op = "toggle_user" /\ req[s] # NoRequest
        /\ Commit(s, TRUE, SetUser([Row(db.users, Form(s).id) EXCEPT !.active = active]))
    BY <1>7 DEF ToggleUser, Serving
  <2>2. RequestOK(s)
    BY <2>1 DEF CatalogInv
  <2>3. Has(Seen(s).users, Form(s).id) /\ Seen(s).users \subseteq User
    BY <2>1, <2>2, IsTyped DEF RequestOK, Sound, Typed
  <2>4. loaded \in User
    BY <2>3, RowIs DEF Target
  <2>5. active \in BOOLEAN
    BY <2>4 DEF User
  <2> HIDE DEF active
  <2> QED
    BY <1>6, <2>1, <2>5
<1>8. CASE ResetPassword(s)
  BY <1>1, <1>6, <1>8, OtherTables DEF AnsweredBeside, ResetPassword, Serving
<1> QED
  BY <1>4, <1>5, <1>7, <1>8 DEF Users
-----------------------------------------------------------------------------
(* Prompts *)

\* Lineages stay whole if every version stays in its own, or the one that takes its place
\* does, and what is new stands alone or under a root that was there.
LEMMA LineagesKept ==
  ASSUME NEW d, Typed(d), WholeLineages(d), NEW new,
         \A p \in d.prompts : \E q \in new.prompts : q.id = p.id /\ q.root = p.root /\ q.set = p.set,
         \A q \in new.prompts :
           \/ \E p \in d.prompts : q.id = p.id /\ q.root = p.root /\ q.set = p.set
           \/ q.current /\ (q.root # 0 => \E r \in d.prompts : r.id = q.root /\ r.root = 0 /\ r.set = q.set),
         \A p \in d.prompts : p.current => \E q \in new.prompts :
           q.current /\ ((q.id = p.id /\ q.root = p.root) \/ q.root = RootOf(p))
  PROVE  WholeLineages(new)
<1>1. \A p \in d.prompts : p.id \in Nat \ {0} /\ \A q \in d.prompts : p.id = q.id => p = q
  BY DEF Typed, Prompt, Numbered
<1>2. ASSUME NEW q \in new.prompts, q.root # 0
      PROVE  \E r \in new.prompts : r.id = q.root /\ r.root = 0 /\ r.set = q.set
  <2>1. PICK r \in d.prompts : r.id = q.root /\ r.root = 0 /\ r.set = q.set
    BY <1>2 DEF WholeLineages
  <2> QED
    BY <2>1
<1>3. ASSUME NEW q \in new.prompts, q.root = 0
      PROVE  \E v \in Lineage(new, q.id) : v.current
  <2>1. CASE q.current
    BY <2>1 DEF Lineage
  <2>2. CASE \E p \in d.prompts : q.id = p.id /\ q.root = p.root /\ q.set = p.set
    <3>1. PICK p \in d.prompts : q.id = p.id /\ p.root = 0
      BY <1>3, <2>2
    <3>2. PICK v \in d.prompts : (v.id = p.id \/ v.root = p.id) /\ v.current
      BY <3>1 DEF WholeLineages, Lineage
    <3>3. RootOf(v) = p.id
      BY <1>1, <3>1, <3>2 DEF RootOf
    <3>4. PICK w \in new.prompts : w.current /\ ((w.id = v.id /\ w.root = v.root) \/ w.root = RootOf(v))
      BY <3>2
    <3>5. w \in Lineage(new, q.id)
      BY <3>1, <3>2, <3>3, <3>4 DEF Lineage
    <3> QED
      BY <3>4, <3>5
  <2> QED
    BY <2>1, <2>2
<1> QED
  BY <1>2, <1>3 DEF WholeLineages

\* Lineages that are deleted as a whole leave the others as they were.
LEMMA LineagesRemoved ==
  ASSUME NEW d, Typed(d), WholeLineages(d), NEW new, new.prompts \subseteq d.prompts,
         \A p, q \in d.prompts : RootOf(p) = RootOf(q) /\ p \in new.prompts => q \in new.prompts
  PROVE  WholeLineages(new)
<1>1. \A p \in d.prompts : p.id \in Nat \ {0} /\ \A q \in d.prompts : p.id = q.id => p = q
  BY DEF Typed, Prompt, Numbered
<1>2. ASSUME NEW q \in new.prompts, q.root # 0
      PROVE  \E r \in new.prompts : r.id = q.root /\ r.root = 0 /\ r.set = q.set
  <2>1. PICK r \in d.prompts : r.id = q.root /\ r.root = 0 /\ r.set = q.set
    BY <1>2 DEF WholeLineages
  <2>2. RootOf(r) = RootOf(q)
    BY <1>2, <2>1 DEF RootOf
  <2> QED
    BY <2>1, <2>2
<1>3. ASSUME NEW q \in new.prompts, q.root = 0
      PROVE  \E v \in Lineage(new, q.id) : v.current
  <2>1. PICK v \in d.prompts : (v.id = q.id \/ v.root = q.id) /\ v.current
    BY <1>3 DEF WholeLineages, Lineage
  <2>2. RootOf(v) = RootOf(q)
    BY <1>1, <1>3, <2>1 DEF RootOf
  <2> QED
    BY <2>1, <2>2 DEF Lineage
<1> QED
  BY <1>2, <1>3 DEF WholeLineages

\* The tables but those of prompts and runs are as they were.
Beside(new) ==
  /\ new = [table \in Tables |-> new[table]]
  /\ new.personas = db.personas /\ new.users = db.users /\ new.markets = db.markets

LEMMA CommitBeside ==
  ASSUME NEW s, NEW found, NEW new, Beside(new), Commit(s, found, new),
         found /\ Consistent(new) => Follows(db, new)
  PROVE  AnsweredBeside(s)
<1>1. Answered(s)
  BY CommitAnswers
<1>2. db' = db \/ db' = new
  BY DEF Commit
<1> QED
  BY <1>1, <1>2 DEF AnsweredBeside, Beside

LEMMA PromptsFollow ==
  ASSUME Sound(db), NEW new, Beside(new),
         new.last \in Nat, db.last <= new.last,
         new.prompts \subseteq Prompt, Numbered(new.prompts, new.last), WholeLineages(new),
         \A p \in new.prompts : p.id > db.last \/ \E q \in db.prompts : q.id = p.id /\ SameText(p, q),
         \A r \in new.runs : r \in db.runs \/ \E p \in db.prompts : p.id = r.prompt /\ p.text = r.asked
  PROVE  Follows(db, new)
<1>1. Typed(db)
  BY IsTyped DEF Sound
<1>2. Numbered(new.personas, new.last) /\ Numbered(new.users, new.last)
  BY <1>1, LaterIsNumbered DEF Beside, Typed, Persona, User
<1>3. \A u \in db.users : Has(new.users, u.id)
  BY DEF Has, Beside
<1>4. Typed(new)
  BY <1>1, <1>2 DEF Typed, Beside
<1> QED
  BY <1>3, <1>4 DEF Follows

\* Whole lineages are deleted, and nothing else changes about prompts.
LEMMA RemovalFollows ==
  ASSUME Sound(db), NEW new, Beside(new), new.last = db.last, new.prompts \subseteq db.prompts,
         new.runs = db.runs,
         \A p, q \in db.prompts : RootOf(p) = RootOf(q) /\ p \in new.prompts => q \in new.prompts
  PROVE  Follows(db, new)
<1>1. Typed(db) /\ WholeLineages(db)
  BY IsTyped DEF Sound
<1>2. WholeLineages(new)
  BY <1>1, LineagesRemoved
<1>3. /\ new.prompts \subseteq Prompt /\ Numbered(new.prompts, new.last)
      /\ new.last \in Nat /\ db.last <= new.last
  BY <1>1, FewerAreNumbered DEF Typed
<1> QED
  BY <1>2, <1>3, PromptsFollow DEF SameText

LEMMA OneSet ==
  ASSUME NEW d, Typed(d), WholeLineages(d), NEW p \in d.prompts, NEW q \in d.prompts,
         RootOf(p) = RootOf(q)
  PROVE  p.set = q.set
<1>1. \A x \in d.prompts : x.id \in Nat \ {0} /\ \A y \in d.prompts : x.id = y.id => x = y
  BY DEF Typed, Prompt, Numbered
<1>2. ASSUME NEW x \in d.prompts
      PROVE  \E r \in d.prompts : r.id = RootOf(x) /\ r.set = x.set
  <2>1. CASE x.root = 0
    BY <2>1 DEF RootOf
  <2>2. CASE x.root # 0
    BY <2>2 DEF RootOf, WholeLineages
  <2> QED
    BY <2>1, <2>2
<1>3. PICK r \in d.prompts : r.id = RootOf(p) /\ r.set = p.set
  BY <1>2
<1>4. PICK r2 \in d.prompts : r2.id = RootOf(q) /\ r2.set = q.set
  BY <1>2
<1> QED
  BY <1>1, <1>3, <1>4

LEMMA SetsAnswered ==
  ASSUME CatalogInv, NEW s \in Slots, DeleteSet(s) \/ DeleteClient(s)
  PROVE  AnsweredBeside(s)
<1>1. /\ db = [table \in Tables |-> db[table]] /\ Sound(db) /\ Typed(db) /\ WholeLineages(db)
  BY IsTyped DEF CatalogInv, Sound, Typed
<1>2. CASE DeleteSet(s)
  <2> DEFINE gone == PromptsOf(db, Form(s).id)
             new == [db EXCEPT !.sets = Without(@, {Form(s).id}), !.prompts = @ \ gone]
  <2>1. PICK found : Commit(s, found, new)
    BY <1>2 DEF DeleteSet
  <2>2. \A p, q \in db.prompts : RootOf(p) = RootOf(q) /\ p \notin gone => q \notin gone
    BY <1>1, OneSet DEF PromptsOf
  <2> HIDE DEF gone
  <2>3. /\ Beside(new) /\ new.last = db.last /\ new.prompts = db.prompts \ gone
        /\ new.runs = db.runs
    BY <1>1 DEF Beside, Tables
  <2> HIDE DEF new
  <2>4. Follows(db, new)
    BY <1>1, <2>2, <2>3, RemovalFollows
  <2> QED
    BY <2>1, <2>4, <2>3, CommitBeside
<1>3. CASE DeleteClient(s)
  <2> DEFINE gone == PromptsOfClient(db, Form(s).id)
             new == [db EXCEPT !.clients = Without(@, {Form(s).id}), !.prompts = @ \ gone,
                               !.sets = @ \ SetsOf(db, Form(s).id),
                               !.brands = @ \ BrandTree(db, Form(s).id)]
  <2>1. PICK found : Commit(s, found, new)
    BY <1>3 DEF DeleteClient
  <2>2. \A p, q \in db.prompts : RootOf(p) = RootOf(q) /\ p \notin gone => q \notin gone
    BY <1>1, OneSet DEF PromptsOf, PromptsOfClient
  <2> HIDE DEF gone
  <2>3. /\ Beside(new) /\ new.last = db.last /\ new.prompts = db.prompts \ gone
        /\ new.runs = db.runs
    BY <1>1 DEF Beside, Tables
  <2> HIDE DEF new
  <2>4. Follows(db, new)
    BY <1>1, <2>2, <2>3, RemovalFollows
  <2> QED
    BY <2>1, <2>4, <2>3, CommitBeside
<1> QED
  BY <1>2, <1>3

LEMMA DeletePromptAnswered ==
  ASSUME CatalogInv, NEW s \in Slots, DeletePrompt(s)
  PROVE  AnsweredBeside(s)
<1>1. /\ db = [table \in Tables |-> db[table]] /\ Sound(db) /\ Typed(db) /\ WholeLineages(db)
  BY IsTyped DEF CatalogInv, Sound, Typed
<1>2. /\ Typed(Seen(s)) /\ WholeLineages(Seen(s)) /\ Agrees(Seen(s), db)
      /\ Has(Seen(s).prompts, Form(s).id)
  BY IsTyped DEF DeletePrompt, Serving, CatalogInv, RequestOK, Sound
<1> DEFINE loaded == Loaded(s, "prompts")
           root == RootOf(loaded)
           gone == {p.id : p \in Lineage(Seen(s), root)}
           new == [db EXCEPT !.prompts = Without(@, gone)]
<1>3. Commit(s, TRUE, new)
  BY DEF DeletePrompt
<1>4. loaded \in Seen(s).prompts
  BY <1>2, RowIs DEF Loaded
<1> HIDE DEF loaded
<1>5. PICK top \in Seen(s).prompts : top.id = root /\ top.root = 0
  BY <1>2, <1>4 DEF WholeLineages, RootOf
<1>6. root \in gone /\ root \in Nat \ {0}
  BY <1>2, <1>5 DEF Lineage, Typed, Prompt
<1>7. ASSUME NEW q \in db.prompts, q.id \in gone
      PROVE  RootOf(q) = root
  <2>1. PICK seen \in Seen(s).prompts : seen.id = q.id /\ (seen.id = root \/ seen.root = root)
    BY <1>7 DEF Lineage
  <2>2. q.root = seen.root
    BY <1>2, <2>1 DEF Agrees, SameText
  <2>3. seen.id = root => seen = top
    BY <1>2, <1>5 DEF Typed, Numbered
  <2> QED
    BY <1>5, <1>6, <2>1, <2>2, <2>3 DEF RootOf
<1> HIDE DEF gone, root
<1>8. /\ Beside(new) /\ new.last = db.last /\ new.prompts = Without(db.prompts, gone)
      /\ new.runs = db.runs
  BY <1>1 DEF Beside, Tables
<1> HIDE DEF new
<1>9. ASSUME Consistent(new)
      PROVE  Follows(db, new)
  <2>1. ASSUME NEW p \in new.prompts
        PROVE  RootOf(p) # root
    <3>1. p \in db.prompts /\ p.id \notin gone
      BY <1>8, <2>1 DEF Without
    <3>2. CASE p.root = root
      <4>1. Has(new.prompts, root)
        BY <1>6, <1>9, <2>1, <3>2 DEF Consistent, PromptKeys
      <4> QED
        BY <1>6, <1>8, <4>1 DEF Has, Without
    <3> QED
      BY <1>6, <3>1, <3>2 DEF RootOf
  <2>2. \A p, q \in db.prompts : RootOf(p) = RootOf(q) /\ p \in new.prompts => q \in new.prompts
    BY <1>7, <1>8, <2>1 DEF Without
  <2>3. new.prompts \subseteq db.prompts
    BY <1>8 DEF Without
  <2> QED
    BY <1>1, <1>8, <2>2, <2>3, RemovalFollows
<1> QED
  BY <1>3, <1>9, <1>8, CommitBeside

LEMMA TriggerRunAnswered ==
  ASSUME CatalogInv, NEW s \in Slots, TriggerRun(s)
  PROVE  AnsweredBeside(s)
<1>1. /\ db = [table \in Tables |-> db[table]] /\ Sound(db) /\ Typed(db) /\ WholeLineages(db)
  BY IsTyped DEF CatalogInv, Sound, Typed
<1>2. Agrees(Seen(s), db) /\ Has(Seen(s).prompts, Form(s).id)
  BY DEF TriggerRun, Serving, CatalogInv, RequestOK
<1> DEFINE run == [prompt |-> Form(s).id, market |-> Form(s).market, persona |-> Form(s).persona,
                   asked |-> Loaded(s, "prompts").text]
           new == [db EXCEPT !.runs = @ \cup {run}]
<1>3. Commit(s, TRUE, new)
  BY DEF TriggerRun
<1>4. /\ Loaded(s, "prompts") \in Seen(s).prompts /\ Loaded(s, "prompts").id = run.prompt
      /\ run.asked = Loaded(s, "prompts").text
  BY <1>2, RowIs DEF Loaded
<1> HIDE DEF run
<1>5. /\ Beside(new) /\ new.last = db.last /\ new.prompts = db.prompts
      /\ new.runs = db.runs \cup {run}
  BY <1>1 DEF Beside, Tables
<1> HIDE DEF new
<1>6. ASSUME Consistent(new)
      PROVE  Follows(db, new)
  <2>1. Has(db.prompts, run.prompt)
    BY <1>5, <1>6 DEF Consistent, EvidenceKeys
  <2>2. \E p \in db.prompts : p.id = run.prompt /\ p.text = run.asked
    BY <1>2, <1>4, <2>1 DEF Has, Agrees, SameText
  <2>3. /\ new.last \in Nat /\ db.last <= new.last
        /\ new.prompts \subseteq Prompt /\ Numbered(new.prompts, new.last)
    BY <1>1, <1>5 DEF Typed
  <2>4. WholeLineages(new)
    BY <1>1, <1>5 DEF WholeLineages, Lineage
  <2> QED
    BY <1>1, <1>5, <2>2, <2>3, <2>4, PromptsFollow DEF SameText
<1> QED
  BY <1>3, <1>6, <1>5, CommitBeside

LEMMA CreatePromptAnswered ==
  ASSUME CatalogInv, NEW s \in Slots, CreatePrompt(s)
  PROVE  AnsweredBeside(s)
<1>1. /\ db = [table \in Tables |-> db[table]] /\ Sound(db) /\ Typed(db) /\ WholeLineages(db)
  BY IsTyped DEF CatalogInv, Sound, Typed
<1>2. Form(s).op = "create_prompt" /\ FormOK(Form(s))
  BY DEF CreatePrompt, Serving, CatalogInv, RequestOK
<1>3. Form(s).id \in Nat /\ Form(s).text \in Text /\ Form(s).market \in Nat
  BY <1>2 DEF FormOK, AnyForm, PromptForm, PlanForm, BrandForm, UserForm, RowForm
<1> DEFINE row == NewPrompt(db, Form(s).id, Form(s).text, Form(s).market, TRUE)
           new == [db EXCEPT !.prompts = @ \cup {row}, !.last = @ + 1]
<1>4. Commit(s, TRUE, new)
  BY DEF CreatePrompt
<1>5. row \in Prompt /\ row.id = db.last + 1 /\ row.root = 0 /\ row.current
  BY <1>1, <1>3 DEF NewPrompt, Fresh, Prompt, Typed
<1> HIDE DEF row
<1>6. /\ Beside(new) /\ new.last = db.last + 1 /\ new.prompts = db.prompts \cup {row}
      /\ new.runs = db.runs
  BY <1>1 DEF Beside, Tables
<1> HIDE DEF new
<1>7. /\ new.last \in Nat /\ db.last <= new.last /\ row.id > db.last
      /\ new.prompts \subseteq Prompt
  BY <1>1, <1>5, <1>6 DEF Typed
<1>8. Numbered(new.prompts, new.last)
  BY <1>1, <1>5, <1>6, FreshIsNumbered DEF Typed, Prompt
<1>9. WholeLineages(new)
  BY <1>1, <1>5, <1>6, LineagesKept
<1>10. Follows(db, new)
  BY <1>1, <1>6, <1>7, <1>8, <1>9, PromptsFollow DEF SameText
<1> QED
  BY <1>4, <1>10, <1>6, CommitBeside

\* What an edit knows of the prompt it was made for.
LEMMA EditedPrompt ==
  ASSUME CatalogInv, NEW s \in Slots, Serving(s, "edit")
  PROVE  /\ Loaded(s, "prompts") \in Seen(s).prompts /\ Loaded(s, "prompts") \in Prompt
         /\ Typed(Seen(s)) /\ WholeLineages(Seen(s)) /\ Agrees(Seen(s), db)
         /\ Form(s).text \in Text /\ Form(s).market \in Nat /\ Form(s).active \in BOOLEAN
<1>1. /\ Form(s).op = "edit" /\ FormOK(Form(s)) /\ Has(Seen(s).prompts, Form(s).id)
      /\ Typed(Seen(s)) /\ WholeLineages(Seen(s)) /\ Agrees(Seen(s), db)
  BY IsTyped DEF Serving, CatalogInv, RequestOK, Sound
<1>2. Form(s).text \in Text /\ Form(s).market \in Nat /\ Form(s).active \in BOOLEAN
  BY <1>1 DEF FormOK, AnyForm, PromptForm, PlanForm, BrandForm, UserForm, RowForm
<1> QED
  BY <1>1, <1>2, RowIs DEF Loaded, Typed

LEMMA EditInPlaceAnswered ==
  ASSUME CatalogInv, NEW s \in Slots, Serving(s, "edit"), EditInPlace(s, Loaded(s, "prompts"))
  PROVE  AnsweredBeside(s)
<1>1. /\ db = [table \in Tables |-> db[table]] /\ Sound(db) /\ Typed(db) /\ WholeLineages(db)
      /\ db.last \in Nat
  BY IsTyped DEF CatalogInv, Sound, Typed
<1> DEFINE id == Loaded(s, "prompts").id
           now == Row(db.prompts, id)
           row == [now EXCEPT !.active = Form(s).active]
           new == [db EXCEPT !.prompts = Put(@, row)]
<1>2. CASE Commit(s, TRUE, db)
  BY <1>1, <1>2, OtherTables DEF Typed
<1>3. CASE Commit(s, Has(db.prompts, id), new)
  <2>1. ASSUME Has(db.prompts, id)
        PROVE  Follows(db, new)
    <3>1. now \in db.prompts /\ now \in Prompt /\ now.id = id
      BY <1>1, <2>1, RowIs DEF Typed
    <3> HIDE DEF now
    <3>2. /\ row \in Prompt /\ row.id = id /\ SameText(row, now) /\ row.current = now.current
      BY <3>1, EditedPrompt DEF Prompt, SameText
    <3> HIDE DEF row
    <3>3. /\ Beside(new) /\ new.last = db.last /\ new.prompts = Put(db.prompts, row)
          /\ new.runs = db.runs
      BY <1>1 DEF Beside, Tables
    <3> HIDE DEF new
    <3>4. now.id <= db.last /\ \A p, q \in db.prompts : p.id = q.id => p = q
      BY <1>1, <3>1 DEF Typed, Numbered
    <3>5. new.prompts = {p \in db.prompts : p # now} \cup {row}
      BY <3>1, <3>2, <3>3, <3>4 DEF Put, Without
    <3>6. Numbered(new.prompts, new.last)
      BY <1>1, <3>2, <3>1, <3>3, <3>4, PutIsNumbered DEF Typed
    <3>7. new.prompts \subseteq Prompt
      BY <1>1, <3>2, <3>5 DEF Typed
    <3>8. /\ \A p \in db.prompts : \E q \in new.prompts :
                q.id = p.id /\ q.current = p.current /\ SameText(q, p)
          /\ \A q \in new.prompts : \E p \in db.prompts : q.id = p.id /\ SameText(q, p)
      BY <3>1, <3>2, <3>5 DEF SameText
    <3>9. WholeLineages(new)
      BY <1>1, <3>8, LineagesKept DEF SameText
    <3>10. new.last \in Nat /\ db.last <= new.last /\ new.runs \subseteq db.runs
      BY <1>1, <3>3
    <3> QED
      BY <1>1, <3>3, <3>6, <3>7, <3>8, <3>9, <3>10, PromptsFollow
  <2>2. Beside(new)
    BY <1>1 DEF Beside, Tables
  <2> QED
    BY <1>3, <2>1, <2>2, CommitBeside
<1> QED
  BY <1>2, <1>3 DEF EditInPlace

LEMMA EditAsNewVersionAnswered ==
  ASSUME CatalogInv, NEW s \in Slots, Serving(s, "edit"),
         EditAsNewVersion(s, Loaded(s, "prompts"))
  PROVE  AnsweredBeside(s)
<1>1. /\ db = [table \in Tables |-> db[table]] /\ Sound(db) /\ Typed(db) /\ WholeLineages(db)
      /\ db.last \in Nat
  BY IsTyped DEF CatalogInv, Sound, Typed
<1> DEFINE old == Loaded(s, "prompts")
           now == Row(db.prompts, old.id)
           left == [now EXCEPT !.current = FALSE]
           kept == IF old.current /\ Has(db.prompts, old.id)
                   THEN Put(db.prompts, left) ELSE db.prompts
           row == NextVersion(old, Form(s))
           new == [db EXCEPT !.prompts = kept \cup {row}, !.last = @ + 1]
<1>2. Commit(s, old.current => Has(db.prompts, old.id), new)
  BY DEF EditAsNewVersion
<1>3. /\ old \in Seen(s).prompts /\ old \in Prompt
      /\ Typed(Seen(s)) /\ WholeLineages(Seen(s)) /\ Agrees(Seen(s), db)
      /\ Form(s).text \in Text /\ Form(s).market \in Nat /\ Form(s).active \in BOOLEAN
  BY EditedPrompt
<1> HIDE DEF old
<1>4. /\ row \in Prompt /\ row.id = db.last + 1 /\ row.root = RootOf(old) /\ row.root # 0
      /\ row.set = old.set /\ row.current
  <2>1. row = [id |-> db.last + 1, set |-> old.set, root |-> RootOf(old),
               version |-> old.version + 1, current |-> TRUE, active |-> Form(s).active,
               text |-> Form(s).text, market |-> Form(s).market]
    <3> DEFINE plain == NewPrompt(db, old.set, Form(s).text, Form(s).market, Form(s).active)
    <3>1. plain = [id |-> db.last + 1, set |-> old.set, root |-> 0, version |-> 1,
                   current |-> TRUE, active |-> Form(s).active, text |-> Form(s).text,
                   market |-> Form(s).market]
      BY DEF NewPrompt, Fresh
    <3>2. row = [plain EXCEPT !.root = RootOf(old), !.version = old.version + 1]
      BY DEF NextVersion
    <3> HIDE DEF plain, row
    <3> QED
      BY <3>1, <3>2
  <2>2. RootOf(old) \in Nat /\ RootOf(old) # 0
    <3>1. old.root \in Nat /\ old.id \in Nat \ {0}
      BY <1>3 DEF Prompt
    <3> QED
      BY <3>1 DEF RootOf
  <2>3. /\ old.set \in Nat /\ old.version + 1 \in Nat /\ db.last + 1 \in Nat \ {0}
    BY <1>1, <1>3 DEF Prompt
  <2> HIDE DEF row
  <2> QED
    BY <1>3, <2>1, <2>2, <2>3 DEF Prompt
<1>5. /\ kept \subseteq Prompt /\ Numbered(kept, db.last)
      /\ \A p \in db.prompts : \E q \in kept :
           q.id = p.id /\ SameText(q, p) /\ (p.id # old.id => q.current = p.current)
      /\ \A q \in kept : \E p \in db.prompts : q.id = p.id /\ SameText(q, p)
  <2>1. CASE old.current /\ Has(db.prompts, old.id)
    <3>1. now \in db.prompts /\ now \in Prompt /\ now.id = old.id
      BY <1>1, <2>1, RowIs DEF Typed
    <3> HIDE DEF now
    <3>2. left \in Prompt /\ left.id = old.id /\ SameText(left, now)
      BY <3>1 DEF Prompt, SameText
    <3> HIDE DEF left
    <3>3. now.id <= db.last /\ \A p, q \in db.prompts : p.id = q.id => p = q
      BY <1>1, <3>1 DEF Typed, Numbered
    <3>4. kept = {p \in db.prompts : p # now} \cup {left}
      BY <2>1, <3>1, <3>2, <3>3 DEF Put, Without
    <3>5. Numbered(kept, db.last)
      BY <1>1, <2>1, <3>1, <3>2, <3>3, PutIsNumbered DEF Typed
    <3> HIDE DEF kept
    <3> QED
      BY <1>1, <3>1, <3>2, <3>3, <3>4, <3>5 DEF Typed, SameText
  <2>2. CASE ~(old.current /\ Has(db.prompts, old.id))
    BY <1>1, <2>2 DEF Typed, SameText
  <2> QED
    BY <2>1, <2>2
<1> HIDE DEF kept, row
<1>6. /\ Beside(new) /\ new.last = db.last + 1 /\ new.prompts = kept \cup {row}
      /\ new.runs = db.runs
  BY <1>1 DEF Beside, Tables
<1> HIDE DEF new
<1>7. ASSUME Consistent(new)
      PROVE  Follows(db, new)
  <2>1. PICK top \in Seen(s).prompts : top.id = row.root /\ top.root = 0 /\ top.set = row.set
    BY <1>3, <1>4 DEF WholeLineages, RootOf
  <2>2. PICK q \in new.prompts : q.id = row.root
    BY <1>4, <1>6, <1>7 DEF Consistent, PromptKeys, Has
  <2>3. top.id <= db.last /\ top.id \in Nat
    BY <1>1, <1>3, <2>1 DEF Typed, Numbered, Agrees, Prompt
  <2>4. q \in kept
    BY <1>1, <1>4, <1>6, <2>1, <2>2, <2>3
  <2>5. PICK root \in db.prompts : root.id = row.root
    BY <1>5, <2>2, <2>4
  <2>6. root.root = 0 /\ root.set = row.set
    BY <1>3, <2>1, <2>5 DEF Agrees, SameText
  <2>7. ASSUME NEW p \in db.prompts, p.id = old.id
        PROVE  row.root = RootOf(p)
    BY <1>3, <1>4, <2>7 DEF Agrees, SameText, RootOf
  <2>8. \A p \in db.prompts : \E q2 \in new.prompts :
          q2.id = p.id /\ SameText(q2, p) /\ (q2.current = p.current \/ row.root = RootOf(p))
    BY <1>5, <1>6, <2>7
  <2>9. \A q2 \in new.prompts : q2 = row \/ \E p \in db.prompts : q2.id = p.id /\ SameText(q2, p)
    BY <1>5, <1>6
  <2>10. WholeLineages(new)
    <3>1. row \in new.prompts
      BY <1>6
    <3>2. \A p \in db.prompts : \E q2 \in new.prompts : q2.id = p.id /\ q2.root = p.root /\ q2.set = p.set
      BY <2>8 DEF SameText
    <3>3. \A q2 \in new.prompts :
            \/ \E p \in db.prompts : q2.id = p.id /\ q2.root = p.root /\ q2.set = p.set
            \/ q2.current /\ (q2.root # 0 =>
                 \E r \in db.prompts : r.id = q2.root /\ r.root = 0 /\ r.set = q2.set)
      BY <1>4, <2>5, <2>6, <2>9 DEF SameText
    <3>4. \A p \in db.prompts : p.current => \E q2 \in new.prompts :
            q2.current /\ ((q2.id = p.id /\ q2.root = p.root) \/ q2.root = RootOf(p))
      BY <1>4, <2>8, <3>1 DEF SameText
    <3> QED
      BY <1>1, <3>2, <3>3, <3>4, LineagesKept
  <2>11. Numbered(new.prompts, new.last)
    BY <1>1, <1>4, <1>5, <1>6, FreshIsNumbered DEF Prompt
  <2>12. /\ new.prompts \subseteq Prompt /\ new.last \in Nat /\ db.last <= new.last
         /\ row.id > db.last /\ new.runs \subseteq db.runs
    BY <1>1, <1>4, <1>5, <1>6
  <2> QED
    BY <1>1, <1>6, <2>9, <2>10, <2>11, <2>12, PromptsFollow
<1> QED
  BY <1>2, <1>7, <1>6, CommitBeside

LEMMA PromptsAnswered ==
  ASSUME CatalogInv, NEW s \in Slots, Prompts(s)
  PROVE  AnsweredBeside(s)
<1>1. CASE UpdatePrompt(s)
  BY <1>1, EditInPlaceAnswered, EditAsNewVersionAnswered DEF UpdatePrompt
<1> QED
  BY <1>1, DeletePromptAnswered, CreatePromptAnswered, TriggerRunAnswered DEF Prompts

-----------------------------------------------------------------------------
(* Bulk import *)

\* The rows of an import are numbered from the last id on, in their order.
LEMMA RowsAreCounted ==
  ASSUME NEW rows, IsFiniteSet(rows), rows \subseteq Nat
  PROVE  /\ Cardinality(rows) \in Nat
         /\ \A i \in rows : Cardinality({j \in rows : j <= i}) \in 1..Cardinality(rows)
         /\ \A i, k \in rows :
              Cardinality({j \in rows : j <= i}) = Cardinality({j \in rows : j <= k}) => i = k
<1> DEFINE UpTo(i) == {j \in rows : j <= i}
<1>1. \A i \in rows : IsFiniteSet(UpTo(i)) /\ Cardinality(UpTo(i)) <= Cardinality(rows)
  BY FS_Subset
<1>2. Cardinality(rows) \in Nat /\ \A i \in rows : Cardinality(UpTo(i)) \in Nat
  BY <1>1, FS_CardinalityType
<1>3. \A i \in rows : Cardinality(UpTo(i)) # 0
  <2> TAKE i \in rows
  <2>1. i \in UpTo(i)
    OBVIOUS
  <2> HIDE DEF UpTo
  <2> QED
    BY <1>1, <2>1, FS_EmptySet
<1>4. ASSUME NEW i \in rows, NEW k \in rows, i < k
      PROVE  Cardinality(UpTo(i)) # Cardinality(UpTo(k))
  <2>1. i \in Nat /\ k \in Nat /\ \A j \in rows : j \in Nat /\ (j <= i => j <= k) /\ k <= k /\ ~(k <= i)
    BY <1>4
  <2>2. UpTo(i) \subseteq UpTo(k) /\ k \in UpTo(k) /\ k \notin UpTo(i)
    BY <2>1
  <2> HIDE DEF UpTo
  <2> QED
    BY <1>1, <2>2, FS_Subset
<1>5. \A i, k \in rows : i = k \/ i < k \/ k < i
  OBVIOUS
<1> HIDE DEF UpTo
<1> QED
  BY <1>1, <1>2, <1>3, <1>4, <1>5 DEF UpTo

\* What an import adds stands alone, and no two rows get one number.
LEMMA ImportAnswered ==
  ASSUME CatalogInv, NEW s \in Slots, ConfirmImport(s)
  PROVE  AnsweredBeside(s)
<1>1. /\ db = [table \in Tables |-> db[table]] /\ Sound(db) /\ Typed(db) /\ WholeLineages(db)
      /\ db.last \in Nat
  BY IsTyped DEF CatalogInv, Sound, Typed
<1> DEFINE rows == Form(s).rows
           some == Imported(s)
           Number(i) == Cardinality({j \in some : j <= i})
           Plain(i) == NewPrompt(db, Form(s).id, rows[i].text, rows[i].market, TRUE)
           Added(i) == [Plain(i) EXCEPT !.id = db.last + Number(i)]
           new == [db EXCEPT !.last = @ + Cardinality(some),
                             !.prompts = @ \cup {Added(i) : i \in some}]
<1>2. Commit(s, TRUE, new)
  BY DEF ConfirmImport
<1>3. /\ Form(s).id \in Nat /\ IsFiniteSet(some) /\ some \subseteq Nat
      /\ \A i \in some : rows[i].text \in Text /\ rows[i].market \in Nat
  <2>1. Form(s).op = "confirm" /\ FormOK(Form(s))
    BY DEF ConfirmImport, Serving, CatalogInv, RequestOK
  <2>2. /\ Form(s).id \in Nat /\ RowsOK(rows) /\ \A i \in Form(s).include : rows[i].status # "error"
    BY <2>1 DEF FormOK, AnyForm, PromptForm, PlanForm, BrandForm, UserForm, RowForm
  <2>3. \A i \in some : i \in DOMAIN rows /\ i \in Form(s).include
    BY DEF Imported, Included
  <2>4. PICK n \in Nat : DOMAIN rows \subseteq 1..n
    BY <2>2 DEF RowsOK
  <2>5. IsFiniteSet(1..n) /\ some \subseteq 1..n
    BY <2>3, <2>4, FS_Interval
  <2> HIDE DEF some
  <2>6. IsFiniteSet(some)
    BY <2>5, FS_Subset
  <2>7. some \subseteq Nat
    BY <2>5
  <2> QED
    BY <2>2, <2>3, <2>6, <2>7 DEF RowsOK
<1> HIDE DEF some, rows
<1>4. /\ Cardinality(some) \in Nat /\ \A i \in some : Number(i) \in 1..Cardinality(some)
      /\ \A i, k \in some : Number(i) = Number(k) => i = k
  BY <1>3, RowsAreCounted
<1> HIDE DEF Number
<1>5. ASSUME NEW i \in some
      PROVE  /\ Added(i) \in Prompt /\ Added(i).id = db.last + Number(i)
             /\ Added(i).root = 0 /\ Added(i).current
  <2> DEFINE plain == Plain(i)
  <2>1. plain = [id |-> db.last + 1, set |-> Form(s).id, root |-> 0, version |-> 1,
                 current |-> TRUE, active |-> TRUE, text |-> rows[i].text,
                 market |-> rows[i].market]
    BY DEF NewPrompt, Fresh
  <2>2. Added(i) = [plain EXCEPT !.id = db.last + Number(i)]
    OBVIOUS
  <2> HIDE DEF plain, Added
  <2>3. Added(i) = [id |-> db.last + Number(i), set |-> Form(s).id, root |-> 0, version |-> 1,
                    current |-> TRUE, active |-> TRUE, text |-> rows[i].text,
                    market |-> rows[i].market]
    BY <2>1, <2>2
  <2>4. db.last + Number(i) \in Nat \ {0}
    BY <1>1, <1>4
  <2> QED
    BY <1>3, <2>3, <2>4 DEF Prompt
<1> HIDE DEF Added
<1> DEFINE added == {Added(i) : i \in some}
<1>6. /\ Beside(new) /\ new.last = db.last + Cardinality(some)
      /\ new.prompts = db.prompts \cup added /\ new.runs = db.runs
  BY <1>1 DEF Beside, Tables
<1>7. /\ \A p \in added : p \in Prompt /\ p.id \in Nat /\ p.id > db.last /\ p.id <= new.last
                         /\ p.root = 0 /\ p.current
      /\ \A p, q \in added : p.id = q.id => p = q
  BY <1>1, <1>4, <1>5, <1>6
<1> HIDE DEF new, added
<1>8. /\ new.last \in Nat /\ db.last <= new.last /\ new.prompts \subseteq Prompt
      /\ new.runs \subseteq db.runs
  BY <1>1, <1>4, <1>6, <1>7 DEF Typed
<1>9. Numbered(new.prompts, new.last)
  <2>1. \A p \in db.prompts : p.id \in Nat /\ p.id <= db.last
    BY <1>1 DEF Typed, Prompt, Numbered
  <2>2. \A p, q \in db.prompts : p.id = q.id => p = q
    BY <1>1 DEF Typed, Numbered
  <2>3. \A p \in db.prompts, q \in added : p.id # q.id
    BY <1>1, <1>7, <2>1
  <2>4. \A p \in new.prompts : p.id <= new.last
    BY <1>1, <1>6, <1>7, <1>8, <2>1
  <2> QED
    BY <1>6, <1>7, <2>2, <2>3, <2>4 DEF Numbered
<1>10. WholeLineages(new)
  BY <1>1, <1>6, <1>7, LineagesKept
<1>11. \A p \in new.prompts : p.id > db.last \/ \E q \in db.prompts : q.id = p.id /\ SameText(p, q)
  BY <1>6, <1>7 DEF SameText
<1>12. Follows(db, new)
  BY <1>1, <1>6, <1>8, <1>9, <1>10, <1>11, PromptsFollow
<1> QED
  BY <1>2, <1>12, <1>6, CommitBeside

-----------------------------------------------------------------------------
(* The invariant *)

\* What the tables become leaves every request that is served what it needs.
LEMMA RequestsStayGood ==
  ASSUME CatalogInv, db' = db \/ (Consistent(db') /\ Follows(db, db'))
  PROVE  /\ Sound(db') /\ IsDatabase(db')
         /\ \A t \in Slots : RequestOK(t) /\ req'[t] = req[t] => RequestOK(t)'
<1>1. /\ Sound(db')
      /\ \A old : Typed(old) /\ Agrees(old, db) => Agrees(old, db')
      /\ \A i : Has(db.users, i) => Has(db'.users, i)
  <2>1. CASE db' = db
    BY <2>1 DEF CatalogInv
  <2>2. CASE Consistent(db') /\ Follows(db, db')
    <3>1. /\ Sound(db')
          /\ \A old : Typed(old) /\ Agrees(old, db) => Agrees(old, db')
      BY <2>2, FollowingIsSound DEF CatalogInv
    <3>2. \A i : Has(db.users, i) => Has(db'.users, i)
      BY <2>2 DEF Follows, Has
    <3> QED
      BY <3>1, <3>2
  <2> QED
    BY <2>1, <2>2
<1>2. ASSUME NEW t \in Slots, RequestOK(t), req'[t] = req[t]
      PROVE  RequestOK(t)'
  <2>1. Form(t)' = Form(t) /\ Seen(t)' = Seen(t)
    BY <1>2 DEF Form, Seen
  <2>2. Agrees(Seen(t), db') /\ Sound(Seen(t))
    BY <1>1, <1>2, IsTyped DEF RequestOK, Sound
  <2> QED
    BY <1>1, <1>2, <2>1, <2>2 DEF RequestOK
<1> QED
  BY <1>1, <1>2 DEF Sound

LEMMA AnswersKeepInvariant ==
  ASSUME CatalogInv, NEW s \in Slots, Answered(s)
  PROVE  CatalogInv'
<1>1. /\ Sound(db') /\ IsDatabase(db')
      /\ \A t \in Slots : RequestOK(t) /\ req'[t] = req[t] => RequestOK(t)'
  BY RequestsStayGood DEF Answered
<1>2. /\ req' = [t \in Slots |-> req'[t]] /\ req'[s] = NoRequest
      /\ \A t \in Slots : t # s => req'[t] = req[t]
  BY DEF CatalogInv, Answered
<1>3. TypeOK'
  BY <1>1, <1>2 DEF CatalogInv, TypeOK, Answered
<1>4. \A t \in Slots : req'[t] # NoRequest => RequestOK(t)'
  BY <1>1, <1>2 DEF CatalogInv
<1> QED
  BY <1>1, <1>2, <1>3, <1>4 DEF CatalogInv, Answered

\* A request begins with what the tables hold.
LEMMA BeginKeepsInvariant ==
  ASSUME CatalogInv, NEW s \in Slots, NEW form, Begin(s, form), FormOK(form),
         form.op \in {"edit", "run", "delete_prompt"} => Has(db.prompts, form.id),
         form.op \in {"update_user", "toggle_user", "reset_password"} => Has(db.users, form.id)
  PROVE  CatalogInv'
<1>1. db' = db /\ Sound(db) /\ IsDatabase(db)
  BY DEF Begin, CatalogInv, Sound
<1> DEFINE alone == \A y \in Slots : req[y] = NoRequest
<1>2. /\ req' = [t \in Slots |-> req'[t]]
      /\ req'[s] = [form |-> form, seen |-> db, alone |-> alone]
      /\ \A t \in Slots : t # s => req'[t] = IF req[t] = NoRequest THEN NoRequest
                                            ELSE [req[t] EXCEPT !.alone = FALSE]
  BY DEF Begin
<1>3. alone \in BOOLEAN
  OBVIOUS
<1> HIDE DEF alone
<1>4. ASSUME req'[s] # NoRequest
      PROVE  RequestOK(s)' /\ req'[s].alone \in BOOLEAN
  <2>1. Form(s)' = form /\ Seen(s)' = db /\ req'[s].alone = alone
    BY <1>2 DEF Form, Seen
  <2>2. Agrees(db, db)
    BY <1>1 DEF Agrees, Sound, IsDatabase, Numbered, SameText
  <2> QED
    BY <1>1, <1>2, <1>3, <2>1, <2>2 DEF RequestOK
<1>5. ASSUME NEW t \in Slots, t # s, req'[t] # NoRequest
      PROVE  RequestOK(t)' /\ req'[t].alone \in BOOLEAN
  <2>1. RequestOK(t) /\ req'[t] = [req[t] EXCEPT !.alone = FALSE]
    BY <1>2, <1>5 DEF CatalogInv
  <2>2. req'[t] = [form |-> Form(t), seen |-> Seen(t), alone |-> FALSE]
    <3> DEFINE now == req[t]
               was == now.alone
    <3>1. now = [form |-> Form(t), seen |-> Seen(t), alone |-> was]
      BY <2>1 DEF RequestOK
    <3>2. req'[t] = [now EXCEPT !.alone = FALSE]
      BY <2>1
    <3> HIDE DEF now, was
    <3> QED
      BY <3>1, <3>2
  <2>3. Form(t)' = Form(t) /\ Seen(t)' = Seen(t) /\ req'[t].alone = FALSE
    BY <2>2 DEF Form, Seen
  <2> QED
    BY <1>1, <2>1, <2>2, <2>3 DEF RequestOK
<1>6. TypeOK'
  <2>1. IsDatabase(db')
    BY <1>1
  <2>2. menu' \subseteq AnyForm /\ served' \in Nat /\ ticks' \in Nat
    BY DEF CatalogInv, TypeOK, Begin
  <2> QED
    BY <1>4, <1>5, <2>1, <2>2 DEF TypeOK
<1> QED
  BY <1>1, <1>2, <1>4, <1>5, <1>6 DEF CatalogInv, Begin

LEMMA SubmitKeepsInvariant ==
  ASSUME CatalogInv, NEW s \in Slots, Submit(s)
  PROVE  CatalogInv'
<1>1. PICK f \in menu : Accepts(f) /\ Begin(s, f)
  BY DEF Submit
<1>2. FormOK(f)
  BY DEF CatalogInv, TypeOK, FormOK
<1>3. f.op \in {"edit", "run", "delete_prompt"} => Has(db.prompts, f.id)
  BY <1>1 DEF Accepts, CanEdit, CanRun, CanDeletePrompt
<1>4. f.op \in {"update_user", "toggle_user", "reset_password"} => Has(db.users, f.id)
  BY <1>1 DEF Accepts, CanUpdateUser, CanToggleUser
<1> QED
  BY <1>1, <1>2, <1>3, <1>4, BeginKeepsInvariant

\* A market is changed on the preview page, never a text or a status.
LEMMA SendFormKeepsInvariant ==
  ASSUME CatalogInv, NEW s \in Slots, SendForm(s)
  PROVE  CatalogInv'
<1>1. PICK form \in forms :
        \E include \in SUBSET {i \in DOMAIN form.rows : form.rows[i].status # "error"},
           moved \in SUBSET {i \in DOMAIN form.rows : form.rows[i].status # "error"},
           to \in {m.id : m \in db.markets} :
          /\ moved \subseteq include
          /\ Begin(s, [op |-> "confirm", id |-> form.set, include |-> include,
               rows |-> [i \in DOMAIN form.rows |->
                 IF i \in moved THEN [form.rows[i] EXCEPT !.market = to] ELSE form.rows[i]]])
  BY Zenon DEF SendForm
<1>2. PICK include \in SUBSET {i \in DOMAIN form.rows : form.rows[i].status # "error"},
           moved \in SUBSET {i \in DOMAIN form.rows : form.rows[i].status # "error"},
           to \in {m.id : m \in db.markets} :
        Begin(s, [op |-> "confirm", id |-> form.set, include |-> include,
             rows |-> [i \in DOMAIN form.rows |->
               IF i \in moved THEN [form.rows[i] EXCEPT !.market = to] ELSE form.rows[i]]])
  BY <1>1, Zenon
<1>3. form.set \in Nat /\ RowsOK(form.rows) /\ to \in Nat
  BY IsTyped DEF CatalogInv, Sound, Typed, Market
<1> DEFINE rows == [i \in DOMAIN form.rows |->
             IF i \in moved THEN [form.rows[i] EXCEPT !.market = to] ELSE form.rows[i]]
<1>4. ASSUME NEW i \in DOMAIN form.rows
      PROVE  /\ rows[i] = [text |-> rows[i].text, status |-> rows[i].status, market |-> rows[i].market]
             /\ rows[i].market \in Nat /\ rows[i].status = form.rows[i].status
             /\ rows[i].text = form.rows[i].text
  <2> DEFINE row == form.rows[i]
             text == row.text
             status == row.status
             market == row.market
  <2>1. row = [text |-> text, status |-> status, market |-> market] /\ market \in Nat
    BY <1>3 DEF RowsOK
  <2>2. rows[i] = IF i \in moved THEN [row EXCEPT !.market = to] ELSE row
    OBVIOUS
  <2>3. rows[i].text = row.text /\ rows[i].status = row.status
    <3> HIDE DEF row, text, status, market, rows
    <3> QED
      BY <2>1, <2>2
  <2> HIDE DEF row, text, status, market, rows
  <2>4. rows[i] = [text |-> text, status |-> status, market |-> to]
          \/ rows[i] = [text |-> text, status |-> status, market |-> market]
    BY <2>1, <2>2
  <2>5. /\ rows[i] = [text |-> rows[i].text, status |-> rows[i].status, market |-> rows[i].market]
        /\ rows[i].market \in Nat
    BY <1>3, <2>1, <2>4
  <2> QED
    BY <2>3, <2>5 DEF row
<1>5. DOMAIN rows = DOMAIN form.rows
  OBVIOUS
<1> HIDE DEF rows
<1>6. RowsOK(rows) /\ \A i \in include : rows[i].status # "error"
  BY <1>3, <1>4, <1>5 DEF RowsOK
<1> DEFINE f == [op |-> "confirm", id |-> form.set, include |-> include, rows |-> rows]
<1>7. FormOK(f) /\ f.op = "confirm"
  BY <1>3, <1>6 DEF FormOK
<1>8. Begin(s, f)
  BY <1>2, Zenon DEF rows
<1> HIDE DEF f
<1> QED
  BY <1>7, <1>8, BeginKeepsInvariant

\* A preview has the texts of the file, and no market but one there is.
LEMMA PreviewKeepsInvariant ==
  ASSUME CatalogInv, Preview
  PROVE  CatalogInv'
<1>1. PICK f \in menu : /\ f.op = "preview"
        /\ forms' = forms \cup {[set |-> f.id, rows |-> [i \in DOMAIN Rows(f.file) |->
             [text |-> Rows(f.file)[i].text, status |-> Status(Rows(f.file), i, f.id, f.market),
              market |-> IF RowError(Rows(f.file)[i]) THEN 0
                         ELSE MarketOf(Rows(f.file)[i], f.market)]]]}
  BY DEF Preview
<1>2. f.id \in Nat /\ f.market \in Nat /\ f.file \in ImportFile
  BY <1>1 DEF CatalogInv, TypeOK, AnyForm, PromptForm, PlanForm, BrandForm, UserForm, RowForm
<1> DEFINE rows == Rows(f.file)
<1>3. ASSUME NEW i \in DOMAIN rows
      PROVE  i \in 1..Len(f.file.lines) /\ (rows[i].broken \/ rows[i].text \in Text)
  <2>1. /\ i \in DOMAIN f.file.lines /\ LineRow(f.file.format, f.file.lines[i]) # <<>>
        /\ rows[i] = LineRow(f.file.format, f.file.lines[i])[1]
    BY DEF Rows
  <2>2. f.file.lines \in Seq(FileLine) /\ f.file.format \in {"csv", "xlsx", "json"}
    BY <1>2 DEF ImportFile
  <2>3. f.file.lines[i] \in FileLine /\ i \in 1..Len(f.file.lines)
    BY <2>1, <2>2
  <2> DEFINE line == f.file.lines[i]
  <2> HIDE DEF rows, line
  <2>4. rows[i] = Broken \/ rows[i] = Parsed(line)
    BY <2>1, <2>2 DEF LineRow, CsvRow, XlsxRow, JsonRow, line
  <2>5. line.text \in Text
    BY <2>3 DEF FileLine, line
  <2>6. Broken.broken /\ Parsed(line).text = line.text
    BY DEF Broken, Parsed
  <2> QED
    BY <2>3, <2>4, <2>5, <2>6
<1> HIDE DEF rows
<1>4. ASSUME NEW i \in DOMAIN rows, ~RowError(rows[i])
      PROVE  rows[i].text \in Text /\ MarketOf(rows[i], f.market) \in Nat
  <2>1. rows[i].text \in Text
    BY <1>3, <1>4 DEF RowError
  <2>2. CASE rows[i].code = ""
    BY <1>2, <2>1, <2>2 DEF MarketOf
  <2>3. CASE rows[i].code # ""
    <3>1. \E m \in db.markets : m.code = rows[i].code
      BY <1>4, <2>3 DEF RowError, UnknownCode
    <3>2. db.markets \subseteq Market
      BY IsTyped DEF CatalogInv, Sound, Typed
    <3> QED
      BY <2>1, <2>3, <3>1, <3>2 DEF MarketOf, Market
  <2> QED
    BY <2>1, <2>2, <2>3
<1> DEFINE form == [i \in DOMAIN rows |->
             [text |-> rows[i].text, status |-> Status(rows, i, f.id, f.market),
              market |-> IF RowError(rows[i]) THEN 0 ELSE MarketOf(rows[i], f.market)]]
<1>5. RowsOK(form)
  <2>1. \A i \in DOMAIN rows : RowError(rows[i]) => Status(rows, i, f.id, f.market) = "error"
    BY DEF Status
  <2>2. DOMAIN rows \subseteq 1..Len(f.file.lines) /\ Len(f.file.lines) \in Nat
    BY <1>2, <1>3 DEF ImportFile
  <2> QED
    BY <1>4, <2>1, <2>2 DEF RowsOK
<1>6. forms' = forms \cup {[set |-> f.id, rows |-> form]}
  BY <1>1 DEF rows
<1> HIDE DEF form
<1>7. \A x \in forms' : x.set \in Nat /\ RowsOK(x.rows)
  BY <1>2, <1>5, <1>6 DEF CatalogInv
<1>8. \A t \in Slots : RequestOK(t) => RequestOK(t)'
  BY RequestsStayGood DEF Preview
<1>9. TypeOK'
  BY RequestsStayGood DEF CatalogInv, TypeOK, Preview
<1> QED
  BY <1>7, <1>8, <1>9 DEF CatalogInv, Preview

LEMMA TickKeepsInvariant ==
  ASSUME CatalogInv, Tick
  PROVE  CatalogInv'
<1>1. PICK chosen : LET new == [db EXCEPT !.queue = @ \cup
                          UNION {Fanout(s, chosen[s]) : s \in ActiveSchedules}]
                    IN db' = IF Consistent(new) THEN new ELSE db
  BY DEF Tick
<1> DEFINE fan == UNION {Fanout(s, chosen[s]) : s \in ActiveSchedules}
           new == [db EXCEPT !.queue = @ \cup fan]
<1>2. db' = IF Consistent(new) THEN new ELSE db
  BY <1>1
<1>3. /\ db = [table \in Tables |-> db[table]] /\ Sound(db) /\ Typed(db) /\ WholeLineages(db)
  BY IsTyped DEF CatalogInv, Sound, Typed
<1> HIDE DEF fan
<1>4. /\ Beside(new) /\ new.last = db.last /\ new.prompts = db.prompts /\ new.runs = db.runs
  BY <1>3 DEF Beside, Tables
<1> HIDE DEF new
<1>5. Follows(db, new)
  BY <1>3, <1>4, RemovalFollows
<1>6. /\ Sound(db') /\ IsDatabase(db')
      /\ \A t \in Slots : RequestOK(t) => RequestOK(t)'
  BY <1>2, <1>5, RequestsStayGood DEF Tick
<1>7. TypeOK'
  BY <1>6 DEF CatalogInv, TypeOK, Tick
<1> QED
  BY <1>6, <1>7 DEF CatalogInv, Tick

-----------------------------------------------------------------------------
\* Whatever users submit, the tables keep their types and constraints, and every request
\* works on rows that were sound and still mean what they meant.
THEOREM CatalogIsSound == Spec => []CatalogInv
<1>1. SiteInit => CatalogInv
  <2> SUFFICES ASSUME SiteInit PROVE CatalogInv
    OBVIOUS
  <2>1. PICK scene \in Scenes : db = scene.db /\ menu = scene.menu /\ ticks = scene.ticks
    BY DEF SiteInit
  <2>2. IsDatabase(db) /\ Sound(db) /\ menu \subseteq AnyForm /\ ticks \in Nat
    BY <2>1, ScenesAreSound DEF Sound
  <2> QED
    BY <2>2 DEF SiteInit, CatalogInv, TypeOK
<1>2. CatalogInv /\ [Next]_vars => CatalogInv'
  <2> SUFFICES ASSUME CatalogInv, [Next]_vars PROVE CatalogInv'
    OBVIOUS
  <2>1. ASSUME NEW s \in Slots, Submit(s) PROVE CatalogInv'
    BY <2>1, SubmitKeepsInvariant
  <2>2. ASSUME NEW s \in Slots, Prompts(s) PROVE CatalogInv'
    BY <2>2, PromptsAnswered, AnswersKeepInvariant DEF AnsweredBeside
  <2>3. ASSUME NEW s \in Slots, Sets(s) PROVE CatalogInv'
    BY <2>3, OthersAnswered, SetsAnswered, ImportAnswered, AnswersKeepInvariant,
       SendFormKeepsInvariant DEF AnsweredBeside, Sets
  <2>4. ASSUME NEW s \in Slots, Clients(s) \/ Markets(s) \/ Schedules(s) PROVE CatalogInv'
    BY <2>4, OthersAnswered, AnswersKeepInvariant DEF AnsweredBeside
  <2>5. ASSUME NEW s \in Slots, Personas(s) PROVE CatalogInv'
    BY <2>5, PersonasAnswered, AnswersKeepInvariant
  <2>6. ASSUME NEW s \in Slots, Users(s) PROVE CatalogInv'
    BY <2>6, UsersAnswered, AnswersKeepInvariant
  <2>7. ASSUME UNCHANGED vars PROVE CatalogInv'
    <3>1. /\ \A t \in Slots : RequestOK(t) => RequestOK(t)'
      BY <2>7, RequestsStayGood DEF vars
    <3> QED
      BY <2>7, <3>1 DEF vars, CatalogInv, TypeOK
  <2> QED
    BY <2>1, <2>2, <2>3, <2>4, <2>5, <2>6, <2>7, PreviewKeepsInvariant, TickKeepsInvariant
       DEF Next
<1> QED
  BY <1>1, <1>2, PTL DEF Spec

\* The text a run asked stays, whatever is edited, imported or deleted beside it.
THEOREM EvidenceStays == Spec => []EvidenceKept
<1>1. CatalogInv => EvidenceKept
  BY DEF CatalogInv, Sound, EvidenceKept
<1> QED
  BY <1>1, CatalogIsSound, PTL

\* No interleaving of edits and deletes splits the versions of a prompt from their root,
\* or leaves none of them current.
THEOREM LineagesStayWhole == Spec => []LineagesAreWhole
<1>1. CatalogInv => LineagesAreWhole
  BY DEF CatalogInv, Sound, LineagesAreWhole
<1> QED
  BY <1>1, CatalogIsSound, PTL

-----------------------------------------------------------------------------
(* Requests nobody else gets in between *)

\* What a handler has checked before it writes.
Checked(f) ==
  /\ f.op = "delete_set" => CanDeleteSet(f)
  /\ f.op = "delete_prompt" => CanDeletePrompt(f)
  /\ f.op = "update_persona" => CanUpdatePersona(f)
  /\ f.op = "delete_persona" => CanDeletePersona(f)
  /\ f.op = "update_user" => CanUpdateUser(f)
  /\ f.op = "toggle_user" => CanToggleUser(f)

\* But for the queue, the tables are what the request has seen.
AloneOK(s) ==
  /\ \A t \in Slots \ {s} : req[t] = NoRequest
  /\ \A table \in Tables \ {"queue"} : db[table] = Seen(s)[table]
  /\ Checked(Form(s))

AloneInv ==
  CatalogInv /\ \A s \in Slots : req[s] # NoRequest /\ req[s].alone => AloneOK(s)

Handles(s) ==
  \/ Prompts(s) \/ Clients(s) \/ Markets(s) \/ Personas(s) \/ Schedules(s) \/ Users(s)
  \/ CreateSet(s) \/ DeleteSet(s) \/ DeleteClient(s) \/ ConfirmImport(s)

LEMMA HandlersServe ==
  ASSUME NEW s, Handles(s)
  PROVE  req[s] # NoRequest
<1>1. CASE Prompts(s)
  BY <1>1 DEF Prompts, Serving, UpdatePrompt, DeletePrompt, CreatePrompt, TriggerRun
<1>2. CASE Clients(s) \/ Markets(s)
  BY <1>2 DEF Clients, Markets, Serving, CreateClient, CreateBrand, DeleteBrand, CreateMarket,
              UpdateMarket, DeleteMarket
<1>3. CASE Personas(s) \/ Users(s)
  BY <1>3 DEF Personas, Users, Serving, CreatePersona, UpdatePersona, DeletePersona, CreateUser,
              UpdateUser, ToggleUser, ResetPassword
<1>4. CASE Schedules(s)
  BY <1>4 DEF Schedules, Serving, CreateSchedule, UpdateSchedule, ToggleSchedule, DeleteSchedule
<1>5. CASE CreateSet(s) \/ DeleteSet(s) \/ DeleteClient(s) \/ ConfirmImport(s)
  BY <1>5 DEF Serving, CreateSet, DeleteSet, DeleteClient, ConfirmImport
<1> QED
  BY <1>1, <1>2, <1>3, <1>4, <1>5 DEF Handles

LEMMA HandlersAnswer ==
  ASSUME CatalogInv, NEW s \in Slots, Handles(s)
  PROVE  Answered(s) /\ (~Personas(s) /\ ~Users(s) => AnsweredBeside(s))
BY PromptsAnswered, OthersAnswered, SetsAnswered, ImportAnswered, PersonasAnswered, UsersAnswered
   DEF Handles, AnsweredBeside

\* A step is a request that begins, or a handler that ends, or touches no table but the queue.
LEMMA Steps ==
  ASSUME CatalogInv, [Next]_vars
  PROVE  \/ \E s \in Slots : \E f :
               Begin(s, f) /\ ((f \in menu /\ Accepts(f)) \/ f.op = "confirm")
         \/ \E s \in Slots : Handles(s)
         \/ /\ \A table \in Tables \ {"queue"} : db'[table] = db[table]
            /\ UNCHANGED <<req, menu>>
<1>1. ASSUME NEW s \in Slots, SendForm(s)
      PROVE  \E f : Begin(s, f) /\ f.op = "confirm"
  <2>1. PICK form, include, rows :
          Begin(s, [op |-> "confirm", id |-> form.set, include |-> include, rows |-> rows])
    BY <1>1, Zenon DEF SendForm
  <2> QED
    BY <2>1
<1>2. CASE Preview \/ UNCHANGED vars
  BY <1>2 DEF Preview, vars
<1>3. CASE Tick
  <2>1. PICK new : /\ \A table \in Tables \ {"queue"} : new[table] = db[table]
                   /\ db' = IF Consistent(new) THEN new ELSE db
    <3>1. PICK chosen : LET new == [db EXCEPT !.queue = @ \cup
                              UNION {Fanout(s, chosen[s]) : s \in ActiveSchedules}]
                        IN db' = IF Consistent(new) THEN new ELSE db
      BY <1>3 DEF Tick
    <3> DEFINE fan == UNION {Fanout(s, chosen[s]) : s \in ActiveSchedules}
               new == [db EXCEPT !.queue = @ \cup fan]
    <3>2. db' = IF Consistent(new) THEN new ELSE db
      BY <3>1
    <3>3. db = [table \in Tables |-> db[table]]
      BY IsTyped DEF CatalogInv, Sound, Typed
    <3> HIDE DEF fan
    <3>4. \A table \in Tables \ {"queue"} : new[table] = db[table]
      BY <3>3 DEF Tables
    <3> HIDE DEF new
    <3> QED
      BY <3>2, <3>4
  <2> QED
    BY <1>3, <2>1 DEF Tick
<1>4. ASSUME NEW s \in Slots, Submit(s)
      PROVE  \E f : Begin(s, f) /\ f \in menu /\ Accepts(f)
  BY <1>4 DEF Submit
<1> QED
  BY <1>1, <1>2, <1>3, <1>4 DEF Next, Handles, Sets

LEMMA ChecksHold ==
  ASSUME NEW f, Checked(f), \A table \in Tables \ {"queue"} : db'[table] = db[table]
  PROVE  Checked(f)'
<1>1. db'.prompts = db.prompts /\ db'.sets = db.sets /\ db'.runs = db.runs
      /\ db'.personas = db.personas /\ db'.users = db.users
  BY DEF Tables
<1> QED
  BY <1>1 DEF Checked, CanDeleteSet, CanDeletePrompt, CanUpdatePersona, CanDeletePersona,
     CanUpdateUser, CanToggleUser, IsAdmin, Lineage, PromptsOf, Asked

LEMMA StepsKeepAlone ==
  ASSUME AloneInv, [Next]_vars, CatalogInv'
  PROVE  AloneInv'
<1> SUFFICES ASSUME NEW s \in Slots, req'[s] # NoRequest, req'[s].alone
             PROVE  AloneOK(s)'
  BY DEF AloneInv
<1>1. ASSUME NEW t \in Slots, NEW f, Begin(t, f), Accepts(f) \/ f.op = "confirm"
      PROVE  AloneOK(s)'
  <2>1. /\ db' = db /\ req[t] = NoRequest
        /\ req'[t] = [form |-> f, seen |-> db, alone |-> \A y \in Slots : req[y] = NoRequest]
        /\ \A y \in Slots : y # t => req'[y] = IF req[y] = NoRequest THEN NoRequest
                                              ELSE [req[y] EXCEPT !.alone = FALSE]
    BY <1>1 DEF Begin
  <2>2. CASE s = t
    <3>1. /\ \A y \in Slots : req[y] = NoRequest
          /\ Form(s)' = f /\ Seen(s)' = db
      BY <2>1, <2>2 DEF Form, Seen
    <3>2. Checked(f)
      BY <1>1 DEF Checked, Accepts
    <3>3. Checked(f)'
      BY <2>1, <3>2, ChecksHold
    <3>4. Checked(Form(s))'
      BY <3>1, <3>3 DEF Checked
    <3> QED
      BY <2>1, <2>2, <3>1, <3>4 DEF AloneOK
  <2>3. CASE s # t
    <3>1. RequestOK(s) /\ req'[s] = [req[s] EXCEPT !.alone = FALSE]
      BY <2>1, <2>3 DEF AloneInv, CatalogInv
    <3> DEFINE now == req[s]
               was == now.alone
    <3>2. now = [form |-> Form(s), seen |-> Seen(s), alone |-> was]
      BY <3>1 DEF RequestOK
    <3>3. req'[s] = [now EXCEPT !.alone = FALSE]
      BY <3>1
    <3> HIDE DEF now, was
    <3>4. req'[s].alone = FALSE
      BY <3>2, <3>3
    <3> QED
      BY <3>4
  <2> QED
    BY <2>2, <2>3
<1>2. ASSUME NEW t \in Slots, Handles(t)
      PROVE  AloneOK(s)'
  <2>1. req' = [req EXCEPT ![t] = NoRequest] /\ req[t] # NoRequest
    BY <1>2, HandlersAnswer, HandlersServe DEF AloneInv, Answered
  <2>2. req[s] # NoRequest /\ req[s].alone /\ s # t
    BY <2>1 DEF AloneInv, CatalogInv
  <2> QED
    BY <2>1, <2>2 DEF AloneInv, AloneOK
<1>3. ASSUME \A table \in Tables \ {"queue"} : db'[table] = db[table], UNCHANGED req
      PROVE  AloneOK(s)'
  <2>1. AloneOK(s) /\ Form(s)' = Form(s) /\ Seen(s)' = Seen(s)
    BY <1>3 DEF AloneInv, Form, Seen
  <2>2. Checked(Form(s))'
    BY <1>3, <2>1, ChecksHold DEF AloneOK
  <2> QED
    BY <1>3, <2>1, <2>2 DEF AloneOK
<1> QED
  BY <1>1, <1>2, <1>3, Steps DEF AloneInv

-----------------------------------------------------------------------------
(* The last administrator and the default persona *)

SomeAdmin(users) == \E u \in users : Administers(u)

\* An administrator is left who is not the user that is written.
LEMMA AdminsLeft ==
  ASSUME Sound(db), NEW user, NEW u \in db.users, Administers(u),
         u.id # user.id \/ Administers(user)
  PROVE  SomeAdmin(SetUser(user).users)
<1>1. db = [table \in Tables |-> db[table]]
  BY IsTyped DEF Sound, Typed
<1>2. SetUser(user).users = Put(db.users, user)
  BY <1>1 DEF SetUser, Tables
<1>3. user \in Put(db.users, user) /\ (u.id # user.id => u \in Put(db.users, user))
  BY DEF Put, Without
<1> QED
  BY <1>2, <1>3 DEF SomeAdmin

LEMMA UsersLeavePersonas ==
  ASSUME CatalogInv, NEW s, Users(s)
  PROVE  db'.personas = db.personas
<1>1. db = [table \in Tables |-> db[table]]
  BY IsTyped DEF CatalogInv, Sound, Typed
<1>2. \A user : SetUser(user).personas = db.personas
  BY <1>1 DEF SetUser, Tables
<1>3. CASE CreateUser(s)
  BY <1>1, <1>3 DEF CreateUser, Commit, Tables
<1>4. CASE UpdateUser(s) \/ ToggleUser(s) \/ ResetPassword(s)
  BY <1>2, <1>4 DEF UpdateUser, ToggleUser, ResetPassword, Commit
<1> QED
  BY <1>3, <1>4 DEF Users

LEMMA PersonasLeaveUsers ==
  ASSUME CatalogInv, NEW s, Personas(s)
  PROVE  db'.users = db.users
<1>1. db = [table \in Tables |-> db[table]]
  BY IsTyped DEF CatalogInv, Sound, Typed
<1>2. CASE CreatePersona(s)
  BY <1>1, <1>2 DEF CreatePersona, Commit, Tables
<1>3. CASE UpdatePersona(s) \/ DeletePersona(s)
  BY <1>1, <1>3 DEF UpdatePersona, DeletePersona, Commit, Tables
<1> QED
  BY <1>2, <1>3 DEF Personas

LEMMA UsersKeepAnAdmin ==
  ASSUME AloneInv, NEW s \in Slots, req[s].alone, Users(s), SomeAdmin(db.users)
  PROVE  SomeAdmin(db'.users)
<1>1. /\ db = [table \in Tables |-> db[table]] /\ Sound(db) /\ db.users \subseteq User
      /\ \A u, v \in db.users : u.id = v.id => u = v
  BY IsTyped DEF AloneInv, CatalogInv, Sound, Typed, Numbered
<1>2. req[s] # NoRequest /\ RequestOK(s) /\ AloneOK(s)
  BY HandlersServe DEF Handles, AloneInv, CatalogInv
<1> DEFINE id == Form(s).id
           now == Row(db.users, id)
<1>3. Target(s, "users") = now
  BY <1>2 DEF AloneOK, Target, Tables
<1>4. Form(s).op \in {"update_user", "toggle_user", "reset_password"} =>
        now \in db.users /\ now \in User /\ now.id = id
  BY <1>1, <1>2, RowIs DEF RequestOK
<1>5. ASSUME IsAdmin(Form(s).by)
      PROVE  \E u \in db.users : Administers(u) /\ u.id = Form(s).by
  BY <1>5, RowIs DEF IsAdmin
<1>6. CASE CreateUser(s)
  <2> DEFINE row == [id |-> Fresh(db), role |-> Form(s).role, active |-> TRUE]
             new == [db EXCEPT !.last = @ + 1, !.users = @ \cup {row}]
  <2>1. db' = db \/ db' = new
    BY <1>6 DEF CreateUser, Commit
  <2> HIDE DEF row
  <2>2. db.users \subseteq new.users
    BY <1>1 DEF Tables
  <2> HIDE DEF new
  <2> QED
    BY <2>1, <2>2 DEF SomeAdmin
<1>7. CASE UpdateUser(s)
  <2> DEFINE user == [now EXCEPT !.role = Form(s).role]
  <2>1. /\ Form(s).op = "update_user"
        /\ db' = db \/ (db' = SetUser(user) /\ Form(s).role # now.role)
    BY <1>3, <1>7 DEF UpdateUser, Serving, Commit
  <2>2. IsAdmin(Form(s).by) /\ (id = Form(s).by => Form(s).role = now.role)
    BY <1>2, <2>1 DEF AloneOK, Checked, CanUpdateUser
  <2>3. PICK u \in db.users : Administers(u) /\ u.id = Form(s).by
    BY <1>5, <2>2
  <2>4. user.id = id
    <3>1. now \in User /\ now.id = id
      BY <1>4, <2>1
    <3> HIDE DEF now
    <3> QED
      BY <3>1 DEF User
  <2> HIDE DEF user
  <2> QED
    BY <1>1, <2>1, <2>2, <2>3, <2>4, AdminsLeft
<1>8. CASE ToggleUser(s)
  <2> DEFINE user == [now EXCEPT !.active = ~now.active]
  <2>1. Form(s).op = "toggle_user" /\ (db' = db \/ db' = SetUser(user))
    BY <1>3, <1>8 DEF ToggleUser, Serving, Commit
  <2>2. IsAdmin(Form(s).by) /\ (id = Form(s).by => ~now.active)
    BY <1>2, <2>1 DEF AloneOK, Checked, CanToggleUser
  <2>3. PICK u \in db.users : Administers(u) /\ u.id = Form(s).by
    BY <1>5, <2>2
  <2>4. now \in User /\ now.id = id /\ now \in db.users
    BY <1>4, <2>1
  <2> HIDE DEF now
  <2>5. u.id # id
    BY <1>1, <2>2, <2>3, <2>4 DEF Administers
  <2>6. user.id = id
    BY <2>4 DEF User
  <2> HIDE DEF user
  <2> QED
    BY <1>1, <2>1, <2>3, <2>5, <2>6, AdminsLeft
<1>9. CASE ResetPassword(s)
  <2> DEFINE user == [now EXCEPT !.active = TRUE]
  <2>1. Form(s).op = "reset_password" /\ (db' = db \/ db' = SetUser(user))
    BY <1>3, <1>9 DEF ResetPassword, Serving, Commit
  <2>2. PICK u \in db.users : Administers(u)
    BY DEF SomeAdmin
  <2>3. now \in User /\ now.id = id /\ now \in db.users
    BY <1>4, <2>1
  <2> HIDE DEF now
  <2>4. user.id = id /\ user.role = now.role /\ user.active
    BY <2>3 DEF User
  <2>5. u.id = id => u = now
    BY <1>1, <2>3
  <2> HIDE DEF user
  <2>6. u.id # user.id \/ Administers(user)
    BY <2>2, <2>4, <2>5 DEF Administers
  <2> QED
    BY <1>1, <2>1, <2>2, <2>6, AdminsLeft
<1> QED
  BY <1>6, <1>7, <1>8, <1>9 DEF Users

LEMMA PersonasKeepADefault ==
  ASSUME AloneInv, NEW s \in Slots, req[s].alone, Personas(s), Defaults(db) # {}
  PROVE  Defaults(db') # {}
<1>1. /\ db = [table \in Tables |-> db[table]] /\ db.personas \subseteq Persona
      /\ \A p, q \in db.personas : p.id = q.id => p = q
  BY IsTyped DEF AloneInv, CatalogInv, Sound, Typed, Numbered
<1>2. req[s] # NoRequest /\ AloneOK(s)
  BY HandlersServe DEF Handles, AloneInv
<1>3. PICK p \in db.personas : p.default
  BY DEF Defaults
<1>4. CASE CreatePersona(s)
  <2> DEFINE cleared == IF Form(s).default THEN Cleared(s) ELSE {}
             row == [id |-> Fresh(db), default |-> Form(s).default]
             new == [db EXCEPT !.last = @ + 1, !.personas = ClearDefault(cleared) \cup {row}]
  <2>1. db' = db \/ db' = new
    BY <1>4 DEF CreatePersona, Commit
  <2>2. row.default = Form(s).default
    OBVIOUS
  <2>3. ~Form(s).default => p \in ClearDefault(cleared)
    BY DEF ClearDefault, Has
  <2> HIDE DEF cleared, row
  <2>4. new.personas = ClearDefault(cleared) \cup {row}
    BY <1>1 DEF Tables
  <2> HIDE DEF new
  <2> QED
    BY <1>3, <2>1, <2>2, <2>3, <2>4 DEF Defaults
<1>5. CASE UpdatePersona(s)
  <2> DEFINE row == [id |-> Form(s).id, default |-> TRUE]
  <2>1. PICK cleared : db' = db \/ db' = [db EXCEPT !.personas = Put(ClearDefault(cleared), row)]
    BY <1>5 DEF UpdatePersona, Commit
  <2> DEFINE put == Put(ClearDefault(cleared), row)
             new == [db EXCEPT !.personas = put]
  <2>2. row \in put /\ row.default
    BY DEF Put
  <2> HIDE DEF put, row
  <2>3. new.personas = put
    BY <1>1 DEF Tables
  <2>4. db' = db \/ db' = new
    BY <2>1 DEF put
  <2> HIDE DEF new
  <2> QED
    BY <1>3, <2>2, <2>3, <2>4 DEF Defaults
<1>6. CASE DeletePersona(s)
  <2> DEFINE left == Without(db.personas, {Form(s).id})
             new == [db EXCEPT !.personas = left]
  <2>1. Form(s).op = "delete_persona" /\ (db' = db \/ db' = new)
    BY <1>6 DEF DeletePersona, Serving, Commit
  <2>2. Has(db.personas, Form(s).id) /\ ~Row(db.personas, Form(s).id).default
    BY <1>2, <2>1 DEF AloneOK, Checked, CanDeletePersona
  <2>3. p.id # Form(s).id
    BY <1>1, <1>3, <2>2, RowIs
  <2>4. p \in left
    BY <2>3 DEF Without
  <2> HIDE DEF left
  <2>5. new.personas = left
    BY <1>1 DEF Tables
  <2> HIDE DEF new
  <2> QED
    BY <1>3, <2>1, <2>4, <2>5 DEF Defaults
<1> QED
  BY <1>4, <1>5, <1>6 DEF Personas

LEMMA LastOnesStep ==
  ASSUME AloneInv, [Next]_vars, NEW s \in Slots, Ends(s), req[s].alone
  PROVE  /\ SomeAdmin(db.users) => SomeAdmin(db'.users)
         /\ Defaults(db) # {} => Defaults(db') # {}
<1>1. CASE db'.personas = db.personas /\ db'.users = db.users
  BY <1>1 DEF Defaults
<1>2. ASSUME NEW t \in Slots, Handles(t)
      PROVE  t = s
  BY <1>2, HandlersServe DEF AloneInv, AloneOK, Ends
<1>3. CASE Users(s)
  BY <1>3, UsersKeepAnAdmin, UsersLeavePersonas DEF AloneInv, Defaults
<1>4. CASE Personas(s)
  BY <1>4, PersonasKeepADefault, PersonasLeaveUsers DEF AloneInv
<1> QED
  BY <1>1, <1>2, <1>3, <1>4, Steps, HandlersAnswer DEF AloneInv, AnsweredBeside, Begin, Tables

-----------------------------------------------------------------------------
(* Imports *)

\* What an import adds that nobody forced is no duplicate.
LEMMA ImportStep ==
  ASSUME AloneInv, NEW s \in Slots, req[s].alone, ConfirmImport(s),
         \A i \in Form(s).include : Form(s).rows[i].status # "duplicate",
         NEW p \in db'.prompts \ db.prompts, NEW q \in db'.prompts,
         q.set = p.set, q.market = p.market, q.current, Folded[q.text] = Folded[p.text]
  PROVE  q = p
<1>1. /\ db = [table \in Tables |-> db[table]]
      /\ req[s] # NoRequest /\ AloneOK(s) /\ RequestOK(s) /\ Form(s).op = "confirm"
  BY IsTyped, HandlersServe DEF Handles, AloneInv, CatalogInv, Sound, Typed, ConfirmImport, Serving
<1>2. RowsOK(Form(s).rows)
  BY <1>1 DEF RequestOK, FormOK, AnyForm, PromptForm, PlanForm, BrandForm, UserForm, RowForm
<1> DEFINE rows == Form(s).rows
           some == Imported(s)
           Number(i) == Cardinality({j \in some : j <= i})
           Plain(i) == NewPrompt(db, Form(s).id, rows[i].text, rows[i].market, TRUE)
           Added(i) == [Plain(i) EXCEPT !.id = db.last + Number(i)]
           new == [db EXCEPT !.last = @ + Cardinality(some),
                             !.prompts = @ \cup {Added(i) : i \in some}]
<1>3. db' = db \/ db' = new
  BY DEF ConfirmImport, Commit
<1>4. \A i \in some : /\ i \in DOMAIN rows /\ i \in Nat /\ Included(s, i) /\ ~Known(s, i)
  <2>1. \A i \in some :
          i \in DOMAIN rows /\ Included(s, i) /\ (Known(s, i) => rows[i].status = "duplicate")
    BY DEF Imported
  <2>2. \A i : Included(s, i) => i \in Form(s).include
    BY DEF Included
  <2>3. \A i \in DOMAIN rows : i \in Nat
    BY <1>2 DEF RowsOK
  <2>4. \A i \in Form(s).include : rows[i].status # "duplicate"
    OBVIOUS
  <2> HIDE DEF some, rows
  <2> TAKE i \in some
  <2>5. i \in DOMAIN rows /\ Included(s, i) /\ (Known(s, i) => rows[i].status = "duplicate")
    BY <2>1
  <2>6. rows[i].status # "duplicate"
    BY <2>2, <2>4, <2>5
  <2> QED
    BY <2>3, <2>5, <2>6
<1> HIDE DEF some, rows, Number
<1>5. ASSUME NEW i \in some
      PROVE  /\ Added(i).set = Form(s).id /\ Added(i).market = rows[i].market
             /\ Added(i).text = rows[i].text
  <2> DEFINE plain == Plain(i)
  <2>1. plain = [id |-> db.last + 1, set |-> Form(s).id, root |-> 0, version |-> 1,
                 current |-> TRUE, active |-> TRUE, text |-> rows[i].text,
                 market |-> rows[i].market]
    BY DEF NewPrompt, Fresh
  <2>2. Added(i) = [plain EXCEPT !.id = db.last + Number(i)]
    OBVIOUS
  <2> HIDE DEF plain, Added
  <2> QED
    BY <2>1, <2>2
<1> HIDE DEF Added
<1> DEFINE added == {Added(i) : i \in some}
<1>6. new.prompts = db.prompts \cup added
  BY <1>1 DEF Tables
<1> HIDE DEF new
<1>7. PICK i \in some : p = Added(i)
  BY <1>3, <1>6
<1>8. p.set = Form(s).id /\ p.market = rows[i].market /\ p.text = rows[i].text
  BY <1>5, <1>7
<1>9. q \notin db.prompts
  <2> SUFFICES ASSUME q \in db.prompts PROVE FALSE
    OBVIOUS
  <2>1. Seen(s).prompts = db.prompts
    BY <1>1 DEF AloneOK, Tables
  <2>2. Folded[rows[i].text] \in ExistingTexts(Seen(s), Form(s).id, rows[i].market)
    BY <1>8, <2>1 DEF ExistingTexts, PromptsOf
  <2>3. Known(s, i)
    BY <2>2 DEF Known, rows
  <2> QED
    BY <1>4, <2>3
<1>10. PICK k \in some : q = Added(k)
  BY <1>3, <1>6, <1>9
<1>11. rows[k].market = rows[i].market /\ Folded[rows[k].text] = Folded[rows[i].text]
  BY <1>5, <1>8, <1>10
<1>12. ~(k < i)
  <2> SUFFICES ASSUME k < i PROVE FALSE
    OBVIOUS
  <2>1. Known(s, i)
    BY <1>4, <1>11 DEF Known, rows
  <2> QED
    BY <1>4, <2>1
<1>13. ~(i < k)
  <2> SUFFICES ASSUME i < k PROVE FALSE
    OBVIOUS
  <2>1. Known(s, k)
    BY <1>4, <1>11 DEF Known, rows
  <2> QED
    BY <1>4, <2>1
<1>14. i = k
  BY <1>4, <1>12, <1>13
<1> QED
  BY <1>7, <1>10, <1>14

\* Nothing but its handler ends a request.
LEMMA EndsByHandling ==
  ASSUME AloneInv, [Next]_vars, NEW s \in Slots, Ends(s), req[s].alone
  PROVE  Handles(s)
<1>1. ASSUME NEW t \in Slots, Handles(t)
      PROVE  t = s
  BY <1>1, HandlersServe DEF AloneInv, AloneOK, Ends
<1>2. ASSUME NEW t \in Slots, NEW f, Begin(t, f)
      PROVE  FALSE
  <2>1. /\ req[t] = NoRequest /\ req[s] # NoRequest /\ req'[s] = NoRequest
        /\ req'[s] = IF s = t
                      THEN [form |-> f, seen |-> db, alone |-> \A y \in Slots : req[y] = NoRequest]
                      ELSE IF req[s] = NoRequest THEN NoRequest
                      ELSE [req[s] EXCEPT !.alone = FALSE]
    BY <1>2 DEF Begin, Ends
  <2> DEFINE now == req[s]
             was == now.alone
  <2>2. /\ now = [form |-> Form(s), seen |-> Seen(s), alone |-> was]
        /\ NoRequest = [now EXCEPT !.alone = FALSE]
    BY <2>1 DEF AloneInv, CatalogInv, RequestOK
  <2> HIDE DEF now, was
  <2>3. NoRequest = [form |-> Form(s), seen |-> Seen(s), alone |-> FALSE]
    BY <2>2
  <2>4. DOMAIN NoRequest = {"form", "seen", "alone"}
    BY <2>3
  <2> QED
    BY <2>4 DEF NoRequest
<1> QED
  BY <1>1, <1>2, Steps DEF AloneInv, Ends

LEMMA OwnHandler ==
  ASSUME NEW s, Handles(s)
  PROVE  /\ Form(s).op = "confirm" => ConfirmImport(s)
         /\ Form(s).op = "delete_set" => DeleteSet(s)
         /\ Form(s).op = "delete_prompt" => DeletePrompt(s)
         /\ Form(s).op = "delete_brand" => DeleteBrand(s)
BY DEF Handles, Serving, Prompts, UpdatePrompt, DeletePrompt, CreatePrompt, TriggerRun,
   Clients, Markets, CreateClient, CreateBrand, DeleteBrand, CreateMarket, UpdateMarket,
   DeleteMarket, Personas, Users, CreatePersona, UpdatePersona, DeletePersona, CreateUser,
   UpdateUser, ToggleUser, ResetPassword, Schedules, CreateSchedule, UpdateSchedule,
   ToggleSchedule, DeleteSchedule, CreateSet, DeleteSet, DeleteClient, ConfirmImport

-----------------------------------------------------------------------------
(* Deletes *)

LEMMA KeysBeside ==
  ASSUME NEW new, Consistent(db), db.queue = {}, new.queue = db.queue,
         new.clients = db.clients, new.brands = db.brands, new.schedules = db.schedules,
         new.markets = db.markets, new.personas = db.personas
  PROVE  ScheduleKeys(new) /\ QueueKeys(new) /\ BrandKeys(new) /\ Uniques(new)
<1>1. ScheduleKeys(new) /\ QueueKeys(new) /\ Uniques(new)
  BY DEF Consistent, ScheduleKeys, QueueKeys, Uniques
<1>2. /\ \A kind : OwnerTable(new, kind) = OwnerTable(db, kind)
      /\ \A kind, owner : Siblings(new, kind, owner) = Siblings(db, kind, owner)
  BY DEF OwnerTable, Siblings
<1>3. BrandKeys(new)
  BY <1>2 DEF Consistent, BrandKeys
<1> QED
  BY <1>1, <1>3

LEMMA SetIsDeleted ==
  ASSUME AloneInv, NEW s \in Slots, req[s].alone, DeleteSet(s), db.queue = {}
  PROVE  ~Has(db'.sets, Form(s).id) /\ PromptsOf(db', Form(s).id) = {}
<1>1. /\ db = [table \in Tables |-> db[table]] /\ Sound(db) /\ WholeLineages(db) /\ Consistent(db)
      /\ AloneOK(s) /\ Form(s).op = "delete_set"
  BY IsTyped, HandlersServe DEF Handles, AloneInv, CatalogInv, Sound, DeleteSet, Serving, Typed
<1> DEFINE id == Form(s).id
           gone == PromptsOf(db, id)
           late == {p \in gone : ~Has(Seen(s).prompts, p.id)}
           left == Without(db.sets, {id})
           new == [db EXCEPT !.sets = left, !.prompts = @ \ gone]
<1>2. Commit(s, InKeyOrder(late), new)
  BY DEF DeleteSet
<1>3. InKeyOrder(late)
  <2>1. Seen(s).prompts = db.prompts
    BY <1>1 DEF AloneOK, Tables
  <2> QED
    BY <2>1 DEF InKeyOrder, Has, PromptsOf
<1>4. ~Asked(db, gone)
  BY <1>1 DEF AloneOK, Checked, CanDeleteSet
<1>5. /\ \A p \in gone : p.set = id
      /\ \A p \in db.prompts : p \notin gone => p.set # id
  BY DEF PromptsOf
<1>6. left = {x \in db.sets : x.id # id}
  BY DEF Without
<1> HIDE DEF gone, left, late
<1>7. /\ new.sets = left /\ new.prompts = db.prompts \ gone /\ new.runs = db.runs
      /\ new.queue = db.queue /\ new.clients = db.clients /\ new.brands = db.brands
      /\ new.schedules = db.schedules /\ new.markets = db.markets
      /\ new.personas = db.personas
  BY <1>1 DEF Tables
<1> HIDE DEF new
<1>8. PromptKeys(new)
  <2> SUFFICES ASSUME NEW p \in new.prompts
               PROVE  /\ Has(new.sets, p.set) /\ Has(new.markets, p.market)
                      /\ p.root = 0 \/ Has(new.prompts, p.root)
    BY DEF PromptKeys
  <2>1. p \in db.prompts /\ p.set # id
    BY <1>5, <1>7
  <2>2. Has(new.sets, p.set) /\ Has(new.markets, p.market)
    BY <1>1, <1>6, <1>7, <2>1 DEF Consistent, PromptKeys, Has
  <2>3. p.root # 0 => Has(new.prompts, p.root)
    BY <1>1, <1>5, <1>7, <2>1 DEF WholeLineages, Has
  <2> QED
    BY <2>2, <2>3
<1>9. EvidenceKeys(new)
  BY <1>1, <1>4, <1>7 DEF Consistent, EvidenceKeys, Asked, Has
<1>10. \A x \in new.sets : Has(new.clients, x.client)
  BY <1>1, <1>6, <1>7 DEF Consistent
<1>11. Consistent(new)
  BY <1>1, <1>7, <1>8, <1>9, <1>10, KeysBeside DEF Consistent
<1>12. db' = new
  BY <1>2, <1>3, <1>11 DEF Commit
<1> QED
  BY <1>5, <1>6, <1>7, <1>12 DEF Has, PromptsOf

LEMMA PromptIsDeleted ==
  ASSUME AloneInv, NEW s \in Slots, req[s].alone, DeletePrompt(s), db.queue = {}
  PROVE  Lineage(db', RootOf(Loaded(s, "prompts"))) = {}
<1>1. /\ db = [table \in Tables |-> db[table]] /\ Sound(db) /\ WholeLineages(db) /\ Consistent(db)
      /\ AloneOK(s) /\ RequestOK(s) /\ Form(s).op = "delete_prompt"
      /\ \A p \in db.prompts : p.id \in Nat \ {0} /\ \A q \in db.prompts : p.id = q.id => p = q
  BY IsTyped, HandlersServe DEF Handles, Prompts, AloneInv, CatalogInv, Sound, DeletePrompt, Serving,
     Typed, Prompt, Numbered
<1>2. Seen(s).prompts = db.prompts
  BY <1>1 DEF AloneOK, Tables
<1> DEFINE loaded == Loaded(s, "prompts")
           root == RootOf(loaded)
           versions == Lineage(db, root)
           gone == {p.id : p \in versions}
           new == [db EXCEPT !.prompts = Without(@, gone)]
<1>3. Commit(s, TRUE, new)
  BY <1>2 DEF DeletePrompt, Lineage
<1>4. ~Asked(db, versions)
  BY <1>1, <1>2 DEF AloneOK, Checked, CanDeletePrompt, Loaded
<1>5. loaded \in db.prompts
  BY <1>1, <1>2, RowIs DEF RequestOK, Loaded
<1> HIDE DEF loaded
<1>6. root # 0
  BY <1>1, <1>5 DEF RootOf
<1>7. \A p \in db.prompts : p.id \in gone <=> p.id = root \/ p.root = root
  BY <1>1 DEF Lineage
<1>8. \A p \in db.prompts : p.id \in gone => p \in versions
  BY <1>1 DEF Lineage
<1> HIDE DEF root, versions, gone
<1>9. /\ new.prompts = {p \in db.prompts : p.id \notin gone} /\ new.sets = db.sets
      /\ new.runs = db.runs /\ new.queue = db.queue /\ new.clients = db.clients
      /\ new.brands = db.brands /\ new.schedules = db.schedules /\ new.markets = db.markets
      /\ new.personas = db.personas
  BY <1>1 DEF Tables, Without
<1> HIDE DEF new
<1>10. PromptKeys(new)
  <2> SUFFICES ASSUME NEW p \in new.prompts
               PROVE  /\ Has(new.sets, p.set) /\ Has(new.markets, p.market)
                      /\ p.root = 0 \/ Has(new.prompts, p.root)
    BY DEF PromptKeys
  <2>1. p \in db.prompts /\ p.id \notin gone
    BY <1>9
  <2>2. Has(new.sets, p.set) /\ Has(new.markets, p.market)
    BY <1>1, <1>9, <2>1 DEF Consistent, PromptKeys
  <2>3. ASSUME p.root # 0
        PROVE  Has(new.prompts, p.root)
    <3>1. PICK r \in db.prompts : r.id = p.root /\ r.root = 0
      BY <1>1, <2>1, <2>3 DEF WholeLineages
    <3>2. r.id \notin gone
      BY <1>6, <1>7, <2>1, <3>1
    <3> QED
      BY <1>9, <3>1, <3>2 DEF Has
  <2> QED
    BY <2>2, <2>3
<1>11. EvidenceKeys(new)
  <2>1. ASSUME NEW r \in db.runs
        PROVE  Has(new.prompts, r.prompt)
    <3>1. PICK p \in db.prompts : p.id = r.prompt
      BY <1>1 DEF Consistent, EvidenceKeys, Has
    <3>2. p.id \notin gone
      BY <1>4, <1>8, <3>1 DEF Asked
    <3> QED
      BY <1>9, <3>1, <3>2 DEF Has
  <2> QED
    BY <1>1, <1>9, <2>1 DEF Consistent, EvidenceKeys
<1>12. Consistent(new)
  BY <1>1, <1>9, <1>10, <1>11, KeysBeside DEF Consistent
<1>13. db' = new
  BY <1>3, <1>12 DEF Commit
<1> QED
  BY <1>7, <1>9, <1>13 DEF Lineage, root, loaded

LEMMA BrandIsDeleted ==
  ASSUME AloneInv, NEW s \in Slots, DeleteBrand(s)
  PROVE  ~Has(db'.brands, Form(s).id) /\ NamesOf(db', {Form(s).id}) = {}
<1>1. db = [table \in Tables |-> db[table]] /\ Consistent(db)
  BY IsTyped DEF AloneInv, CatalogInv, Sound, Typed
<1> DEFINE id == Form(s).id
           left == Without(db.brands \ NamesOf(db, {id}), {id})
           new == [db EXCEPT !.brands = left]
<1>2. Commit(s, TRUE, new)
  BY DEF DeleteBrand
<1>3. left = {b \in db.brands : b.id # id /\ (b.kind = "entity_alias" => b.owner # id)}
  BY DEF Without, NamesOf
<1> HIDE DEF left
<1>4. /\ new.brands = left /\ new.prompts = db.prompts /\ new.sets = db.sets
      /\ new.runs = db.runs /\ new.queue = db.queue /\ new.clients = db.clients
      /\ new.schedules = db.schedules /\ new.markets = db.markets
      /\ new.personas = db.personas
  BY <1>1 DEF Tables
<1> HIDE DEF new
<1>5. BrandKeys(new)
  <2> SUFFICES ASSUME NEW b \in new.brands
               PROVE  /\ Has(OwnerTable(new, b.kind), b.owner)
                      /\ \A c \in Siblings(new, b.kind, b.owner) : Folded[b.name] = Folded[c.name] => b = c
    BY DEF BrandKeys
  <2>1. /\ b \in db.brands /\ (b.kind = "entity_alias" => b.owner # id)
        /\ Has(OwnerTable(db, b.kind), b.owner)
        /\ \A c \in Siblings(db, b.kind, b.owner) : Folded[b.name] = Folded[c.name] => b = c
    BY <1>1, <1>3, <1>4 DEF Consistent, BrandKeys
  <2>2. Has(OwnerTable(new, b.kind), b.owner)
    BY <1>3, <1>4, <2>1 DEF OwnerTable, Has
  <2>3. Siblings(new, b.kind, b.owner) \subseteq Siblings(db, b.kind, b.owner)
    BY <1>3, <1>4 DEF Siblings
  <2> QED
    BY <2>1, <2>2, <2>3
<1>6. PromptKeys(new) /\ EvidenceKeys(new) /\ ScheduleKeys(new) /\ QueueKeys(new) /\ Uniques(new)
  BY <1>1, <1>4 DEF Consistent, PromptKeys, EvidenceKeys, ScheduleKeys, QueueKeys, Uniques
<1>7. Consistent(new)
  BY <1>1, <1>4, <1>5, <1>6 DEF Consistent
<1>8. db' = new
  BY <1>2, <1>7 DEF Commit
<1> QED
  BY <1>3, <1>4, <1>8 DEF Has, NamesOf

-----------------------------------------------------------------------------
\* A request that stays alone works on the tables as they are: what its handler checked
\* still holds when it commits.
THEOREM AloneIsAlone == Spec => []AloneInv
<1>1. SiteInit /\ CatalogInv => AloneInv
  BY DEF SiteInit, AloneInv
<1>2. AloneInv /\ [Next]_vars /\ CatalogInv' => AloneInv'
  BY StepsKeepAlone
<1> QED
  BY <1>1, <1>2, CatalogIsSound, PTL DEF Spec

\* A request by itself never takes away the last administrator or the default persona,
\* however many there are.
THEOREM LastOnesAreKept == Spec => LastOnesStay
<1>1. AloneInv /\ [Next]_vars => \A s \in Slots : Ends(s) /\ req[s].alone =>
        /\ (\E u \in db.users : Administers(u)) => \E u \in db'.users : Administers(u)
        /\ Defaults(db) # {} => Defaults(db') # {}
  BY LastOnesStep DEF SomeAdmin
<1> QED
  BY <1>1, AloneIsAlone, PTL DEF Spec, LastOnesStay

\* An import that was not told to adds nothing twice, for files of any length.
THEOREM ImportsAddNoDuplicate == Spec => ImportAddsNoDuplicate
<1> DEFINE Good(s) ==
      LET forced == \E i \in Form(s).include : Form(s).rows[i].status = "duplicate"
          added == db'.prompts \ db.prompts
      IN EndsAlone(s, {"confirm"}) /\ ~forced =>
           \A p \in added, q \in db'.prompts :
             (q.set = p.set /\ q.market = p.market /\ q.current
                /\ Folded[q.text] = Folded[p.text]) => q = p
<1>1. AloneInv /\ [Next]_vars => \A s \in Slots : Good(s)
  <2> SUFFICES ASSUME AloneInv, [Next]_vars, NEW s \in Slots, EndsAlone(s, {"confirm"})
               PROVE  Good(s)
    OBVIOUS
  <2>1. Ends(s) /\ req[s].alone /\ Form(s).op = "confirm"
    BY DEF EndsAlone
  <2>2. ConfirmImport(s)
    BY <2>1, EndsByHandling, OwnHandler
  <2> QED
    BY <2>1, <2>2, ImportStep
<1> QED
  BY <1>1, AloneIsAlone, PTL DEF Spec, ImportAddsNoDuplicate

\* A set, a prompt or a competitor that may be deleted is deleted as a whole: no foreign
\* key refuses it, however many versions there are.
THEOREM DeletesGoThrough == Spec => DeletesAreComplete
<1> DEFINE Good(s) ==
      EndsAlone(s, {"delete_set", "delete_prompt", "delete_brand"}) /\ db.queue = {} =>
        CASE Form(s).op = "delete_set" ->
               ~Has(db'.sets, Form(s).id) /\ PromptsOf(db', Form(s).id) = {}
          [] Form(s).op = "delete_prompt" -> Lineage(db', RootOf(Loaded(s, "prompts"))) = {}
          [] Form(s).op = "delete_brand" ->
               ~Has(db'.brands, Form(s).id) /\ NamesOf(db', {Form(s).id}) = {}
<1>1. AloneInv /\ [Next]_vars => \A s \in Slots : Good(s)
  <2> SUFFICES ASSUME AloneInv, [Next]_vars, NEW s \in Slots,
                      EndsAlone(s, {"delete_set", "delete_prompt", "delete_brand"}), db.queue = {}
               PROVE  Good(s)
    OBVIOUS
  <2>1. /\ Ends(s) /\ req[s].alone
        /\ Form(s).op \in {"delete_set", "delete_prompt", "delete_brand"}
    BY DEF EndsAlone
  <2>2. Handles(s)
    BY <2>1, EndsByHandling
  <2>3. CASE Form(s).op = "delete_set"
    BY <2>1, <2>2, <2>3, OwnHandler, SetIsDeleted
  <2>4. CASE Form(s).op = "delete_prompt"
    BY <2>1, <2>2, <2>4, OwnHandler, PromptIsDeleted
  <2>5. CASE Form(s).op = "delete_brand"
    BY <2>1, <2>2, <2>5, OwnHandler, BrandIsDeleted
  <2> QED
    BY <2>1, <2>3, <2>4, <2>5
<1> QED
  BY <1>1, AloneIsAlone, PTL DEF Spec, DeletesAreComplete
-----------------------------------------------------------------------------
(* Schedules: what is shown of one state *)

LEMMA FanoutCounts ==
  ASSUME NEW c, IsFinite(c), NEW asked, IsFiniteSet(asked),
         \A p, q \in asked : p.id = q.id => p = q
  PROVE  Cardinality(Fanout(c, asked)) = RunsPerWindow(asked, c)
<1> DEFINE all == (asked \X c.models) \X c.personas
           Item(p, m, q) == [schedule |-> c.id, window |-> ticks, prompt |-> p.id, model |-> m,
             persona |-> q, market |-> IF c.market = 0 THEN p.market ELSE c.market]
           f == [x \in all |-> Item(x[1][1], x[1][2], x[2])]
<1>1. /\ IsFiniteSet(all)
      /\ Cardinality(all)
           = (Cardinality(asked) * Cardinality(c.models)) * Cardinality(c.personas)
  <2>1. IsFiniteSet(c.models) /\ IsFiniteSet(c.personas)
    BY DEF IsFinite
  <2>2. /\ IsFiniteSet(asked \X c.models)
        /\ Cardinality(asked \X c.models) = Cardinality(asked) * Cardinality(c.models)
    BY <2>1, FS_Product
  <2> QED
    BY <2>1, <2>2, FS_Product
<1>2. f \in [all -> Fanout(c, asked)]
  BY DEF Fanout
<1>3. ASSUME NEW x \in all, NEW y \in all, f[x] = f[y] PROVE x = y
  <2>1. /\ x[1][1] \in asked /\ y[1][1] \in asked
        /\ x = <<<<x[1][1], x[1][2]>>, x[2]>> /\ y = <<<<y[1][1], y[1][2]>>, y[2]>>
    OBVIOUS
  <2>2. Item(x[1][1], x[1][2], x[2]) = Item(y[1][1], y[1][2], y[2])
    BY <1>3
  <2>3. x[1][1].id = y[1][1].id /\ x[1][2] = y[1][2] /\ x[2] = y[2]
    BY <2>2
  <2> QED
    BY <2>1, <2>3
<1>4. ASSUME NEW item \in Fanout(c, asked) PROVE \E x \in all : f[x] = item
  <2>1. PICK p \in asked, m \in c.models, q \in c.personas : item = Item(p, m, q)
    BY DEF Fanout
  <2>2. <<<<p, m>>, q>> \in all /\ f[<<<<p, m>>, q>>] = Item(p, m, q)
    OBVIOUS
  <2> QED
    BY <2>1, <2>2
<1> HIDE DEF f, all
<1>5. ExistsBijection(all, Fanout(c, asked))
  BY <1>2, <1>3, <1>4 DEF ExistsBijection, Bijection, Injection, Surjection, IsInjective
<1> QED
  BY <1>1, <1>5, FS_Bijection DEF RunsPerWindow

\* The pages and the ticker find the same prompts for a schedule.
LEMMA SamePrompts ==
  ASSUME CatalogInv, PlansOK(db), NEW c \in db.schedules
  PROVE  /\ UNION ResolveTarget(db, c) = UNION TargetPrompts(c)
         /\ \A asked \in TargetPrompts(c) : asked \subseteq db.prompts
         /\ \A shown \in ResolveTarget(db, c), asked \in TargetPrompts(c) :
              RunsPerWindow(shown, c) = RunsPerWindow(asked, c)
<1>1. c.target[1] \in {"prompt", "set"}
  BY DEF PlansOK, IsSchedule, Targets
<1>2. CASE c.target[1] = "prompt"
  <2> DEFINE versions == Lineage(db, c.target[2]) \cap {p \in db.prompts : p.current}
  <2>1. /\ ResolveTarget(db, c) = {{p} : p \in versions} /\ versions \subseteq db.prompts
        /\ TargetPrompts(c) = IF versions = {} THEN {{}} ELSE {{p} : p \in versions}
    BY <1>2 DEF ResolveTarget, TargetPrompts
  <2> HIDE DEF versions
  <2>2. ASSUME NEW p, NEW q PROVE RunsPerWindow({p}, c) = RunsPerWindow({q}, c)
    BY FS_Singleton DEF RunsPerWindow
  <2>3. UNION ResolveTarget(db, c) = UNION TargetPrompts(c)
    BY <2>1
  <2>4. \A asked \in TargetPrompts(c) : asked \subseteq db.prompts
    BY <2>1
  <2>5. ASSUME NEW shown \in ResolveTarget(db, c), NEW asked \in TargetPrompts(c)
        PROVE  RunsPerWindow(shown, c) = RunsPerWindow(asked, c)
    <3>1. PICK p \in versions : shown = {p}
      BY <2>1
    <3>2. PICK q \in versions : asked = {q}
      BY <2>1, <3>1
    <3> QED
      BY <2>2, <3>1, <3>2
  <2> QED
    BY <2>3, <2>4, <2>5
<1>3. CASE c.target[1] = "set"
  <2> DEFINE asked == {p \in db.prompts : p.current /\ p.set = c.target[2] /\ p.active}
  <2>1. /\ ResolveTarget(db, c) = {asked : t \in {t \in db.sets : t.id = c.target[2]}}
        /\ TargetPrompts(c) = {asked}
    BY <1>3 DEF ResolveTarget, TargetPrompts
  <2>2. asked # {} => \E t \in db.sets : t.id = c.target[2]
    BY IsTyped DEF CatalogInv, Sound, Consistent, PromptKeys, Has
  <2>3. asked \subseteq db.prompts
    OBVIOUS
  <2> HIDE DEF asked
  <2>4. UNION ResolveTarget(db, c) = asked /\ UNION TargetPrompts(c) = asked
    BY <2>1, <2>2
  <2>5. \A shown \in ResolveTarget(db, c), prompts \in TargetPrompts(c) : shown = prompts
    BY <2>1
  <2> QED
    BY <2>1, <2>3, <2>4, <2>5
<1> QED
  BY <1>1, <1>2, <1>3

LEMMA WindowsAreAsShown ==
  ASSUME CatalogInv, PlansOK(db), NEW c \in db.schedules
  PROVE  \A shown \in ResolveTarget(db, c), asked \in TargetPrompts(c) :
           RunsPerWindow(shown, c) = Cardinality(Fanout(c, asked))
<1> SUFFICES ASSUME NEW shown \in ResolveTarget(db, c), NEW asked \in TargetPrompts(c)
             PROVE  RunsPerWindow(shown, c) = Cardinality(Fanout(c, asked))
  OBVIOUS
<1>1. asked \subseteq db.prompts /\ RunsPerWindow(shown, c) = RunsPerWindow(asked, c)
  BY SamePrompts
<1>2. IsFiniteSet(asked) /\ IsFinite(c)
  BY <1>1, FS_Subset DEF PlansOK, IsSchedule
<1>3. \A p, q \in asked : p.id = q.id => p = q
  BY <1>1, IsTyped DEF CatalogInv, Sound, Typed, Numbered
<1> QED
  BY <1>1, <1>2, <1>3, FanoutCounts

AskedBy(c) == UNION {Fanout(c, prompts) : prompts \in TargetPrompts(c)}
QuestionsOf(c) ==
  {<<RootOf(Row(db.prompts, q.prompt)), q.model, q.persona>> : q \in AskedBy(c)}

\* The questions a window asks are those the pages compare, part by part.
LEMMA QuestionsAre ==
  ASSUME CatalogInv, PlansOK(db), NEW c \in db.schedules
  PROVE  QuestionsOf(c) = Roots(c) \X c.models \X c.personas
<1> DEFINE Item(p, m, q) == [schedule |-> c.id, window |-> ticks, prompt |-> p.id, model |-> m,
             persona |-> q, market |-> IF c.market = 0 THEN p.market ELSE c.market]
           Question(item) == <<RootOf(Row(db.prompts, item.prompt)), item.model, item.persona>>
           prompts == UNION TargetPrompts(c)
<1>1. prompts \subseteq db.prompts /\ Roots(c) = {RootOf(p) : p \in prompts}
  BY SamePrompts DEF Roots
<1>2. ASSUME NEW p \in db.prompts, NEW m, NEW q
      PROVE  Question(Item(p, m, q)) = <<RootOf(p), m, q>>
  <2>1. Has(db.prompts, p.id) /\ \A o \in db.prompts : o.id = p.id => o = p
    BY IsTyped DEF CatalogInv, Sound, Typed, Numbered, Has
  <2>2. Row(db.prompts, p.id) = p
    BY <2>1, RowIs
  <2> QED
    BY <2>2
<1>3. \A item : item \in AskedBy(c) <=>
        \E p \in prompts, m \in c.models, q \in c.personas : item = Item(p, m, q)
  BY DEF AskedBy, Fanout
<1>4. QuestionsOf(c) = {Question(item) : item \in AskedBy(c)}
  BY DEF QuestionsOf
<1> HIDE DEF Item, Question, prompts
<1>5. ASSUME NEW x \in QuestionsOf(c)
      PROVE  x \in Roots(c) \X c.models \X c.personas
  <2>1. PICK p \in prompts, m \in c.models, q \in c.personas : x = Question(Item(p, m, q))
    BY <1>3, <1>4
  <2>2. x = <<RootOf(p), m, q>> /\ RootOf(p) \in Roots(c)
    BY <1>1, <1>2, <2>1
  <2> QED
    BY <2>2
<1>6. ASSUME NEW x \in Roots(c) \X c.models \X c.personas
      PROVE  x \in QuestionsOf(c)
  <2>1. PICK r \in Roots(c), m \in c.models, q \in c.personas : x = <<r, m, q>>
    OBVIOUS
  <2>2. PICK p \in prompts : r = RootOf(p)
    BY <1>1
  <2>3. x = Question(Item(p, m, q)) /\ Item(p, m, q) \in AskedBy(c)
    BY <1>1, <1>2, <1>3, <2>1, <2>2
  <2> QED
    BY <1>4, <2>3
<1> QED
  BY <1>5, <1>6

LEMMA WarningsAreTrue ==
  ASSUME CatalogInv, PlansOK(db), NEW c \in db.schedules
  PROVE  Overlapping(c, c.client, c.id) =
           {o \in ActiveSchedules \ {c} :
              o.client = c.client /\ QuestionsOf(c) \cap QuestionsOf(o) # {}}
<1>1. ASSUME NEW o \in db.schedules
      PROVE  Same(c, o) <=> QuestionsOf(c) \cap QuestionsOf(o) # {}
  <2>1. /\ QuestionsOf(c) = Roots(c) \X c.models \X c.personas
        /\ QuestionsOf(o) = Roots(o) \X o.models \X o.personas
    BY QuestionsAre
  <2>2. ASSUME Same(c, o) PROVE QuestionsOf(c) \cap QuestionsOf(o) # {}
    <3>1. PICK r \in Roots(c) \cap Roots(o), m \in c.models \cap o.models,
               q \in c.personas \cap o.personas : TRUE
      BY <2>2 DEF Same
    <3>2. <<r, m, q>> \in QuestionsOf(c) /\ <<r, m, q>> \in QuestionsOf(o)
      BY <2>1
    <3> QED
      BY <3>2
  <2>3. ASSUME QuestionsOf(c) \cap QuestionsOf(o) # {} PROVE Same(c, o)
    <3>1. PICK x : x \in QuestionsOf(c) /\ x \in QuestionsOf(o)
      BY <2>3
    <3>2. x[1] \in Roots(c) \cap Roots(o) /\ x[2] \in c.models \cap o.models
          /\ x[3] \in c.personas \cap o.personas
      BY <2>1, <3>1
    <3> QED
      BY <3>2 DEF Same
  <2> QED
    BY <2>2, <2>3
<1>2. \A o \in db.schedules : o.id = c.id <=> o = c
  BY DEF PlansOK, Numbered
<1> QED
  BY <1>1, <1>2 DEF Overlapping, ActiveSchedules

\* The client of what a schedule asks is the one it was made for.
LEMMA ClientIsKept ==
  ASSUME CatalogInv, PlansOK(db), NEW c \in db.schedules, ResolveTarget(db, c) # {}
  PROVE  TargetClient(db, c) = c.client
<1>1. c.target[1] \in {"prompt", "set"} /\ c.target[2] # 0 /\ PlacedAt(db, c.target, c.client)
  BY DEF PlansOK, IsSchedule, Targets
<1>2. CASE c.target[1] = "set"
  <2>1. Has(db.sets, c.target[2])
    BY <1>2 DEF ResolveTarget, Has
  <2> QED
    BY <1>1, <1>2, <2>1, RowIs DEF TargetClient, PlacedAt
<1>3. CASE c.target[1] = "prompt"
  <2> DEFINE versions == Lineage(db, c.target[2])
             p == CHOOSE p \in versions : p.current
  <2>1. \E v \in versions : v.current
    BY <1>3 DEF ResolveTarget
  <2>2. p \in versions
    BY <2>1
  <2>3. p \in db.prompts /\ (p.id = c.target[2] \/ p.root = c.target[2])
    BY <2>2 DEF Lineage
  <2>4. TargetClient(db, c) = Row(db.sets, p.set).client
    BY <1>3 DEF TargetClient
  <2> HIDE DEF p
  <2>5. \E o \in db.prompts : o.id = c.target[2] /\ o.set = p.set
    BY <1>1, <2>3 DEF CatalogInv, Sound, WholeLineages
  <2>6. Has(db.sets, p.set)
    BY <2>3, IsTyped DEF CatalogInv, Sound, Consistent, PromptKeys
  <2>7. Row(db.sets, p.set) \in db.sets /\ Row(db.sets, p.set).id = p.set
    BY <2>6, RowIs
  <2> QED
    BY <1>1, <1>3, <2>4, <2>5, <2>7 DEF PlacedAt
<1> QED
  BY <1>1, <1>2, <1>3

\* The badge of a schedule counts the warnings of its form.
LEMMA BadgesAreTrue ==
  ASSUME CatalogInv, PlansOK(db), NEW c \in db.schedules,
         c.id \in DOMAIN OverlapCounts(db.schedules)
  PROVE  OverlapCounts(db.schedules)[c.id] = Cardinality(Overlapping(c, c.client, c.id))
<1> DEFINE shown == {o \in db.schedules : o.active /\ ResolveTarget(db, o) # {}}
           Near(o) == {e \in shown \ {o} : TargetClient(db, e) = TargetClient(db, o) /\ Same(o, e)}
<1>1. OverlapCounts(db.schedules) = [i \in {o.id : o \in shown} |-> Cardinality(Near(Row(shown, i)))]
  BY DEF OverlapCounts
<1>2. \A o \in db.schedules : o.id = c.id <=> o = c
  BY DEF PlansOK, Numbered
<1>3. c \in shown
  BY <1>1, <1>2
<1>4. Row(shown, c.id) = c
  BY <1>2, <1>3, RowIs DEF Has
<1>5. Near(c) = Overlapping(c, c.client, c.id)
  <2>1. ASSUME NEW o \in db.schedules, Same(c, o) PROVE ResolveTarget(db, o) # {}
    BY <2>1 DEF Same, Roots
  <2>2. \A o \in shown : TargetClient(db, o) = o.client
    BY ClientIsKept
  <2> QED
    BY <1>2, <1>3, <2>1, <2>2 DEF Overlapping
<1>6. c.id \in {o.id : o \in shown}
  BY <1>3
<1> HIDE DEF shown, Near
<1> QED
  BY <1>1, <1>4, <1>5, <1>6

LEMMA SoundPlansAskAsShown ==
  ASSUME CatalogInv, PlansOK(db)
  PROVE  SchedulesAskAsShown
<1> SUFFICES ASSUME NEW s \in db.schedules
    PROVE  /\ \A shown \in ResolveTarget(db, s), asked \in TargetPrompts(s) :
                RunsPerWindow(shown, s) = Cardinality(Fanout(s, asked))
           /\ Overlapping(s, s.client, s.id) = {t \in ActiveSchedules \ {s} :
                t.client = s.client /\ QuestionsOf(s) \cap QuestionsOf(t) # {}}
           /\ s.id \in DOMAIN OverlapCounts(db.schedules) =>
                OverlapCounts(db.schedules)[s.id] = Cardinality(Overlapping(s, s.client, s.id))
  BY Zenon DEF SchedulesAskAsShown, QuestionsOf, AskedBy
<1> QED
  BY WindowsAreAsShown, WarningsAreTrue, BadgesAreTrue

-----------------------------------------------------------------------------
(* Schedules: what keeps their targets where they were *)

\* The tables a handler makes of the tables d, as far as schedules are shown from them: no
\* number of a set is given again, and a new schedule is placed at what d holds.
PlansFollow(d, new) ==
  /\ IsFiniteSet(new.prompts)
  /\ Numbered(new.sets, new.last) /\ \A t \in new.sets : t \in d.sets \/ (t.id \in Nat /\ t.id > d.last)
  /\ Numbered(new.schedules, new.last)
  /\ \A c \in new.schedules : IsSchedule(c) /\ PlacedAt(d, c.target, c.client)

LEMMA PlacedStays ==
  ASSUME NEW d, NEW new, Sound(d), PlansOK(d), Follows(d, new), PlansFollow(d, new),
         NEW target \in Targets, NEW client, PlacedAt(d, target, client)
  PROVE  PlacedAt(new, target, client)
<1>1. /\ d.last \in Nat /\ new.last \in Nat /\ d.last <= new.last
      /\ target[1] \in {"prompt", "set"} /\ target[2] \in Nat /\ target[2] <= d.last
  BY IsTyped DEF Sound, Typed, Follows, Targets, PlacedAt
<1>2. \A t \in new.sets : t.id <= d.last => t \in d.sets
  BY <1>1 DEF PlansFollow
<1>3. ASSUME NEW t \in new.sets, target[1] = "set", t.id = target[2]
      PROVE  t.client = client
  BY <1>1, <1>2, <1>3 DEF PlacedAt
<1>4. ASSUME NEW t \in new.sets, target[1] = "prompt",
             NEW p \in new.prompts, p.id = target[2], p.set = t.id
      PROVE  t.client = client
  <2>1. PICK q \in d.prompts : q.id = p.id /\ q.set = p.set
    BY <1>1, <1>4 DEF Follows, SameText
  <2>2. PICK o \in d.sets : o.id = t.id
    BY <1>4, <2>1, IsTyped DEF Sound, Consistent, PromptKeys, Has
  <2>3. t \in d.sets
    BY <1>2, <2>2 DEF PlansOK, Numbered
  <2> QED
    BY <1>4, <2>1, <2>3 DEF PlacedAt
<1>5. target[2] <= new.last
  BY <1>1
<1> QED
  BY <1>1, <1>3, <1>4, <1>5 DEF PlacedAt

LEMMA PlansStayOK ==
  ASSUME NEW d, NEW new, Sound(d), PlansOK(d), Follows(d, new), PlansFollow(d, new)
  PROVE  PlansOK(new)
<1>1. \A t \in new.sets : t.id \in Nat
  BY DEF PlansFollow, PlansOK
<1>2. ASSUME NEW c \in new.schedules
      PROVE  IsSchedule(c) /\ PlacedAt(new, c.target, c.client)
  <2>1. IsSchedule(c) /\ c.target \in Targets /\ PlacedAt(d, c.target, c.client)
    BY DEF PlansFollow, IsSchedule
  <2> QED
    BY <2>1, PlacedStays
<1> QED
  BY <1>1, <1>2 DEF PlansFollow, PlansOK

\* A form whose target resolves names a set or a prompt of the client it is stored with.
LEMMA TargetIsPlaced ==
  ASSUME Sound(db), PlansOK(db), NEW f, f.target \in Targets, ResolveTarget(db, f) # {}
  PROVE  PlacedAt(db, f.target, TargetClient(db, f))
<1>1. /\ \A p \in db.prompts : p.id \in Nat /\ p.id <= db.last
      /\ \A p, q \in db.prompts : p.id = q.id => p = q
      /\ \A t, u \in db.sets : t.id = u.id => t = u
      /\ \A t \in db.sets : t.id \in Nat /\ t.id <= db.last
      /\ f.target[1] \in {"prompt", "set"} /\ f.target[2] \in Nat /\ f.target[2] # 0
  BY IsTyped DEF Sound, Typed, Prompt, PlansOK, Numbered, Targets
<1>2. CASE f.target[1] = "set"
  <2>1. Has(db.sets, f.target[2])
    BY <1>2 DEF ResolveTarget, Has
  <2>2. TargetClient(db, f) = Row(db.sets, f.target[2]).client
    BY <1>2 DEF TargetClient
  <2>3. Row(db.sets, f.target[2]) \in db.sets /\ Row(db.sets, f.target[2]).id = f.target[2]
    BY <2>1, RowIs
  <2> QED
    BY <1>1, <1>2, <2>2, <2>3 DEF PlacedAt
<1>3. CASE f.target[1] = "prompt"
  <2> DEFINE versions == Lineage(db, f.target[2])
             p == CHOOSE p \in versions : p.current
  <2>1. \E v \in versions : v.current
    BY <1>3 DEF ResolveTarget
  <2>2. p \in versions
    BY <2>1
  <2>3. p \in db.prompts /\ (p.id = f.target[2] \/ p.root = f.target[2])
    BY <2>2 DEF Lineage
  <2>4. TargetClient(db, f) = Row(db.sets, p.set).client
    BY <1>3 DEF TargetClient
  <2> HIDE DEF p
  <2>5. PICK o \in db.prompts : o.id = f.target[2] /\ o.set = p.set
    BY <1>1, <2>3 DEF Sound, WholeLineages
  <2>6. Has(db.sets, p.set)
    BY <2>3, IsTyped DEF Sound, Consistent, PromptKeys
  <2>7. Row(db.sets, p.set) \in db.sets /\ Row(db.sets, p.set).id = p.set
    BY <2>6, RowIs
  <2>8. f.target[2] <= db.last
    BY <1>1, <2>5
  <2>9. ASSUME NEW t \in db.sets, NEW q \in db.prompts, q.id = f.target[2], q.set = t.id
        PROVE  t.client = TargetClient(db, f)
    BY <1>1, <2>4, <2>5, <2>7, <2>9
  <2> QED
    BY <1>3, <2>8, <2>9 DEF PlacedAt
<1> QED
  BY <1>1, <1>2, <1>3

-----------------------------------------------------------------------------
(* Schedules: what the handlers leave of them *)

\* Of a request that writes a schedule: it asks finitely much of a target that is, or was,
\* the client's when the form was sent.
PlanOK(s) ==
  /\ Form(s).op \in {"create_schedule", "update_schedule"} => IsFinite(Form(s))
  /\ Form(s).op = "create_schedule" =>
       /\ Form(s).target \in Targets
       /\ PlacedAt(db, Form(s).target, TargetClient(Seen(s), Form(s)))

LEMMA PlansFollowIf ==
  ASSUME Sound(db), PlansOK(db), NEW new, new.last \in Nat, db.last <= new.last,
         IsFiniteSet(new.prompts), new.sets \subseteq db.sets, new.schedules \subseteq db.schedules
  PROVE  PlansFollow(db, new)
<1>1. db.last \in Nat
  BY IsTyped DEF Sound, Typed
<1>2. Numbered(db.sets, new.last) /\ Numbered(db.schedules, new.last)
  BY <1>1, LaterIsNumbered DEF PlansOK, IsSchedule
<1>3. Numbered(new.sets, new.last) /\ Numbered(new.schedules, new.last)
  BY <1>2, FewerAreNumbered
<1> QED
  BY <1>3 DEF PlansFollow, PlansOK

LEMMA OthersLeavePlans ==
  ASSUME CatalogInv, NEW s, Clients(s) \/ Markets(s) \/ Personas(s) \/ Users(s)
  PROVE  db'.prompts = db.prompts /\ db'.sets = db.sets /\ db'.schedules = db.schedules
<1>1. db = [table \in Tables |-> db[table]]
  BY IsTyped DEF CatalogInv, Sound, Typed
<1>2. CASE Clients(s)
  BY <1>1, <1>2 DEF Clients, CreateClient, CreateBrand, DeleteBrand, Commit, Tables
<1>3. CASE Markets(s)
  BY <1>1, <1>3 DEF Markets, CreateMarket, UpdateMarket, DeleteMarket, Commit, Tables
<1>4. CASE Personas(s)
  BY <1>1, <1>4 DEF Personas, CreatePersona, UpdatePersona, DeletePersona, Commit, Tables
<1>5. CASE Users(s)
  BY <1>1, <1>5 DEF Users, CreateUser, UpdateUser, ToggleUser, ResetPassword, SetUser, Commit, Tables
<1> QED
  BY <1>2, <1>3, <1>4, <1>5

LEMMA LessLeavesPlans ==
  ASSUME PlansOK(db), NEW s, NEW found, NEW new, Commit(s, found, new),
         new.prompts \subseteq db.prompts, new.sets \subseteq db.sets,
         new.schedules \subseteq db.schedules
  PROVE  /\ IsFiniteSet(db'.prompts) /\ db'.sets \subseteq db.sets
         /\ db'.schedules \subseteq db.schedules
<1>1. db'.prompts \subseteq db.prompts /\ db'.sets \subseteq db.sets
      /\ db'.schedules \subseteq db.schedules
  BY DEF Commit
<1> QED
  BY <1>1, FS_Subset DEF PlansOK

LEMMA DeletesLeavePlans ==
  ASSUME CatalogInv, PlansOK(db), NEW s,
         DeletePrompt(s) \/ DeleteSet(s) \/ DeleteClient(s) \/ DeleteSchedule(s)
  PROVE  /\ IsFiniteSet(db'.prompts) /\ db'.sets \subseteq db.sets
         /\ db'.schedules \subseteq db.schedules
<1>1. db = [table \in Tables |-> db[table]]
  BY IsTyped DEF CatalogInv, Sound, Typed
<1>2. CASE DeletePrompt(s)
  <2> DEFINE gone == {p.id : p \in Lineage(Seen(s), RootOf(Loaded(s, "prompts")))}
             new == [db EXCEPT !.prompts = Without(@, gone)]
  <2>1. Commit(s, TRUE, new)
    BY <1>2 DEF DeletePrompt
  <2> HIDE DEF gone
  <2>2. /\ new.prompts \subseteq db.prompts /\ new.sets \subseteq db.sets
        /\ new.schedules \subseteq db.schedules
    BY <1>1 DEF Tables, Without
  <2> HIDE DEF new
  <2> QED
    BY <2>1, <2>2, LessLeavesPlans
<1>3. CASE DeleteSet(s)
  <2> DEFINE gone == PromptsOf(db, Form(s).id)
             new == [db EXCEPT !.sets = Without(@, {Form(s).id}), !.prompts = @ \ gone]
  <2>1. PICK found : Commit(s, found, new)
    BY <1>3 DEF DeleteSet
  <2> HIDE DEF gone
  <2>2. /\ new.prompts \subseteq db.prompts /\ new.sets \subseteq db.sets
        /\ new.schedules \subseteq db.schedules
    BY <1>1 DEF Tables, Without
  <2> HIDE DEF new
  <2> QED
    BY <2>1, <2>2, LessLeavesPlans
<1>4. CASE DeleteClient(s)
  <2> DEFINE gone == PromptsOfClient(db, Form(s).id)
             new == [db EXCEPT !.clients = Without(@, {Form(s).id}), !.prompts = @ \ gone,
                               !.sets = @ \ SetsOf(db, Form(s).id),
                               !.brands = @ \ BrandTree(db, Form(s).id)]
  <2>1. PICK found : Commit(s, found, new)
    BY <1>4 DEF DeleteClient
  <2> HIDE DEF gone
  <2>2. /\ new.prompts \subseteq db.prompts /\ new.sets \subseteq db.sets
        /\ new.schedules \subseteq db.schedules
    BY <1>1 DEF Tables
  <2> HIDE DEF new
  <2> QED
    BY <2>1, <2>2, LessLeavesPlans
<1>5. CASE DeleteSchedule(s)
  <2> DEFINE waiting == {[q EXCEPT !.schedule = IF @ = Form(s).id THEN 0 ELSE @] : q \in db.queue}
             new == [db EXCEPT !.schedules = Without(@, {Form(s).id}), !.queue = waiting]
  <2>1. Commit(s, Has(db.schedules, Form(s).id), new)
    BY <1>5 DEF DeleteSchedule
  <2> HIDE DEF waiting
  <2>2. /\ new.prompts \subseteq db.prompts /\ new.sets \subseteq db.sets
        /\ new.schedules \subseteq db.schedules
    BY <1>1 DEF Tables, Without
  <2> HIDE DEF new
  <2> QED
    BY <2>1, <2>2, LessLeavesPlans
<1> QED
  BY <1>2, <1>3, <1>4, <1>5

LEMMA PutIsFinite ==
  ASSUME NEW rows, IsFiniteSet(rows), NEW row
  PROVE  IsFiniteSet(Put(rows, row))
<1>1. IsFiniteSet(Without(rows, {row.id}))
  BY FS_Subset DEF Without
<1> QED
  BY <1>1, FS_AddElement DEF Put

LEMMA EditsLeavePlans ==
  ASSUME CatalogInv, PlansOK(db), NEW s, UpdatePrompt(s) \/ CreatePrompt(s) \/ TriggerRun(s)
  PROVE  /\ IsFiniteSet(db'.prompts) /\ db'.sets \subseteq db.sets
         /\ db'.schedules \subseteq db.schedules
<1>1. db = [table \in Tables |-> db[table]] /\ IsFiniteSet(db.prompts)
  BY IsTyped DEF CatalogInv, Sound, Typed, PlansOK
<1>2. ASSUME NEW old, EditInPlace(s, old)
      PROVE  IsFiniteSet(db'.prompts) /\ db'.sets = db.sets /\ db'.schedules = db.schedules
  <2>1. PICK row : db' = db \/ db' = [db EXCEPT !.prompts = Put(@, row)]
    BY <1>2 DEF EditInPlace, Commit
  <2>2. IsFiniteSet(Put(db.prompts, row))
    BY <1>1, PutIsFinite
  <2> QED
    BY <1>1, <2>1, <2>2 DEF Tables
<1>3. ASSUME NEW old, EditAsNewVersion(s, old)
      PROVE  IsFiniteSet(db'.prompts) /\ db'.sets = db.sets /\ db'.schedules = db.schedules
  <2> DEFINE now == Row(db.prompts, old.id)
             rows == IF old.current /\ Has(db.prompts, old.id)
                     THEN Put(db.prompts, [now EXCEPT !.current = FALSE]) ELSE db.prompts
             added == rows \cup {NextVersion(old, Form(s))}
             new == [db EXCEPT !.prompts = added, !.last = @ + 1]
  <2>1. db' = db \/ db' = new
    BY <1>3 DEF EditAsNewVersion, Commit
  <2>2. IsFiniteSet(rows)
    BY <1>1, PutIsFinite
  <2> HIDE DEF rows
  <2>3. IsFiniteSet(added)
    BY <2>2, FS_AddElement
  <2> HIDE DEF added
  <2>4. new.prompts = added /\ new.sets = db.sets /\ new.schedules = db.schedules
    BY <1>1 DEF Tables
  <2> HIDE DEF new
  <2> QED
    BY <1>1, <2>1, <2>3, <2>4
<1>4. CASE UpdatePrompt(s)
  BY <1>2, <1>3, <1>4 DEF UpdatePrompt
<1>5. CASE CreatePrompt(s)
  <2> DEFINE prompt == NewPrompt(db, Form(s).id, Form(s).text, Form(s).market, TRUE)
             new == [db EXCEPT !.prompts = @ \cup {prompt}, !.last = @ + 1]
  <2>1. db' = db \/ db' = new
    BY <1>5 DEF CreatePrompt, Commit
  <2> HIDE DEF prompt
  <2>2. IsFiniteSet(db.prompts \cup {prompt})
    BY <1>1, FS_AddElement
  <2>3. /\ new.prompts = db.prompts \cup {prompt} /\ new.sets = db.sets
        /\ new.schedules = db.schedules
    BY <1>1 DEF Tables
  <2> HIDE DEF new
  <2> QED
    BY <1>1, <2>1, <2>2, <2>3
<1>6. CASE TriggerRun(s)
  <2>1. PICK runs : db' = db \/ db' = [db EXCEPT !.runs = runs]
    BY <1>6 DEF TriggerRun, Commit
  <2> QED
    BY <1>1, <2>1 DEF Tables
<1> QED
  BY <1>4, <1>5, <1>6

LEMMA ImportLeavesPlans ==
  ASSUME CatalogInv, PlansOK(db), NEW s \in Slots, ConfirmImport(s)
  PROVE  /\ IsFiniteSet(db'.prompts) /\ db'.sets \subseteq db.sets
         /\ db'.schedules \subseteq db.schedules
<1>1. db = [table \in Tables |-> db[table]] /\ IsFiniteSet(db.prompts)
  BY IsTyped DEF CatalogInv, Sound, Typed, PlansOK
<1> DEFINE rows == Form(s).rows
           some == Imported(s)
           Number(i) == Cardinality({j \in some : j <= i})
           Plain(i) == NewPrompt(db, Form(s).id, rows[i].text, rows[i].market, TRUE)
           Added(i) == [Plain(i) EXCEPT !.id = db.last + Number(i)]
           new == [db EXCEPT !.last = @ + Cardinality(some),
                             !.prompts = @ \cup {Added(i) : i \in some}]
<1>2. db' = db \/ db' = new
  BY DEF ConfirmImport, Commit
<1>3. IsFiniteSet(some)
  <2>1. Form(s).op = "confirm" /\ FormOK(Form(s))
    BY DEF ConfirmImport, Serving, CatalogInv, RequestOK
  <2>2. RowsOK(rows)
    BY <2>1 DEF FormOK, AnyForm, PromptForm, PlanForm, BrandForm, UserForm, RowForm
  <2>3. PICK n \in Nat : some \subseteq 1..n
    BY <2>2 DEF RowsOK, Imported
  <2>4. IsFiniteSet(1..n)
    BY FS_Interval
  <2> HIDE DEF some
  <2> QED
    BY <2>3, <2>4, FS_Subset
<1> HIDE DEF some, Added
<1> DEFINE added == {Added(i) : i \in some}
           f == [i \in some |-> Added(i)]
<1>4. f \in Surjection(some, added)
  BY DEF Surjection
<1> HIDE DEF f
<1>5. IsFiniteSet(added)
  BY <1>3, <1>4, FS_Surjection
<1>6. IsFiniteSet(db.prompts \cup added)
  BY <1>1, <1>5, FS_Union
<1>7. new.prompts = db.prompts \cup added /\ new.sets = db.sets /\ new.schedules = db.schedules
  BY <1>1 DEF Tables
<1> HIDE DEF new
<1> QED
  BY <1>1, <1>2, <1>6, <1>7

\* A new set has a number that no schedule names.
LEMMA SetsAreAdded ==
  ASSUME CatalogInv, PlansOK(db), NEW s, CreateSet(s), db' # db
  PROVE  PlansFollow(db, db')
<1>1. db = [table \in Tables |-> db[table]] /\ db.last \in Nat
  BY IsTyped DEF CatalogInv, Sound, Typed
<1> DEFINE set == [id |-> Fresh(db), client |-> Form(s).id]
           new == [db EXCEPT !.sets = @ \cup {set}, !.last = @ + 1]
<1>2. db' = new
  BY DEF CreateSet, Commit
<1>3. set.id = db.last + 1
  BY DEF Fresh
<1> HIDE DEF set
<1>4. /\ db'.sets = db.sets \cup {set} /\ db'.last = db.last + 1
      /\ db'.prompts = db.prompts /\ db'.schedules = db.schedules
  BY <1>1, <1>2 DEF Tables
<1> HIDE DEF new
<1>5. Numbered(db'.sets, db'.last)
  BY <1>1, <1>3, <1>4, FreshIsNumbered DEF PlansOK
<1>6. Numbered(db'.schedules, db'.last)
  BY <1>1, <1>4, LaterIsNumbered DEF PlansOK, IsSchedule
<1> QED
  BY <1>1, <1>3, <1>4, <1>5, <1>6 DEF PlansFollow, PlansOK

LEMMA ScheduleIsAdded ==
  ASSUME CatalogInv, PlansOK(db), NEW s, CreateSchedule(s), db' # db, PlanOK(s)
  PROVE  PlansFollow(db, db')
<1>1. db = [table \in Tables |-> db[table]] /\ db.last \in Nat
  BY IsTyped DEF CatalogInv, Sound, Typed
<1> DEFINE f == Form(s)
           client == TargetClient(Seen(s), f)
           plan == [id |-> Fresh(db), client |-> client, target |-> f.target,
                    market |-> f.market, models |-> f.models, personas |-> f.personas,
                    active |-> TRUE]
           new == [db EXCEPT !.last = @ + 1, !.schedules = @ \cup {plan}]
<1>2. db' = new
  BY DEF CreateSchedule, Commit
<1>3. f.target \in Targets /\ IsFinite(f) /\ PlacedAt(db, f.target, client)
  BY DEF PlanOK, CreateSchedule, Serving
<1> HIDE DEF f, client
<1>4. /\ plan.id = db.last + 1 /\ IsSchedule(plan)
      /\ plan.target = f.target /\ plan.client = client
  BY <1>1, <1>3 DEF Fresh, IsSchedule, IsFinite
<1> HIDE DEF plan
<1>5. /\ db'.schedules = db.schedules \cup {plan} /\ db'.last = db.last + 1
      /\ db'.prompts = db.prompts /\ db'.sets = db.sets
  BY <1>1, <1>2 DEF Tables
<1> HIDE DEF new
<1>6. Numbered(db'.schedules, db'.last)
  <2>1. Numbered(db.schedules, db.last) /\ \A c \in db.schedules : c.id \in Nat
    BY DEF PlansOK, IsSchedule
  <2> QED
    BY <1>1, <1>4, <1>5, <2>1, FreshIsNumbered
<1>7. Numbered(db'.sets, db'.last)
  BY <1>1, <1>5, LaterIsNumbered DEF PlansOK
<1> QED
  BY <1>3, <1>4, <1>5, <1>6, <1>7 DEF PlansFollow, PlansOK

\* An edited schedule keeps its number, its target and its client.
LEMMA PutFollows ==
  ASSUME CatalogInv, PlansOK(db), NEW now \in db.schedules, NEW plan, IsSchedule(plan),
         plan.id = now.id, plan.target = now.target, plan.client = now.client,
         db' = [db EXCEPT !.schedules = Put(@, plan)]
  PROVE  PlansFollow(db, db')
<1>1. db = [table \in Tables |-> db[table]] /\ db.last \in Nat
  BY IsTyped DEF CatalogInv, Sound, Typed
<1>2. /\ db'.schedules = Put(db.schedules, plan) /\ db'.last = db.last
      /\ db'.prompts = db.prompts /\ db'.sets = db.sets
  BY <1>1 DEF Tables
<1>3. Numbered(db'.schedules, db'.last)
  <2>1. Numbered(db.schedules, db.last)
    BY DEF PlansOK
  <2>2. plan.id <= db.last
    BY <2>1 DEF Numbered
  <2> QED
    BY <1>2, <2>1, <2>2, PutIsNumbered
<1>4. \A c \in db'.schedules : c \in db.schedules \/ c = plan
  BY <1>2 DEF Put, Without
<1> QED
  BY <1>2, <1>3, <1>4 DEF PlansFollow, PlansOK

LEMMA ScheduleIsPut ==
  ASSUME CatalogInv, PlansOK(db), NEW s, UpdateSchedule(s) \/ ToggleSchedule(s), db' # db,
         PlanOK(s)
  PROVE  PlansFollow(db, db')
<1> DEFINE now == Row(db.schedules, Form(s).id)
<1>1. Has(db.schedules, Form(s).id)
  BY DEF UpdateSchedule, ToggleSchedule, Commit
<1>2. now \in db.schedules
  BY <1>1, RowIs
<1> DEFINE id == now.id
           client == now.client
           target == now.target
           market == now.market
           models == now.models
           personas == now.personas
           active == now.active
<1>3. /\ now = [id |-> id, client |-> client, target |-> target, market |-> market,
                models |-> models, personas |-> personas, active |-> active]
      /\ id \in Nat /\ target \in Targets /\ IsFiniteSet(models) /\ IsFiniteSet(personas)
  BY <1>2 DEF PlansOK, IsSchedule, IsFinite
<1>4. CASE UpdateSchedule(s)
  <2> DEFINE f == Form(s)
             old == Loaded(s, "schedules")
             Column(name) == IF f[name] = old[name] THEN now[name] ELSE f[name]
             m == Column("market")
             o == Column("models")
             q == Column("personas")
             plan == [now EXCEPT !.market = m, !.models = o, !.personas = q]
  <2>1. db' = [db EXCEPT !.schedules = Put(@, plan)]
    BY <1>4, Zenon DEF UpdateSchedule, Commit
  <2>2. IsFiniteSet(f.models) /\ IsFiniteSet(f.personas)
    BY <1>4 DEF PlanOK, UpdateSchedule, Serving, IsFinite
  <2>3. IsFiniteSet(o) /\ IsFiniteSet(q)
    BY <1>3, <2>2
  <2> HIDE DEF m, o, q, f, old
  <2> DEFINE first == [now EXCEPT !.market = m]
             second == [first EXCEPT !.models = o]
  <2>4. plan = [second EXCEPT !.personas = q]
    BY Zenon
  <2> HIDE DEF now, id, client, target, market, models, personas, active, plan
  <2>5. first = [id |-> id, client |-> client, target |-> target, market |-> m,
                 models |-> models, personas |-> personas, active |-> active]
    BY <1>3
  <2> HIDE DEF first
  <2>6. second = [id |-> id, client |-> client, target |-> target, market |-> m,
                  models |-> o, personas |-> personas, active |-> active]
    BY <2>5
  <2> HIDE DEF second
  <2>7. plan = [id |-> id, client |-> client, target |-> target, market |-> m,
                models |-> o, personas |-> q, active |-> active]
    BY <2>4, <2>6
  <2>8. /\ IsSchedule(plan) /\ plan.id = id /\ plan.target = target /\ plan.client = client
    BY <1>3, <2>3, <2>7 DEF IsSchedule, IsFinite
  <2> QED
    BY <1>2, <2>1, <2>8, PutFollows DEF id, target, client
<1>5. CASE ToggleSchedule(s)
  <2> DEFINE on == ~Loaded(s, "schedules").active
             plan == [now EXCEPT !.active = on]
  <2>1. db' = [db EXCEPT !.schedules = Put(@, plan)]
    BY <1>5, Zenon DEF ToggleSchedule, Commit
  <2> HIDE DEF on
  <2> HIDE DEF now, id, client, target, market, models, personas, active
  <2>2. plan = [id |-> id, client |-> client, target |-> target, market |-> market,
                models |-> models, personas |-> personas, active |-> on]
    BY <1>3
  <2> HIDE DEF plan
  <2>3. /\ IsSchedule(plan) /\ plan.id = id /\ plan.target = target /\ plan.client = client
    BY <1>3, <2>2 DEF IsSchedule, IsFinite
  <2> QED
    BY <1>2, <2>1, <2>3, PutFollows DEF id, target, client
<1> QED
  BY <1>4, <1>5

LEMMA HandlersFollowPlans ==
  ASSUME CatalogInv, PlansOK(db), NEW s \in Slots, Handles(s), PlanOK(s)
  PROVE  db' = db \/ (Follows(db, db') /\ PlansFollow(db, db'))
<1> SUFFICES ASSUME db' # db PROVE Follows(db, db') /\ PlansFollow(db, db')
  OBVIOUS
<1>1. Sound(db) /\ Follows(db, db') /\ db'.last \in Nat /\ db.last <= db'.last
  BY HandlersAnswer DEF CatalogInv, Answered, Follows, Typed
<1>2. CASE Clients(s) \/ Markets(s) \/ Personas(s) \/ Users(s)
  BY <1>1, <1>2, OthersLeavePlans, PlansFollowIf DEF PlansOK
<1>3. CASE Prompts(s) \/ DeleteSet(s) \/ DeleteClient(s) \/ ConfirmImport(s) \/ DeleteSchedule(s)
  BY <1>1, <1>3, DeletesLeavePlans, EditsLeavePlans, ImportLeavesPlans, PlansFollowIf DEF Prompts
<1>4. CASE CreateSet(s)
  BY <1>1, <1>4, SetsAreAdded
<1>5. CASE CreateSchedule(s) \/ UpdateSchedule(s) \/ ToggleSchedule(s)
  BY <1>1, <1>5, ScheduleIsAdded, ScheduleIsPut
<1> QED
  BY <1>2, <1>3, <1>4, <1>5 DEF Handles, Schedules

-----------------------------------------------------------------------------
(* Schedules: the invariant *)

PlanInv ==
  /\ CatalogInv /\ PlansOK(db) /\ FinitePlans(menu)
  /\ \A s \in Slots : req[s] # NoRequest => PlanOK(s)

\* Tables from which schedules are shown as before, and whose targets stayed.
LEMMA RequestsStayPlanned ==
  ASSUME CatalogInv, PlansOK(db), FinitePlans(menu), menu' = menu, NEW s \in Slots, PlanOK(s),
         db' = db \/ (Follows(db, db') /\ PlansFollow(db, db')),
         Form(s)' = Form(s), Seen(s)' = Seen(s)
  PROVE  PlanOK(s)'
<1>1. ASSUME Form(s).op = "create_schedule"
      PROVE  PlacedAt(db', Form(s).target, TargetClient(Seen(s), Form(s)))
  <2>1. Sound(db) /\ Form(s).target \in Targets
        /\ PlacedAt(db, Form(s).target, TargetClient(Seen(s), Form(s)))
    BY <1>1 DEF PlanOK, CatalogInv
  <2> QED
    BY <2>1, PlacedStays
<1> QED
  BY <1>1 DEF PlanOK

LEMMA StepsKeepPlans ==
  ASSUME PlanInv, [Next]_vars, CatalogInv'
  PROVE  PlanInv'
<1>1. CatalogInv /\ PlansOK(db) /\ FinitePlans(menu) /\ Sound(db)
  BY DEF PlanInv, CatalogInv
<1>2. ASSUME NEW t \in Slots, NEW f, Begin(t, f), (f \in menu /\ Accepts(f)) \/ f.op = "confirm"
      PROVE  PlanInv'
  <2>1. /\ db' = db /\ menu' = menu /\ req[t] = NoRequest
        /\ req'[t] = [form |-> f, seen |-> db, alone |-> \A y \in Slots : req[y] = NoRequest]
        /\ \A y \in Slots : y # t => req'[y] = IF req[y] = NoRequest THEN NoRequest
                                              ELSE [req[y] EXCEPT !.alone = FALSE]
    BY <1>2 DEF Begin
  <2>2. PlanOK(t)'
    <3>1. Form(t)' = f /\ Seen(t)' = db
      BY <2>1 DEF Form, Seen
    <3>2. f.op \in {"create_schedule", "update_schedule"} => f \in menu /\ Accepts(f) /\ IsFinite(f)
      BY <1>1, <1>2 DEF FinitePlans
    <3>3. ASSUME f.op = "create_schedule"
          PROVE  f.target \in Targets /\ PlacedAt(db, f.target, TargetClient(db, f))
      <4>1. ResolveTarget(db, f) # {}
        BY <3>2, <3>3 DEF Accepts, CanSchedule
      <4>2. f.target \in Targets
        BY <1>1, <3>2, <3>3 DEF CatalogInv, TypeOK, AnyForm, PromptForm, PlanForm, BrandForm,
           UserForm, RowForm
      <4> QED
        BY <1>1, <4>1, <4>2, TargetIsPlaced
    <3> QED
      BY <2>1, <3>1, <3>2, <3>3 DEF PlanOK
  <2>3. ASSUME NEW s \in Slots, s # t, req'[s] # NoRequest
        PROVE  PlanOK(s)'
    <3>1. RequestOK(s) /\ PlanOK(s) /\ req'[s] = [req[s] EXCEPT !.alone = FALSE]
      BY <2>1, <2>3 DEF PlanInv, CatalogInv
    <3>2. Form(s)' = Form(s) /\ Seen(s)' = Seen(s)
      <4> DEFINE now == req[s]
                 was == now.alone
      <4>1. now = [form |-> Form(s), seen |-> Seen(s), alone |-> was]
        BY <3>1 DEF RequestOK
      <4>2. req'[s] = [now EXCEPT !.alone = FALSE]
        BY <3>1
      <4> HIDE DEF now, was
      <4>3. req'[s] = [form |-> Form(s), seen |-> Seen(s), alone |-> FALSE]
        BY <4>1, <4>2
      <4>4. req'[s].form = Form(s) /\ req'[s].seen = Seen(s)
        BY <4>3
      <4> QED
        BY <4>4 DEF Form, Seen
    <3> QED
      BY <1>1, <2>1, <3>1, <3>2, RequestsStayPlanned
  <2> QED
    BY <1>1, <2>1, <2>2, <2>3 DEF PlanInv
<1>3. ASSUME NEW t \in Slots, Handles(t)
      PROVE  PlanInv'
  <2>1. req' = [req EXCEPT ![t] = NoRequest] /\ req[t] # NoRequest /\ menu' = menu
    BY <1>1, <1>3, HandlersAnswer, HandlersServe DEF Answered
  <2>2. db' = db \/ (Follows(db, db') /\ PlansFollow(db, db'))
    BY <1>1, <1>3, <2>1, HandlersFollowPlans DEF PlanInv
  <2>3. PlansOK(db')
    BY <1>1, <2>2, PlansStayOK
  <2>4. ASSUME NEW s \in Slots, req'[s] # NoRequest
        PROVE  PlanOK(s)'
    <3>1. req'[s] = req[s] /\ req[s] # NoRequest /\ PlanOK(s)
      BY <1>1, <2>1, <2>4 DEF PlanInv, CatalogInv
    <3>2. Form(s)' = Form(s) /\ Seen(s)' = Seen(s)
      BY <3>1 DEF Form, Seen
    <3> QED
      BY <1>1, <2>1, <2>2, <3>1, <3>2, RequestsStayPlanned
  <2> QED
    BY <1>1, <2>1, <2>3, <2>4 DEF PlanInv
<1>4. ASSUME \A table \in Tables \ {"queue"} : db'[table] = db[table],
             UNCHANGED req, menu' = menu
      PROVE  PlanInv'
  <2>1. /\ db'.prompts = db.prompts /\ db'.sets = db.sets /\ db'.schedules = db.schedules
        /\ db'.last = db.last
    BY <1>4 DEF Tables
  <2>2. \A target, client : PlacedAt(db', target, client) <=> PlacedAt(db, target, client)
    BY <2>1 DEF PlacedAt
  <2>3. PlansOK(db')
    BY <1>1, <2>1, <2>2 DEF PlansOK
  <2>4. \A s \in Slots : Form(s)' = Form(s) /\ Seen(s)' = Seen(s)
    BY <1>4 DEF Form, Seen
  <2>5. \A s \in Slots : PlanOK(s) => PlanOK(s)'
    BY <2>2, <2>4 DEF PlanOK
  <2> QED
    BY <1>1, <1>4, <2>3, <2>5 DEF PlanInv
<1> QED
  BY <1>1, <1>2, <1>3, <1>4, Steps

\* Whatever is edited meanwhile, every schedule, and every form that waits to become one,
\* names a target that is, or was, one of the client it is stored with.
THEOREM PlansAreOK == Spec => []PlanInv
<1>1. SiteInit /\ CatalogInv => PlanInv
  <2> SUFFICES ASSUME SiteInit, CatalogInv PROVE PlanInv
    OBVIOUS
  <2>1. PICK scene \in Scenes : db = scene.db /\ menu = scene.menu
    BY DEF SiteInit
  <2>2. PlansOK(db) /\ FinitePlans(menu)
    BY <2>1, ScenesAreSound
  <2> QED
    BY <2>2 DEF SiteInit, PlanInv
<1>2. PlanInv /\ [Next]_vars /\ CatalogInv' => PlanInv'
  BY StepsKeepPlans
<1> QED
  BY <1>1, <1>2, CatalogIsSound, PTL DEF Spec

\* A schedule's window is as many runs as its form announced, the form warns of just the
\* schedules of the client that ask the same, and the badges count those warnings: the pages
\* resolve targets in other code than the ticker, whatever is edited, deleted or imported.
THEOREM SchedulesAreAskedAsShown == Spec => []SchedulesAskAsShown
<1>1. PlanInv => SchedulesAskAsShown
  BY SoundPlansAskAsShown DEF PlanInv
<1> QED
  BY <1>1, PlansAreOK, PTL

=============================================================================

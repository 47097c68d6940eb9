------------------------------ MODULE MCCatalog ------------------------------
(***************************************************************************)
(* Catalog with one client and the scenes TLC starts from: a database and  *)
(* the forms its users submit, chosen so that they meet in every order.    *)
(* Rows 1 to 11 exist at the start, 12 and above are made on the way.      *)
(***************************************************************************)
EXTENDS Catalog, TLC

FoldedTexts == [t \in {"", "a", "A", "b", "c"} |-> IF t = "A" THEN "a" ELSE t]
Symmetric == Permutations(Slots)

Version(id, root, version, current, text) ==
  [id |-> id, set |-> 2, root |-> root, version |-> version, current |-> current,
   active |-> TRUE, text |-> text, market |-> 3]

Plain == [
  clients   |-> {[id |-> 1, slug |-> <<"a", 1>>]},
  sets      |-> {[id |-> 2, client |-> 1]},
  markets   |-> {[id |-> 3, code |-> "de"], [id |-> 4, code |-> "en"]},
  prompts   |-> {Version(5, 0, 1, TRUE, "a")},
  personas  |-> {[id |-> 7, default |-> TRUE], [id |-> 8, default |-> FALSE]},
  brands    |-> {},
  users     |-> {[id |-> 9, role |-> "admin", active |-> TRUE],
                 [id |-> 10, role |-> "admin", active |-> TRUE],
                 [id |-> 11, role |-> "viewer", active |-> TRUE]},
  runs      |-> {}, schedules |-> {}, queue |-> {}, last |-> 11]

Edited == [Plain EXCEPT !.prompts = {Version(5, 0, 1, FALSE, "b"), Version(6, 5, 2, TRUE, "a")}]

Edit(id, text, market, active) ==
  [op |-> "edit", id |-> id, text |-> text, market |-> market, active |-> active]
Of(op, id) == [op |-> op, id |-> id]
Ask(id, market, persona) == [op |-> "run", id |-> id, market |-> market, persona |-> persona]
Write(set, text, market) ==
  [op |-> "create_prompt", id |-> set, text |-> text, market |-> market]

Versions == [db |-> Edited, ticks |-> 0, menu |-> {
  Edit(6, "c", 3, TRUE), Edit(6, "a", 3, FALSE), Edit(5, "b", 4, TRUE), Edit(12, "b", 3, TRUE),
  Of("delete_prompt", 6), Of("delete_prompt", 12), Of("delete_set", 2),
  Write(2, "c", 3), Ask(6, 3, 7), Ask(5, 3, 7)}]

Structure == [db |-> Plain, ticks |-> 0, menu |-> {
  Edit(5, "b", 4, TRUE), Write(2, "c", 4), Write(12, "c", 3), Ask(5, 4, 7),
  Of("create_set", 1), Of("delete_set", 2), Of("delete_set", 12), Of("delete_client", 1),
  [op |-> "create_market", code |-> "fr"],
  [op |-> "update_market", id |-> 4, code |-> "fr"], [op |-> "update_market", id |-> 4, code |-> "en"],
  Of("delete_market", 4)}]

Line(shape, text, code) == [shape |-> shape, text |-> text, code |-> code]
File(format, lines) ==
  [op |-> "preview", id |-> 2, market |-> 3, file |-> [format |-> format, lines |-> lines]]

Importing == [db |-> Edited, ticks |-> 0, menu |-> {
  File("csv", <<Line("row", "c", ""), Line("blank", "", ""), Line("row", "c", "de")>>),
  File("xlsx", <<Line("padded", "b", "en"), Line("row", "A", "")>>),
  File("csv", <<Line("padded", "b", "en"), Line("row", "b", "")>>),
  File("json", <<Line("row", "", "de"), Line("row", "b", "xx")>>),
  File("xlsx", <<Line("ragged", "c", ""), Line("row", "c", ""), Line("row", "b", "")>>),
  Edit(6, "b", 3, TRUE), Write(2, "c", 3), Of("delete_market", 4), Of("delete_set", 2)}]

Framing == [db |-> Plain, ticks |-> 0, menu |-> {
  [op |-> "create_persona", id |-> 0, default |-> TRUE],
  [op |-> "create_persona", id |-> 0, default |-> FALSE],
  [op |-> "update_persona", id |-> 7, default |-> TRUE],
  [op |-> "update_persona", id |-> 7, default |-> FALSE],
  [op |-> "update_persona", id |-> 8, default |-> TRUE],
  Of("delete_persona", 7), Of("delete_persona", 8), Ask(5, 3, 8)}]

By(admin, op, id) == [op |-> op, by |-> admin, id |-> id]
Role(admin, id, role) == [op |-> "update_user", by |-> admin, id |-> id, role |-> role]

Accounts == [db |-> Plain, ticks |-> 0, menu |-> {
  Role(9, 10, "viewer"), Role(10, 9, "editor"), Role(9, 9, "viewer"), Role(9, 11, "admin"),
  By(9, "toggle_user", 10), By(10, "toggle_user", 9), By(11, "toggle_user", 9),
  By(9, "toggle_user", 9), By(9, "reset_password", 10), By(10, "reset_password", 9),
  [op |-> "create_user", by |-> 9, id |-> 0, role |-> "admin"]}]

Schedule(id, target, market) ==
  [id |-> id, client |-> 1, target |-> target, market |-> market, models |-> {"x"},
   personas |-> {8}, active |-> TRUE]

Scheduled == [db |-> [Edited EXCEPT !.schedules =
    {Schedule(12, <<"prompt", 5>>, 0), Schedule(13, <<"set", 2>>, 4)}, !.last = 13],
  ticks |-> 2, menu |-> {
  Edit(6, "c", 3, TRUE), Edit(6, "a", 3, FALSE), Edit(5, "c", 3, TRUE),
  Of("delete_prompt", 6), Of("delete_market", 4), Of("delete_persona", 8),
  Of("delete_client", 1)}]

Plan(op, id, target, models, personas) ==
  [op |-> op, id |-> id, target |-> target, market |-> 0, models |-> models, personas |-> personas]

Planning == [db |-> [Edited EXCEPT !.schedules =
    {Schedule(12, <<"prompt", 5>>, 0), Schedule(13, <<"set", 2>>, 4)}, !.last = 13],
  ticks |-> 0, menu |-> {
  Plan("create_schedule", 0, <<"prompt", 5>>, {"x", "y"}, {7}),
  Plan("create_schedule", 0, <<"set", 2>>, {"y"}, {7, 8}),
  Plan("update_schedule", 12, <<"prompt", 5>>, {"x", "y"}, {7, 8}),
  Of("toggle_schedule", 13), Of("delete_schedule", 12),
  Edit(6, "c", 3, TRUE), Edit(6, "a", 3, FALSE), Write(2, "c", 3),
  Of("delete_prompt", 6), Of("delete_set", 2)}]

Naming(op, kind, owner, name) == [op |-> op, kind |-> kind, id |-> owner, name |-> name]

Named == [db |-> [Plain EXCEPT !.last = 12,
    !.brands = {[id |-> 12, kind |-> "entity", owner |-> 1, name |-> "b"]}], ticks |-> 0, menu |-> {
  [op |-> "create_client", name |-> "a"], Of("delete_client", 1), Of("delete_brand", 12),
  Naming("create_brand", "alias", 1, "a"), Naming("create_brand", "alias", 1, "A"),
  Naming("create_brand", "entity", 1, "a"), Naming("create_brand", "entity_alias", 12, "a"),
  Naming("create_brand", "entity_alias", 12, "A"), Of("delete_brand", 13)}]

AllScenes == {Versions, Structure, Importing, Framing, Accounts, Scheduled, Planning, Named}
TickerScene == {Scheduled}
=============================================================================

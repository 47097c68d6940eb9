------------------------------ MODULE Directory ------------------------------
(***************************************************************************)
(* The personas a run can be framed as, of which one is the default        *)
(* (app/routers/personas.py), and the accounts administrators manage       *)
(* (app/routers/users.py).  Labels, names, e-mails and passwords are left  *)
(* out; what deactivation does to schedules is in Ticker.                  *)
(***************************************************************************)
EXTENDS Site

\* The handler's view of the row its form names, and of the acting user.
Target(s, table) == Row(Seen(s)[table], Form(s).id)

-----------------------------------------------------------------------------
(* Personas *)

Defaults(d) == {p \in d.personas : p.default}

\* _clear_current_default, from the row that was the default when it looked.
Cleared(s) == {p \in Defaults(Seen(s)) : p.id # Form(s).id}
StillThere(rows) == \A p \in rows : Has(db.personas, p.id)
ClearDefault(rows) ==
  {IF Has(rows, p.id) THEN [p EXCEPT !.default = FALSE] ELSE p : p \in db.personas}

CreatePersona(s) ==
  /\ Serving(s, "create_persona")
  /\ LET cleared == IF Form(s).default THEN Cleared(s) ELSE {} IN
     Commit(s, StillThere(cleared),
            [db EXCEPT !.last = @ + 1, !.personas = ClearDefault(cleared) \cup
               {[id |-> Fresh(db), default |-> Form(s).default]}])

\* Taking the default away is refused: another persona has to be made the default.
CanUpdatePersona(f) ==
  Has(db.personas, f.id) /\ (Row(db.personas, f.id).default => f.default)

UpdatePersona(s) ==
  /\ Serving(s, "update_persona")
  /\ LET becomes == Form(s).default /\ ~Target(s, "personas").default
         cleared == IF becomes THEN Cleared(s) ELSE {}
     IN IF becomes
        THEN Commit(s, StillThere(cleared) /\ Has(db.personas, Form(s).id),
               [db EXCEPT !.personas =
                  Put(ClearDefault(cleared), [id |-> Form(s).id, default |-> TRUE])])
        ELSE Commit(s, TRUE, db)

CanDeletePersona(f) ==
  /\ Has(db.personas, f.id) /\ ~Row(db.personas, f.id).default
  /\ \A r \in db.runs : r.persona # f.id

DeletePersona(s) ==
  /\ Serving(s, "delete_persona")
  /\ Commit(s, TRUE, [db EXCEPT !.personas = Without(@, {Form(s).id})])

-----------------------------------------------------------------------------
(* Users: every route asks for an active administrator *)

Roles == {"admin", "editor", "viewer"}
Administers(u) == u.active /\ u.role = "admin"
IsAdmin(i) == Has(db.users, i) /\ Administers(Row(db.users, i))

SetUser(user) == [db EXCEPT !.users = Put(@, user)]

CreateUser(s) ==
  /\ Serving(s, "create_user")
  /\ Commit(s, TRUE, [db EXCEPT !.last = @ + 1, !.users = @ \cup
       {[id |-> Fresh(db), role |-> Form(s).role, active |-> TRUE]}])

CanUpdateUser(f) ==
  /\ IsAdmin(f.by) /\ Has(db.users, f.id) /\ f.role \in Roles
  /\ f.id = f.by => f.role = Row(db.users, f.id).role

UpdateUser(s) ==
  /\ Serving(s, "update_user")
  /\ LET now == Row(db.users, Form(s).id) IN
     Commit(s, TRUE, IF Form(s).role = Target(s, "users").role THEN db
                     ELSE SetUser([now EXCEPT !.role = Form(s).role]))

\* Mutant: administrators may deactivate themselves.
CanToggleUser_Self(f) == IsAdmin(f.by) /\ Has(db.users, f.id)

CanToggleUser(f) ==
  /\ IsAdmin(f.by) /\ Has(db.users, f.id)
  /\ ~(f.id = f.by /\ Row(db.users, f.id).active)

\* Writes the opposite of what was loaded.
ToggleUser(s) ==
  /\ Serving(s, "toggle_user")
  /\ LET now == Row(db.users, Form(s).id) IN
     Commit(s, TRUE, SetUser([now EXCEPT !.active = ~Target(s, "users").active]))

\* reset_password also reactivates the account.
ResetPassword(s) ==
  /\ Serving(s, "reset_password")
  /\ LET now == Row(db.users, Form(s).id) IN
     Commit(s, TRUE, IF Target(s, "users").active THEN db
                     ELSE SetUser([now EXCEPT !.active = TRUE]))
=============================================================================

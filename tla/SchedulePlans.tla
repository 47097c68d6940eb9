---------------------------- MODULE SchedulePlans ----------------------------
(***************************************************************************)
(* What the schedule pages of app/routers/schedules.py promise of a        *)
(* schedule: how many runs a window will be, and which other schedules     *)
(* ask the same.  They resolve a target by themselves, not by the code     *)
(* that enqueues its windows.  When a schedule fires is in Ticker.         *)
(***************************************************************************)
EXTENDS PromptCatalog

\* Mutant: what the set holds, whether it is asked or not.
ResolveTarget_Inactive(d, f) ==
  LET current == {p \in d.prompts : p.current} IN
  IF f.target[1] = "prompt" THEN {{p} : p \in Lineage(d, f.target[2]) \cap current}
  ELSE {{p \in current : p.set = f.target[2]} : t \in {t \in d.sets : t.id = f.target[2]}}

\* _resolve_target: the prompts shown for a target, of which there may be several answers
\* when a prompt has two current versions, and none when the target is gone.
ResolveTarget(d, f) ==
  LET current == {p \in d.prompts : p.current} IN
  IF f.target[1] = "prompt" THEN {{p} : p \in Lineage(d, f.target[2]) \cap current}
  ELSE {{p \in current : p.set = f.target[2] /\ p.active} : t \in {t \in d.sets : t.id = f.target[2]}}

TargetClient(d, f) ==
  LET set == IF f.target[1] = "set" THEN f.target[2]
             ELSE (CHOOSE p \in Lineage(d, f.target[2]) : p.current).set
  IN Row(d.sets, set).client

CanSchedule(f) == ResolveTarget(db, f) # {}

\* create_schedule: a target deleted meanwhile is not noticed, a market is.
CreateSchedule(s) ==
  /\ Serving(s, "create_schedule")
  /\ LET f == Form(s) IN
     Commit(s, TRUE, [db EXCEPT !.last = @ + 1, !.schedules = @ \cup
       {[id |-> Fresh(db), client |-> TargetClient(Seen(s), f), target |-> f.target,
         market |-> f.market, models |-> f.models, personas |-> f.personas, active |-> TRUE]}])

\* update_schedule: the columns that differ from what was loaded.
UpdateSchedule(s) ==
  /\ Serving(s, "update_schedule")
  /\ LET f == Form(s)  old == Loaded(s, "schedules")  now == Row(db.schedules, f.id)
         Column(name) == IF f[name] = old[name] THEN now[name] ELSE f[name]
     IN Commit(s, Has(db.schedules, f.id),
          [db EXCEPT !.schedules = Put(@, [now EXCEPT !.market = Column("market"),
             !.models = Column("models"), !.personas = Column("personas")])])

\* toggle_schedule
ToggleSchedule(s) ==
  /\ Serving(s, "toggle_schedule")
  /\ LET active == Loaded(s, "schedules").active  now == Row(db.schedules, Form(s).id) IN
     Commit(s, Has(db.schedules, Form(s).id),
            [db EXCEPT !.schedules = Put(@, [now EXCEPT !.active = ~active])])

\* delete_schedule: its queue rows stay, without it.
DeleteSchedule(s) ==
  /\ Serving(s, "delete_schedule")
  /\ LET i == Form(s).id IN
     Commit(s, Has(db.schedules, i),
            [db EXCEPT !.schedules = Without(@, {i}),
               !.queue = {[q EXCEPT !.schedule = IF @ = i THEN 0 ELSE @] : q \in @}])

-----------------------------------------------------------------------------
(* What is shown *)

\* preview_occurrences: run_count_per_window
RunsPerWindow(prompts, f) ==
  Cardinality(prompts) * Cardinality(f.models) * Cardinality(f.personas)

Roots(f) == {RootOf(p) : p \in UNION ResolveTarget(db, f)}

Same(f, g) == /\ Roots(f) \cap Roots(g) # {}
              /\ f.models \cap g.models # {} /\ f.personas \cap g.personas # {}

\* find_overlapping_schedules, for a form that may be that of schedule `but'
Overlapping(f, client, but) ==
  {c \in db.schedules : c.client = client /\ c.active /\ c.id # but /\ Same(f, c)}

\* find_all_overlap_counts: the badges of the schedules page
OverlapCounts(schedules) ==
  LET shown == {c \in schedules : c.active /\ ResolveTarget(db, c) # {}}
      Beside(c) == {o \in shown \ {c} : TargetClient(db, o) = TargetClient(db, c) /\ Same(c, o)}
  IN [i \in {c.id : c \in shown} |-> Cardinality(Beside(Row(shown, i)))]
=============================================================================

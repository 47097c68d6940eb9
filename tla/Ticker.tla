------------------------------- MODULE Ticker -------------------------------
(***************************************************************************)
(* The ticker of SignalMap and the life of a schedule: every worker turns  *)
(* due rows of run_schedules into rows of run_queue                        *)
(* (app/services/queue.py, enqueue_due_schedules), while editors create,   *)
(* edit, pause, resume and delete schedules (app/routers/schedules.py) and *)
(* an admin deactivates their owners (app/routers/users.py).               *)
(*                                                                         *)
(* A ticker pass is one transaction: it reads the due schedules, inserts   *)
(* rows schedule by schedule, and writes what it changed when it commits   *)
(* (autoflush is off).  An HTTP request reads one schedule and writes what *)
(* it changed.  SQLAlchemy writes only the columns that a session changed, *)
(* so two overlapping sessions mix their columns: that is Flush.           *)
(***************************************************************************)
EXTENDS Naturals, FiniteSets, FiniteSetsExt

CONSTANTS
  Workers,       \* worker processes, each with a ticker
  Editors,       \* requests that edit or toggle a schedule
  Schedules,     \* rows run_schedules may hold
  Combos,        \* (prompt, model, persona) combinations
  Rules,         \* recurrence rules: frequency, days, time of day, timezone
  Fires,         \* [Rules -> SUBSET Nat]: when a rule fires (Recurrence)
  Limits,        \* ends a schedule can have: records [end, max], one of them 0
  Fanouts,       \* combinations a window may fan out to, SUBSET SUBSET Combos
  NoSchedule,    \* run_queue.schedule_id NULL
  Grace,         \* scheduler_grace_period_minutes
  QueueCap,      \* scheduler_max_queue_depth_per_client
  MissedCap,     \* _MAX_MISSED_WINDOW_ROWS
  MaxClock,      \* bound: the model's horizon
  MaxEdits,      \* bound: how many requests write
  MaxKills,      \* bound: how many ticker passes die
  MaxDeferrals,  \* bound: how often the worker postpones a queued row
  MaxPass,       \* the longest a ticker pass takes
  Overlapping    \* do requests overlap with ticker passes?

ASSUME BoundsAreNaturals ==
  {Grace, QueueCap, MissedCap, MaxClock, MaxEdits, MaxKills, MaxDeferrals, MaxPass}
    \subseteq Nat

ASSUME RulesFire ==
  /\ Fires \in [Rules -> SUBSET (Nat \ {0})]
  /\ \A rule \in Rules, t \in 0..MaxClock : \E u \in Fires[rule] : u > t

\* A ticker pass takes seconds and a rule fires at most once a day.
ASSUME PassesAreShort ==
  \A rule \in Rules : \A t, u \in Fires[rule] : t < u => t + MaxPass < u

\* ck_run_schedules_exactly_one_end
ASSUME EveryScheduleEnds ==
  /\ Limits \subseteq [end : Nat, max : Nat]
  /\ \A l \in Limits : (l.end = 0) # (l.max = 0)

ASSUME ThereIsSomethingToSchedule == Rules # {} /\ Schedules # {}

ASSUME FanoutsAreSets == Fanouts \subseteq SUBSET Combos /\ NoSchedule \notin Schedules

VARIABLES
  clock,
  present,    \* the schedules that exist
  deleted,    \* the ones that did; an id is never used again
  sched,      \* [Schedules -> Schedule], table run_schedules
  queue,      \* the rows of run_queue
  ticker,     \* [Workers -> Pass], the ticker's open transaction
  editor,     \* [Editors -> Request], the open request
  since,      \* history: when the rule that is in force was created, edited or resumed
  edits, kills, deferrals

vars == <<clock, present, deleted, sched, queue, ticker, editor, since, edits, kills, deferrals>>

\* A row of run_schedules; 0 stands for NULL in next, end and max.
Schedule == [active : BOOLEAN, reason : {"none", "user", "owner_deactivated", "completed"},
             next : Nat, count : Nat, rule : Rules, end : Nat, max : Nat]

\* A row of run_queue.  moved: the worker has postponed it, so that scheduled_for is
\* no longer the window's time.  Skipped rows are named by their skip_reason.
Row == [schedule : Schedules \cup {NoSchedule}, window : Nat, combo : Combos,
        status : {"queued", "done", "worker_down", "queue_depth_exceeded"},
        moved : BOOLEAN]

\* A ticker pass: its `now', the due rows as it read them and as it leaves them, the
\* ones it has not come to yet, and the rows it has inserted.
Pass == [busy : BOOLEAN, now : Nat, old : [Schedules -> Schedule],
         new : [Schedules -> Schedule], due : SUBSET Schedules,
         todo : SUBSET Schedules, rows : SUBSET Row]

Request == [busy : BOOLEAN, on : Schedules, old : Schedule]

TypeOK ==
  /\ clock \in 0..MaxClock
  /\ present \subseteq Schedules /\ deleted \subseteq Schedules \ present
  /\ sched \in [Schedules -> Schedule]
  /\ queue \subseteq Row
  /\ ticker \in [Workers -> Pass]
  /\ editor \in [Editors -> Request]
  /\ since \in [Schedules -> Nat]
  /\ edits \in 0..MaxEdits /\ kills \in 0..MaxKills /\ deferrals \in 0..MaxDeferrals

NoRow == [active |-> FALSE, reason |-> "none", next |-> 0, count |-> 0,
          rule |-> CHOOSE r \in Rules : TRUE, end |-> 0, max |-> 0]
NoRows == [s \in Schedules |-> NoRow]

Asleep == [busy |-> FALSE, now |-> 0, old |-> NoRows, new |-> NoRows,
           due |-> {}, todo |-> {}, rows |-> {}]
NoRequest == [busy |-> FALSE, on |-> CHOOSE s \in Schedules : TRUE, old |-> NoRow]

Init ==
  /\ clock = 0
  /\ present = {} /\ deleted = {} /\ sched = NoRows /\ queue = {}
  /\ ticker = [w \in Workers |-> Asleep]
  /\ editor = [e \in Editors |-> NoRequest]
  /\ since = [s \in Schedules |-> 0]
  /\ edits = 0 /\ kills = 0 /\ deferrals = 0

-----------------------------------------------------------------------------
(* Recurrence as the ticker sees it *)

Ended(row, t) == (row.max # 0 /\ row.count >= row.max) \/ (row.end # 0 /\ t > row.end)

\* compute_next_run_at: strictly after `after', NULL when the schedule has run its course.
NextRun(row, after) ==
  LET first == Min({t \in Fires[row.rule] : t > after})
  IN  IF Ended(row, first) THEN 0 ELSE first

\* What a new next_run_at does to an active row.
Rescheduled(row, after) ==
  LET next == NextRun(row, after)
  IN  [row EXCEPT !.next = next, !.active = next # 0,
                  !.reason = IF next = 0 THEN "completed" ELSE @]

\* upcoming_occurrences: what a schedule's form announces, the windows from `after' to
\* its end.
Upcoming(row, after) ==
  LET before(t) == {u \in Fires[row.rule] : after < u /\ u < t}
  IN  {t \in Fires[row.rule] :
         after < t /\ ~Ended([row EXCEPT !.count = @ + Cardinality(before(t))], t)}

\* Mutant: only the latest of the windows that are due.
Windows_Latest(row, now) ==
  {Max({t \in Fires[row.rule] : row.next <= t /\ t <= now /\ ~Ended(row, t)} \cup {row.next})}

\* The windows the loop of _enqueue_one_schedule goes through.
Windows(row, now) ==
  LET passed(t) == {u \in Fires[row.rule] : row.next < u /\ u < t}
  IN  {row.next} \cup
      {t \in Fires[row.rule] :
         /\ row.next < t /\ t <= now
         /\ ~Ended([row EXCEPT !.count = @ + 1 + Cardinality(passed(t))], t)}

\* Mutant: one occurrence for a pass, not for a window.
Advanced_OncePerPass(row, now) ==
  Rescheduled([row EXCEPT !.count = @ + 1], Max(Windows(row, now)))

\* Every window consumes one occurrence, whether it is queued or skipped.
Advanced(row, now) ==
  LET windows == Windows(row, now)
  IN  Rescheduled([row EXCEPT !.count = @ + Cardinality(windows)], Max(windows))

-----------------------------------------------------------------------------
(* Rows *)

Depth(rows) == Cardinality({q \in rows : q.status = "queued"})

\* idx_run_queue_unique_occurrence: a postponed row no longer stands for its window.
SameOccurrence(p, q) ==
  /\ p.schedule = q.schedule /\ p.window = q.window /\ p.combo = q.combo
  /\ ~p.moved /\ ~q.moved

\* Mutant: an insert without the ON CONFLICT clause and without the unique index.
Fresh_Unchecked(rows, table) == rows

\* ON CONFLICT DO NOTHING
Fresh(rows, table) == {p \in rows : ~\E q \in table : SameOccurrence(p, q)}

\* The rows of one schedule's due windows.  Late windows are skipped one by one up to
\* MissedCap, the rest in one summary row; a window that does not fit is skipped whole.
WindowRows(s, row, now, fanout, depth) ==
  LET windows == Windows(row, now)
      late == {t \in windows : now - t > Grace}
      nth(t, set) == Cardinality({u \in set : u <= t})
      fits(t) == depth + nth(t, windows \ late) * Cardinality(fanout) <= QueueCap
      entry(t, c, status) == [schedule |-> s, window |-> t, combo |-> c,
                              status |-> status, moved |-> FALSE]
      itemised == {t \in late : nth(t, late) <= MissedCap}
  IN  {entry(t, c, "worker_down") : t \in itemised, c \in fanout}
      \cup {entry(Max(late), c, "worker_down") :
              c \in {d \in fanout : late # itemised /\ d = CHOOSE e \in fanout : TRUE}}
      \cup {entry(t, c, "queued") : t \in {u \in windows \ late : fits(u)}, c \in fanout}
      \cup {entry(t, c, "queue_depth_exceeded") :
              t \in {u \in windows \ late : ~fits(u)}, c \in fanout}

\* The unit of work: of `new', only the columns that differ from `old' are written.
Flush(row, old, new) ==
  [c \in DOMAIN row |-> IF new[c] # old[c] THEN new[c] ELSE row[c]]

-----------------------------------------------------------------------------
(* The ticker: enqueue_due_schedules *)

Due(now) == {s \in present : sched[s].active /\ sched[s].next # 0 /\ sched[s].next <= now}

NobodyEdits == \A e \in Editors : ~editor[e].busy
NobodyTicks == \A w \in Workers : ~ticker[w].busy

TickRead(w) ==
  /\ ~ticker[w].busy
  /\ Due(clock) # {}
  /\ Overlapping \/ NobodyEdits
  /\ ticker' = [ticker EXCEPT ![w] =
       LET rows == [s \in Schedules |-> IF s \in Due(clock) THEN sched[s] ELSE NoRow]
       IN  [busy |-> TRUE, now |-> clock, old |-> rows, new |-> rows,
            due |-> Due(clock), todo |-> Due(clock), rows |-> {}]]
  /\ UNCHANGED <<clock, present, deleted, sched, queue, editor, since, edits, kills, deferrals>>

\* _enqueue_one_schedule: the depth is counted, the rows are inserted, uncommitted.
Enqueued(p, s, fanout) ==
  LET seen == queue \cup p.rows
      rows == WindowRows(s, p.old[s], p.now, fanout, Depth(seen))
  IN  [p EXCEPT !.todo = @ \ {s}, !.rows = @ \cup Fresh(rows, seen),
                !.new[s] = Advanced(p.old[s], p.now)]

TickSchedule(w, s) ==
  /\ ticker[w].busy /\ s \in ticker[w].todo /\ s \in present
  /\ \E fanout \in Fanouts : ticker' = [ticker EXCEPT ![w] = Enqueued(@, s, fanout)]
  /\ UNCHANGED <<clock, present, deleted, sched, queue, editor, since, edits, kills, deferrals>>

\* Mutant: the rows are committed and the advanced schedules are not.
TickCommit_RowsOnly(w) ==
  /\ ticker[w].busy /\ ticker[w].todo = {} /\ ticker[w].due \subseteq present
  /\ queue' = queue \cup Fresh(ticker[w].rows, queue)
  /\ ticker' = [ticker EXCEPT ![w] = Asleep]
  /\ UNCHANGED <<clock, present, deleted, sched, editor, since, edits, kills, deferrals>>

\* The commit: an insert that waited for another ticker's commit does nothing.
TickCommit(w) ==
  /\ ticker[w].busy /\ ticker[w].todo = {} /\ ticker[w].due \subseteq present
  /\ queue' = queue \cup Fresh(ticker[w].rows, queue)
  /\ sched' = [s \in Schedules |->
                 IF s \in ticker[w].due
                 THEN Flush(sched[s], ticker[w].old[s], ticker[w].new[s])
                 ELSE sched[s]]
  /\ ticker' = [ticker EXCEPT ![w] = Asleep]
  /\ UNCHANGED <<clock, present, deleted, editor, since, edits, kills, deferrals>>

\* A schedule was deleted meanwhile: the insert or the update fails, the transaction
\* rolls back and the worker process ends; it is started again.
TickAborts(w) ==
  /\ ticker[w].busy /\ ~(ticker[w].due \subseteq present)
  /\ ticker' = [ticker EXCEPT ![w] = Asleep]
  /\ UNCHANGED <<clock, present, deleted, sched, queue, editor, since, edits, kills, deferrals>>

Kill(w) ==
  /\ ticker[w].busy /\ kills < MaxKills
  /\ kills' = kills + 1
  /\ ticker' = [ticker EXCEPT ![w] = Asleep]
  /\ UNCHANGED <<clock, present, deleted, sched, queue, editor, since, edits, deferrals>>

-----------------------------------------------------------------------------
(* Requests *)

\* create_schedule: the first window is looked for from the start of the day.  When the
\* end lies before it there is none, and the new schedule is active all the same.
Create(s, rule, limit) ==
  /\ s \notin present \cup deleted /\ edits < MaxEdits
  /\ Overlapping \/ NobodyTicks
  /\ \E midnight \in 0..clock :
       LET row == [NoRow EXCEPT !.rule = rule, !.end = limit.end, !.max = limit.max]
           next == NextRun(row, midnight)
       IN  /\ sched' = [sched EXCEPT ![s] = [row EXCEPT !.active = TRUE, !.next = next]]
           /\ since' = [since EXCEPT ![s] = midnight]
  /\ present' = present \cup {s}
  /\ edits' = edits + 1
  /\ UNCHANGED <<clock, deleted, queue, ticker, editor, kills, deferrals>>

Open(e, s) ==
  /\ ~editor[e].busy /\ s \in present /\ edits < MaxEdits
  /\ Overlapping \/ NobodyTicks
  /\ editor' = [editor EXCEPT ![e] = [busy |-> TRUE, on |-> s, old |-> sched[s]]]
  /\ edits' = edits + 1
  /\ UNCHANGED <<clock, present, deleted, sched, queue, ticker, since, kills, deferrals>>

\* The request's commit; it fails with an error page when the row is gone.
Save(e, new) ==
  LET s == editor[e].on
  IN  /\ editor[e].busy
      /\ sched' = IF s \in present
                  THEN [sched EXCEPT ![s] = Flush(sched[s], editor[e].old, new)]
                  ELSE sched
      /\ since' = IF s \in present THEN [since EXCEPT ![s] = clock] ELSE since
      /\ editor' = [editor EXCEPT ![e] = NoRequest]
      /\ UNCHANGED <<clock, present, deleted, queue, ticker, edits, kills, deferrals>>

\* update_schedule: an active schedule's next window is recomputed from now.
Update(e, rule, limit) ==
  LET row == [editor[e].old EXCEPT !.rule = rule, !.end = limit.end, !.max = limit.max]
  IN  Save(e, IF row.active THEN Rescheduled(row, clock) ELSE row)

SwitchOff(e, reason) ==
  /\ editor[e].busy /\ editor[e].old.active
  /\ Save(e, [editor[e].old EXCEPT !.active = FALSE, !.reason = reason, !.next = 0])

\* toggle_schedule
Pause(e) == SwitchOff(e, "user")

\* toggle_user_active, for a schedule of the user.
OwnerDeactivated(e) == SwitchOff(e, "owner_deactivated")

\* Mutant: a resume that looks for the next window from the schedule's start.
Resume_FromStart(e) ==
  /\ editor[e].busy /\ ~editor[e].old.active
  /\ editor[e].old.reason # "completed"
  /\ Save(e, Rescheduled([editor[e].old EXCEPT !.reason = "none"], 0))

Resume(e) ==
  /\ editor[e].busy /\ ~editor[e].old.active
  /\ editor[e].old.reason # "completed"
  /\ Save(e, Rescheduled([editor[e].old EXCEPT !.reason = "none"], clock))

\* A completed schedule cannot be resumed: 409.
Refuse(e) ==
  /\ editor[e].busy /\ ~editor[e].old.active /\ editor[e].old.reason = "completed"
  /\ editor' = [editor EXCEPT ![e] = NoRequest]
  /\ UNCHANGED <<clock, present, deleted, sched, queue, ticker, since, edits, kills, deferrals>>

\* delete_schedule: the ORM first clears schedule_id of the schedule's queue rows.  A
\* ticker's uncommitted row makes the DELETE wait for it.
Delete(s) ==
  /\ s \in present /\ edits < MaxEdits
  /\ Overlapping \/ NobodyTicks
  /\ \A w \in Workers : \A q \in ticker[w].rows : q.schedule # s
  /\ present' = present \ {s} /\ deleted' = deleted \cup {s}
  /\ sched' = [sched EXCEPT ![s] = NoRow]
  /\ queue' = {IF q.schedule = s THEN [q EXCEPT !.schedule = NoSchedule] ELSE q : q \in queue}
  /\ edits' = edits + 1
  /\ UNCHANGED <<clock, ticker, editor, since, kills, deferrals>>

-----------------------------------------------------------------------------
(* The executor, as far as the ticker sees it, and time *)

Execute(q) ==
  /\ q \in queue /\ q.status = "queued"
  /\ queue' = (queue \ {q}) \cup {[q EXCEPT !.status = "done"]}
  /\ UNCHANGED <<clock, present, deleted, sched, ticker, editor, since, edits, kills, deferrals>>

\* A collision, a transport retry or a billing wait moves scheduled_for.
Defer(q) ==
  /\ q \in queue /\ q.status = "queued" /\ ~q.moved /\ deferrals < MaxDeferrals
  /\ deferrals' = deferrals + 1
  /\ queue' = (queue \ {q}) \cup {[q EXCEPT !.moved = TRUE]}
  /\ UNCHANGED <<clock, present, deleted, sched, ticker, editor, since, edits, kills>>

\* A request is answered within the tick.
Tick ==
  /\ clock < MaxClock /\ NobodyEdits
  /\ \A w \in Workers : ticker[w].busy => clock < ticker[w].now + MaxPass
  /\ clock' = clock + 1
  /\ UNCHANGED <<present, deleted, sched, queue, ticker, editor, since, edits, kills, deferrals>>

TickStep(w) ==
  \/ TickRead(w) \/ TickCommit(w) \/ TickAborts(w)
  \/ \E s \in Schedules : TickSchedule(w, s)

SaveStep(e) ==
  \/ \E rule \in Rules, limit \in Limits : Update(e, rule, limit)
  \/ Pause(e) \/ OwnerDeactivated(e) \/ Resume(e) \/ Refuse(e)

Next ==
  \/ \E w \in Workers : TickStep(w) \/ Kill(w)
  \/ \E e \in Editors : SaveStep(e) \/ \E s \in Schedules : Open(e, s)
  \/ \E s \in Schedules :
       Delete(s) \/ \E rule \in Rules, limit \in Limits : Create(s, rule, limit)
  \/ \E q \in queue : Execute(q) \/ Defer(q)
  \/ Tick

Spec == Init /\ [][Next]_vars

\* The workers' loops run on, every request is answered, and time goes on.
Fairness ==
  /\ \A w \in Workers : WF_vars(TickStep(w))
  /\ \A e \in Editors : WF_vars(SaveStep(e))
  /\ WF_vars(Tick)

FairSpec == Spec /\ Fairness

-----------------------------------------------------------------------------
(* Properties *)

WindowsOf(s, rows) == {q.window : q \in {p \in rows : p.schedule = s}}

\* The rows a step adds for windows that had none.
NewRows == {q \in queue' : /\ q.schedule \in present
                           /\ ~\E p \in queue : /\ p.schedule = q.schedule
                                                /\ p.window = q.window /\ p.combo = q.combo}

\* "a second ticker pass racing this one, or a resumed pass after a crash
\* mid-enqueue, must not double-insert the same occurrence" (queue.py:79-80).
WindowOnce ==
  \A p, q \in queue : /\ p.schedule = q.schedule /\ p.schedule # NoSchedule
                      /\ p.window = q.window /\ p.combo = q.combo
                      => p = q

\* What the form announced comes true: while nobody edits a schedule, the windows it has
\* consumed and those it still announces add up to the same number, whichever of them were
\* late, did not fit or met a second ticker or a killed pass.
Announced(s) ==
  LET row == sched[s]
  IN  row.count + IF row.next = 0 THEN 0 ELSE Cardinality(Upcoming(row, row.next - 1))

AnnouncementsAreKept ==
  [][\A s \in present \cap present' :
       \/ Announced(s)' = Announced(s)
       \/ \E e \in Editors : editor[e].busy /\ ~editor'[e].busy /\ editor[e].on = s]_vars

\* No due window of the rule in force is lost: it was queued, skipped visibly or
\* is covered by the summary row of a later one (decisions 11 and 31).
NothingSkipped ==
  \A s \in present : sched[s].active =>
    \A t \in Fires[sched[s].rule] : since[s] < t /\ t < sched[s].next =>
      \E q \in queue : /\ q.schedule = s
                       /\ q.window = t \/ (q.status = "worker_down" /\ q.window > t)

\* A window is only ever enqueued if the rule in force fires then, and never for a
\* time before that rule was created, edited or resumed: "an edited rule takes
\* effect going forward, never retroactively" (schedules.py:628-630), and a resumed
\* schedule "must not fire a burst of missed windows" (schedules.py:687-688).
NeverRetroactive ==
  [][\A q \in NewRows : /\ q.window \in Fires[sched[q.schedule].rule]
                        /\ q.window > since[q.schedule]]_vars

WaitsFor(s, t) == s \in present /\ sched[s].active /\ sched[s].next = t

\* A due window is handled, however many ticker passes are killed or overtaken by edits.
DueIsHandled ==
  \A s \in Schedules, t \in 1..MaxClock :
    (WaitsFor(s, t) /\ t <= clock) ~> ~WaitsFor(s, t)
=============================================================================

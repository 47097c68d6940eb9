-------------------------------- MODULE Monitor --------------------------------
(***************************************************************************)
(* Who is alive and who is told: the heartbeat thread of a worker          *)
(* (app/worker.py), the worker panel of /schedules that reads its row      *)
(* (services/schedule_monitor.py, routers/schedules.py), and the outbox    *)
(* that alerts are written to (services/notifications.py).                 *)
(*                                                                         *)
(* The clock counts heartbeat intervals.  A session checks, for one alert  *)
(* after the other, whether it was raised before, inserts it, and delivers *)
(* it; each is a transaction of its own.                                   *)
(***************************************************************************)
EXTENDS Integers, FiniteSets

CONSTANTS
  Workers,      \* worker names
  Pages,        \* requests for /schedules or its worker panel
  Clients,      \* clients with a monthly budget and a daily run limit
  Endings,      \* schedules with an end
  Providers,    \* providers whose account may be empty
  Null,
  StaleAfter,   \* WORKER_STALE_THRESHOLD_SECONDS
  Retention,    \* _STALE_HEARTBEAT_RETENTION
  Cooldown,     \* _WORKER_STALE_COOLDOWN
  BillingCooldown,  \* _PROVIDER_BILLING_COOLDOWN
  JoinTimeout,  \* heartbeat_thread.join(timeout)
  MaxWrite,     \* the longest a heartbeat write takes
  Day, Month,   \* calendar days and months
  MaxClock, MaxStarts, MaxTroubles, MaxEvents, MaxRows  \* bounds

ASSUME TimesAreNaturals ==
  /\ {StaleAfter, Retention, Cooldown, BillingCooldown, JoinTimeout, MaxWrite} \subseteq Nat
  /\ {MaxClock, MaxRows} \subseteq Nat
  /\ Day \in Nat \ {0} /\ Month \in Nat \ {0} /\ Null \notin Nat

\* Ten seconds are long for an UPSERT of one row.
ASSUME WritesAreShort == MaxWrite < JoinTimeout

VARIABLES
  clock,
  main,      \* [Workers -> [state, busy, stopAt]], the main thread
  beat,      \* [Workers -> [state, at]], the heartbeat thread
  row,       \* [Workers -> last_seen_at, or Null without a row]
  healthy,   \* history: since when a process beats without a failure, or Null
  clean,     \* history: did the last process of that name stop cleanly?
  session,   \* [Workers \cup Pages -> what it is raising]
  outbox,    \* notification_outbox
  arisen,    \* budgets that are spent, schedules that are near their end
  starts, troubles, events

threads == <<main, beat>>
history == <<healthy, clean>>
counts == <<starts, troubles, events>>
vars == <<clock, main, beat, row, healthy, clean, session, outbox, arisen, counts>>

Alert(kind, of) == [kind |-> kind, of |-> of]
Alerts == [kind : {"stale"}, of : Workers] \cup [kind : {"budget", "quota"}, of : Clients]
          \cup [kind : {"expiring"}, of : Endings] \cup [kind : {"billing"}, of : Providers]

Down == [state |-> "down", busy |-> FALSE, stopAt |-> 0]
NoThread == [state |-> "none", at |-> 0]
Closed == [now |-> 0, todo |-> {}, step |-> "check", on |-> Null]

Times == 0..MaxClock + 1

TypeOK ==
  /\ clock \in 0..MaxClock
  /\ main \in [Workers -> [state : {"down", "running", "stopping", "joining", "exiting"},
                           busy : BOOLEAN, stopAt : Times]]
  /\ beat \in [Workers -> [state : {"none", "waiting", "writing", "stopped"}, at : Times]]
  /\ row \in [Workers -> Times \cup {Null}]
  /\ healthy \in [Workers -> Times \cup {Null}] /\ clean \in [Workers -> BOOLEAN]
  /\ session \in [Workers \cup Pages -> [now : Times, todo : SUBSET Alerts,
                    step : {"check", "insert", "send"}, on : Alerts \cup {Null}]]
  /\ outbox \subseteq [id : 1..MaxRows, alert : Alerts, created : Times,
                       status : {"pending", "sent", "read"}]
  /\ arisen \subseteq Alerts

Init ==
  /\ clock = 0
  /\ main = [w \in Workers |-> Down] /\ beat = [w \in Workers |-> NoThread]
  /\ row = [w \in Workers |-> Null]
  /\ healthy = [w \in Workers |-> Null] /\ clean = [w \in Workers |-> FALSE]
  /\ session = [p \in Workers \cup Pages |-> Closed]
  /\ outbox = {} /\ arisen = {}
  /\ starts = 0 /\ troubles = 0 /\ events = 0

-----------------------------------------------------------------------------
(* The heartbeat thread *)

\* Mutant: the row is written by the main loop, between two items.
MayBeat_BetweenItems(w) == ~main[w].busy

\* The thread waits for nothing but its interval.
MayBeat(w) == TRUE

Stopping(w) == main[w].state \in {"joining", "exiting"}

BeatDue(w) == beat[w].state = "waiting" /\ beat[w].at <= clock /\ MayBeat(w)

\* heartbeat_loop: `now' is read and the transaction of write_heartbeat begins.
BeatBegins(w) ==
  /\ BeatDue(w) /\ ~Stopping(w)
  /\ beat' = [beat EXCEPT ![w] = [state |-> "writing", at |-> clock]]
  /\ UNCHANGED <<clock, main, row, history, session, outbox, arisen, counts>>

Sleeps(w) == beat' = [beat EXCEPT ![w] = [state |-> "waiting", at |-> clock + 1]]

\* write_heartbeat commits its UPSERT.
BeatCommits(w) ==
  /\ beat[w].state = "writing"
  /\ row' = [row EXCEPT ![w] = beat[w].at]
  /\ Sleeps(w)
  /\ UNCHANGED <<clock, main, history, session, outbox, arisen, counts>>

\* Any exception is logged, and the write is tried again at the next beat.
BeatFails(w) ==
  /\ beat[w].state = "writing" /\ troubles < MaxTroubles
  /\ troubles' = troubles + 1
  /\ healthy' = [healthy EXCEPT ![w] = clock + 1]
  /\ Sleeps(w)
  /\ UNCHANGED <<clock, main, row, clean, session, outbox, arisen, starts, events>>

\* stop_event.wait returns TRUE.
BeatStops(w) ==
  /\ beat[w].state = "waiting" /\ Stopping(w)
  /\ beat' = [beat EXCEPT ![w] = [state |-> "stopped", at |-> clock]]
  /\ UNCHANGED <<clock, main, row, history, session, outbox, arisen, counts>>

-----------------------------------------------------------------------------
(* The main thread: run_forever *)

Idle(p) == session[p] = Closed

Start(w) ==
  /\ main[w].state = "down" /\ starts < MaxStarts
  /\ main' = [main EXCEPT ![w] = [Down EXCEPT !.state = "running"]]
  /\ beat' = [beat EXCEPT ![w] = [state |-> "waiting", at |-> clock]]
  /\ healthy' = [healthy EXCEPT ![w] = clock] /\ clean' = [clean EXCEPT ![w] = FALSE]
  /\ starts' = starts + 1
  /\ UNCHANGED <<clock, row, session, outbox, arisen, troubles, events>>

\* An item or a job is claimed; its provider may take long.
Call(w) ==
  /\ main[w].state = "running" /\ ~main[w].busy /\ Idle(w) /\ events < MaxEvents
  /\ main' = [main EXCEPT ![w].busy = TRUE]
  /\ events' = events + 1
  /\ UNCHANGED <<clock, beat, row, history, session, outbox, arisen, starts, troubles>>

\* process_claimed_item, as far as it raises an account out of credit or a quota.
FoundByItems == {alert \in Alerts : alert.kind \in {"billing", "quota"}}

Ends(w) ==
  /\ main[w].busy
  /\ main' = [main EXCEPT ![w].busy = FALSE]
  /\ \E todo \in {{}} \cup {{alert} : alert \in FoundByItems} :
       session' = [session EXCEPT ![w] = IF todo = {} THEN Closed
                                         ELSE [Closed EXCEPT !.now = clock, !.todo = todo]]
  /\ UNCHANGED <<clock, beat, row, history, outbox, arisen, counts>>

\* run_iteration, the part that runs every minute: rows nobody refreshes are deleted, then
\* schedules and budgets are looked at.
Pass(w) ==
  /\ main[w].state = "running" /\ ~main[w].busy /\ Idle(w)
  /\ row' = [x \in Workers |-> IF row[x] # Null /\ row[x] < clock - Retention THEN Null ELSE row[x]]
  /\ session' = [session EXCEPT ![w] = IF arisen = {} THEN Closed
                                       ELSE [Closed EXCEPT !.now = clock, !.todo = arisen]]
  /\ row' # row \/ session' # session
  /\ UNCHANGED <<clock, threads, history, outbox, arisen, counts>>

\* SIGTERM: the current item is finished first.
Terminate(w) ==
  /\ main[w].state = "running"
  /\ main' = [main EXCEPT ![w].state = "stopping"]
  /\ UNCHANGED <<clock, beat, row, history, session, outbox, arisen, counts>>

LoopEnds(w) ==
  /\ main[w].state = "stopping" /\ ~main[w].busy /\ Idle(w)
  /\ main' = [main EXCEPT ![w].state = "joining", ![w].stopAt = clock]
  /\ UNCHANGED <<clock, beat, row, history, session, outbox, arisen, counts>>

\* Mutant: the row is deleted before the thread has ended.
Joined_NotAwaited(w) == TRUE

\* heartbeat_thread.join(timeout)
Joined(w) == beat[w].state = "stopped" \/ clock >= main[w].stopAt + JoinTimeout

\* deregister_heartbeat
Deregister(w) ==
  /\ main[w].state = "joining" /\ Joined(w)
  /\ row' = [row EXCEPT ![w] = Null]
  /\ main' = [main EXCEPT ![w].state = "exiting"]
  /\ UNCHANGED <<clock, beat, history, session, outbox, arisen, counts>>

\* The process is gone, a daemon thread that still runs with it.
Exits(w, cleanly) ==
  /\ main' = [main EXCEPT ![w] = Down] /\ beat' = [beat EXCEPT ![w] = NoThread]
  /\ session' = [session EXCEPT ![w] = Closed]
  /\ healthy' = [healthy EXCEPT ![w] = Null] /\ clean' = [clean EXCEPT ![w] = cleanly]
  /\ UNCHANGED <<clock, row, outbox, arisen, starts, events>>

Exit(w) == main[w].state = "exiting" /\ Exits(w, TRUE) /\ UNCHANGED troubles

\* SIGKILL, out of memory, or an exception that leaves run_forever.
Kill(w) ==
  /\ main[w].state # "down" /\ troubles < MaxTroubles
  /\ troubles' = troubles + 1
  /\ Exits(w, FALSE)

-----------------------------------------------------------------------------
(* /schedules *)

\* worker_statuses
Stale(w) == row[w] # Null /\ clock - row[w] > StaleAfter

\* _worker_panel_rows
View(p) ==
  /\ Idle(p) /\ \E w \in Workers : Stale(w)
  /\ session' = [session EXCEPT ![p] =
       [Closed EXCEPT !.now = clock, !.todo = {Alert("stale", w) : w \in {w \in Workers : Stale(w)}}]]
  /\ UNCHANGED <<clock, threads, row, history, outbox, arisen, counts>>

\* mark_notifications_read
MarkRead ==
  /\ \E n \in outbox : n.status = "sent"
  /\ outbox' = {IF n.status = "sent" THEN [n EXCEPT !.status = "read"] ELSE n : n \in outbox}
  /\ UNCHANGED <<clock, threads, row, history, session, arisen, counts>>

-----------------------------------------------------------------------------
(* notify and its cooldowns *)

MonthStart(t) == (t \div Month) * Month
DayStart(t) == (t \div Day) * Day

\* Mutant: a budget that was ever exceeded is not reported again.
Since_Ever(kind, now) ==
  CASE kind = "stale" -> now - Cooldown
    [] kind = "billing" -> now - BillingCooldown
    [] kind = "quota" -> DayStart(now)
    [] kind \in {"budget", "expiring"} -> 0

Since(kind, now) ==
  CASE kind = "stale" -> now - Cooldown
    [] kind = "billing" -> now - BillingCooldown
    [] kind = "quota" -> DayStart(now)
    [] kind = "budget" -> MonthStart(now)
    [] kind = "expiring" -> 0

\* Mutant: only a notification that nobody has read yet counts.
AlreadyNotified_Unread(alert, now) ==
  \E n \in outbox : n.alert = alert /\ n.created >= Since(alert.kind, now) /\ n.status = "sent"

\* _already_notified, whatever the status of the row.
AlreadyNotified(alert, now) ==
  \E n \in outbox : n.alert = alert /\ n.created >= Since(alert.kind, now)

\* Check, and decide.
Check(p, alert) ==
  /\ session[p].step = "check" /\ alert \in session[p].todo
  /\ session' = [session EXCEPT ![p] =
       LET left == session[p].todo \ {alert} IN
       CASE ~AlreadyNotified(alert, session[p].now) ->
              [@ EXCEPT !.todo = left, !.step = "insert", !.on = alert]
         [] AlreadyNotified(alert, session[p].now) /\ left # {} -> [@ EXCEPT !.todo = left]
         [] OTHER -> Closed]
  /\ UNCHANGED <<clock, threads, row, history, outbox, arisen, counts>>

\* notify: the row is committed as pending.
Insert(p) ==
  /\ session[p].step = "insert" /\ Cardinality(outbox) < MaxRows
  /\ outbox' = outbox \cup {[id |-> Cardinality(outbox) + 1, alert |-> session[p].on,
                             created |-> session[p].now, status |-> "pending"]}
  /\ session' = [session EXCEPT ![p].step = "send"]
  /\ UNCHANGED <<clock, threads, row, history, arisen, counts>>

\* InAppChannel.send, and the second commit.
Send(p) ==
  /\ session[p].step = "send"
  /\ outbox' = {IF n.alert = session[p].on /\ n.status = "pending" /\ n.created = session[p].now
                THEN [n EXCEPT !.status = "sent"] ELSE n : n \in outbox}
  /\ session' = [session EXCEPT ![p] = IF @.todo = {} THEN Closed
                                       ELSE [@ EXCEPT !.step = "check", !.on = Null]]
  /\ UNCHANGED <<clock, threads, row, history, arisen, counts>>

Raises(p) == (\E alert \in session[p].todo : Check(p, alert)) \/ Insert(p) \/ Send(p)

-----------------------------------------------------------------------------
(* What happens around them *)

\* Runs are charged until a client's budget is spent; the days go by until a schedule is
\* near its end.
Arises(alert) ==
  /\ alert.kind \in {"budget", "expiring"} /\ alert \notin arisen /\ events < MaxEvents
  /\ arisen' = arisen \cup {alert}
  /\ events' = events + 1
  /\ UNCHANGED <<clock, threads, row, history, session, outbox, starts, troubles>>

\* An editor gives a schedule a later end.
Extend(alert) ==
  /\ alert.kind = "expiring" /\ alert \in arisen /\ events < MaxEvents
  /\ arisen' = arisen \ {alert}
  /\ events' = events + 1
  /\ UNCHANGED <<clock, threads, row, history, session, outbox, starts, troubles>>

\* Timers and a shutdown are prompt; a page and what a session raises take less than an
\* interval.
Tick ==
  /\ clock < MaxClock
  /\ \A w \in Workers :
       /\ ~BeatDue(w)
       /\ Stopping(w) => beat[w].state = "writing" /\ ~Joined(w)
       /\ beat[w].state = "writing" => clock < beat[w].at + MaxWrite
  /\ \A p \in Pages \cup Workers : Idle(p)
  /\ clock' = clock + 1
  /\ arisen' = IF MonthStart(clock') = MonthStart(clock) THEN arisen
               ELSE {alert \in arisen : alert.kind # "budget"}
  /\ UNCHANGED <<threads, row, history, session, outbox, counts>>

Beats(w) == BeatBegins(w) \/ BeatCommits(w) \/ BeatFails(w) \/ BeatStops(w)
Works(w) == Call(w) \/ Ends(w) \/ Pass(w) \/ LoopEnds(w) \/ Deregister(w) \/ Exit(w)

Next ==
  \/ Tick \/ MarkRead
  \/ \E w \in Workers : Start(w) \/ Terminate(w) \/ Kill(w) \/ Beats(w) \/ Works(w)
  \/ \E p \in Pages : View(p)
  \/ \E p \in Workers \cup Pages : Raises(p)
  \/ \E alert \in Alerts : Arises(alert) \/ Extend(alert)

Spec == Init /\ [][Next]_vars

\* A worker's main thread goes on: its calls end, and so do its sessions, and then there is
\* a pass.  Time may stand still.
FairSpec == Spec /\ \A w \in Workers : WF_vars(Pass(w) \/ Ends(w) \/ Raises(w))

-----------------------------------------------------------------------------
(* Properties *)

\* A process whose heartbeats succeed is not reported dead, however long the item it works
\* on takes ("a provider call can take 70+ s", worker.py:497-500).
NoFalseAlarm ==
  [][\A n \in outbox' \ outbox : \A w \in Workers :
       n.alert = Alert("stale", w) /\ n.status = "pending" /\ healthy[w] # Null
         => n.created - healthy[w] <= StaleAfter]_vars

\* A clean shutdown leaves no row behind that would go stale later: the thread cannot
\* "re-insert the row we are about to delete" (worker.py:594-595).
CleanStopsAreQuiet ==
  \A w \in Workers : main[w].state = "down" /\ clean[w] => row[w] = Null

\* Within a cooldown an alert is raised at most once by each session that can be at it,
\* whatever was read, killed or left pending meanwhile.
AlertsAreSpaced ==
  \A alert \in Alerts : \A t \in 0..clock :
    Cardinality({n \in outbox : n.alert = alert /\ n.created >= Since(alert.kind, t) /\ n.created <= t})
      <= Cardinality(IF alert.kind = "stale" THEN Pages ELSE Workers)

ToldThisMonth(alert) == \E n \in outbox : n.alert = alert /\ n.created >= MonthStart(clock)
Working == \E w \in Workers : main[w].state = "running"

\* A spent budget is reported in each month it is spent in, if a worker goes on working:
\* "a client that crosses again next month is meant to be notified again"
\* (notifications.py:162-163).
BudgetIsReported ==
  \A c \in Clients :
    Alert("budget", c) \in arisen
      ~> \/ ToldThisMonth(Alert("budget", c)) \/ Alert("budget", c) \notin arisen
         \/ ~Working \/ Cardinality(outbox) = MaxRows
=============================================================================

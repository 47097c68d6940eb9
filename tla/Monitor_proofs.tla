---------------------------- MODULE Monitor_proofs ----------------------------
(***************************************************************************)
(* What holds of heartbeats, their rows and the alerts raised from them    *)
(* for every number of workers and pages, whatever the clock, the failures *)
(* and the kills: the types, that a clean stop leaves no row behind, that  *)
(* nobody who beats is reported dead, and that cooldowns are kept.         *)
(***************************************************************************)
EXTENDS Monitor, FiniteSetTheorems, TLAPS

MainStates == {"down", "running", "stopping", "joining", "exiting"}
BeatStates == {"none", "waiting", "writing", "stopped"}

ThreadsOK ==
  /\ clock \in 0..MaxClock
  /\ main \in [Workers -> [state : MainStates, busy : BOOLEAN, stopAt : Times]]
  /\ beat \in [Workers -> [state : BeatStates, at : Times]]
  /\ row \in [Workers -> Times \cup {Null}]
  /\ healthy \in [Workers -> Times \cup {Null}] /\ clean \in [Workers -> BOOLEAN]

\* A process that is down has no thread.  While the main thread waits for the other one,
\* no more time goes by than the write that was under way takes; so the thread has ended
\* when the row is deleted, and nobody writes it again.
StopOK(w) ==
  /\ main[w].state = "down" => beat[w].state = "none"
  /\ beat[w].state = "writing" => beat[w].at <= clock
  /\ main[w].state = "joining" =>
       /\ clock <= main[w].stopAt + MaxWrite
       /\ beat[w].state = "writing" => beat[w].at <= main[w].stopAt
  /\ main[w].state = "exiting" => beat[w].state = "stopped" /\ row[w] = Null
  /\ main[w].state = "down" /\ clean[w] => row[w] = Null

StopInv == ThreadsOK /\ \A w \in Workers : StopOK(w)

LEMMA BoundsTyped ==
  /\ MaxClock \in Nat /\ MaxWrite \in Nat /\ JoinTimeout \in Nat /\ Retention \in Nat
  /\ MaxWrite < JoinTimeout
BY TimesAreNaturals, WritesAreShort

LEMMA ClockIsTime == ASSUME clock \in 0..MaxClock PROVE clock \in Times /\ clock + 1 \in Times
BY BoundsTyped DEF Times

-----------------------------------------------------------------------------
(* The heartbeat thread *)

LEMMA BeatsKeepStopInv ==
  ASSUME StopInv, NEW w \in Workers, Beats(w)
  PROVE  StopInv'
<1>0. clock \in Times /\ clock + 1 \in Times
  BY ClockIsTime DEF StopInv, ThreadsOK
<1> USE <1>0, BoundsTyped DEF StopInv, ThreadsOK, Times, BeatStates, MainStates, threads, history
<1>1. CASE BeatBegins(w)
  <2>1. ThreadsOK'
    BY <1>1 DEF BeatBegins
  <2>2. ASSUME NEW x \in Workers PROVE StopOK(x)'
    BY <1>1, <2>2 DEF BeatBegins, BeatDue, Stopping, StopOK
  <2> QED
    BY <2>1, <2>2
<1>2. CASE BeatCommits(w)
  <2>1. ThreadsOK'
    BY <1>2 DEF BeatCommits, Sleeps
  <2>2. ASSUME NEW x \in Workers PROVE StopOK(x)'
    BY <1>2, <2>2 DEF BeatCommits, Sleeps, StopOK
  <2> QED
    BY <2>1, <2>2
<1>3. CASE BeatFails(w)
  <2>1. ThreadsOK'
    BY <1>3 DEF BeatFails, Sleeps
  <2>2. ASSUME NEW x \in Workers PROVE StopOK(x)'
    BY <1>3, <2>2 DEF BeatFails, Sleeps, StopOK
  <2> QED
    BY <2>1, <2>2
<1>4. CASE BeatStops(w)
  <2>1. ThreadsOK'
    BY <1>4 DEF BeatStops
  <2>2. ASSUME NEW x \in Workers PROVE StopOK(x)'
    BY <1>4, <2>2 DEF BeatStops, StopOK
  <2> QED
    BY <2>1, <2>2
<1> QED
  BY <1>1, <1>2, <1>3, <1>4 DEF Beats

-----------------------------------------------------------------------------
(* The main thread *)

LEMMA ExitsKeepStopInv ==
  ASSUME StopInv, NEW w \in Workers, NEW cleanly \in BOOLEAN, Exits(w, cleanly),
         cleanly => row[w] = Null
  PROVE  StopInv'
<1> USE BoundsTyped DEF StopInv, ThreadsOK, Times, BeatStates, MainStates, threads, history
<1>1. ThreadsOK'
  BY DEF Exits, Down, NoThread
<1>2. ASSUME NEW x \in Workers PROVE StopOK(x)'
  BY <1>2 DEF Exits, Down, NoThread, StopOK
<1> QED
  BY <1>1, <1>2

LEMMA MainKeepsStopInv ==
  ASSUME StopInv, NEW w \in Workers, Start(w) \/ Terminate(w) \/ Kill(w) \/ Works(w)
  PROVE  StopInv'
<1>0. clock \in Times /\ clock + 1 \in Times
  BY ClockIsTime DEF StopInv, ThreadsOK
<1>k. CASE Kill(w)
  BY <1>k, ExitsKeepStopInv DEF Kill
<1>x. CASE Exit(w)
  BY <1>x, ExitsKeepStopInv DEF Exit, StopInv, StopOK
<1> USE <1>0, BoundsTyped DEF StopInv, ThreadsOK, Times, BeatStates, MainStates, threads, history
<1>1. CASE Start(w)
  <2>0. main' \in [Workers -> [state : MainStates, busy : BOOLEAN, stopAt : Times]]
    <3>1. Down \in [state : MainStates, busy : BOOLEAN, stopAt : Times]
      BY DEF Down
    <3>2. [Down EXCEPT !.state = "running"] \in [state : MainStates, busy : BOOLEAN, stopAt : Times]
      BY <3>1
    <3> QED
      BY <1>1, <3>2 DEF Start
  <2>1. ThreadsOK'
    BY <1>1, <2>0 DEF Start, Down
  <2>2. ASSUME NEW x \in Workers PROVE StopOK(x)'
    BY <1>1, <2>2 DEF Start, Down, StopOK
  <2> QED
    BY <2>1, <2>2
<1>2. CASE Terminate(w)
  <2>1. ThreadsOK'
    BY <1>2 DEF Terminate
  <2>2. ASSUME NEW x \in Workers PROVE StopOK(x)'
    BY <1>2, <2>2 DEF Terminate, StopOK
  <2> QED
    BY <2>1, <2>2
<1>3. CASE Call(w)
  <2>1. ThreadsOK'
    BY <1>3 DEF Call
  <2>2. ASSUME NEW x \in Workers PROVE StopOK(x)'
    BY <1>3, <2>2 DEF Call, StopOK
  <2> QED
    BY <2>1, <2>2
<1>4. CASE Ends(w)
  <2>0. main' \in [Workers -> [state : MainStates, busy : BOOLEAN, stopAt : Times]]
    <3>1. main' = [main EXCEPT ![w] = [main[w] EXCEPT !.busy = FALSE]]
      BY <1>4 DEF Ends
    <3> QED
      BY <3>1
  <2>1. ThreadsOK'
    BY <1>4, <2>0 DEF Ends
  <2>2. ASSUME NEW x \in Workers PROVE StopOK(x)'
    BY <1>4, <2>2 DEF Ends, StopOK
  <2> QED
    BY <2>1, <2>2
<1>5. CASE Pass(w)
  <2>1. ThreadsOK' /\ \A x \in Workers : row'[x] \in {row[x], Null}
    BY <1>5 DEF Pass, threads, history
  <2>2. ASSUME NEW x \in Workers PROVE StopOK(x)'
    BY <1>5, <2>1, <2>2 DEF Pass, threads, history, StopOK
  <2> QED
    BY <2>1, <2>2
<1>6. CASE LoopEnds(w)
  <2>0. main' \in [Workers -> [state : MainStates, busy : BOOLEAN, stopAt : Times]]
    <3>1. main' = [main EXCEPT ![w] = [main[w] EXCEPT !.state = "joining", !.stopAt = clock]]
      BY <1>6 DEF LoopEnds
    <3> QED
      BY <3>1
  <2>1. ThreadsOK'
    BY <1>6, <2>0 DEF LoopEnds
  <2>2. ASSUME NEW x \in Workers PROVE StopOK(x)'
    BY <1>6, <2>2 DEF LoopEnds, StopOK
  <2> QED
    BY <2>1, <2>2
<1>7. CASE Deregister(w)
  <2>1. ThreadsOK'
    BY <1>7 DEF Deregister
  <2>2. beat[w].state = "stopped"
    BY <1>7 DEF Deregister, Joined, StopOK
  <2>3. ASSUME NEW x \in Workers PROVE StopOK(x)'
    BY <1>7, <2>2, <2>3 DEF Deregister, StopOK
  <2> QED
    BY <2>1, <2>3
<1> QED
  BY <1>k, <1>x, <1>1, <1>2, <1>3, <1>4, <1>5, <1>6, <1>7 DEF Works

-----------------------------------------------------------------------------
(* Time, and everything that has nothing to do with heartbeats *)

LEMMA TickKeepsStopInv == ASSUME StopInv, Tick PROVE StopInv'
<1> USE BoundsTyped DEF StopInv, ThreadsOK, Times, BeatStates, MainStates, threads, history
<1>1. ThreadsOK'
  BY DEF Tick, threads, history
<1>2. ASSUME NEW x \in Workers PROVE StopOK(x)'
  <2>1. /\ clock' = clock + 1 /\ UNCHANGED <<main, beat, row, clean>>
        /\ Stopping(x) => beat[x].state = "writing" /\ ~Joined(x)
        /\ beat[x].state = "writing" => clock < beat[x].at + MaxWrite
    BY <1>2 DEF Tick, threads, history
  <2> QED
    BY <1>2, <2>1 DEF Stopping, Joined, StopOK
<1> QED
  BY <1>1, <1>2

LEMMA OthersKeepStopInv ==
  ASSUME StopInv, UNCHANGED <<clock, main, beat, row, healthy, clean>>
  PROVE  StopInv'
BY DEF StopInv, ThreadsOK, StopOK

LEMMA NextKeepsStopInv == StopInv /\ [Next]_vars => StopInv'
<1> SUFFICES ASSUME StopInv, [Next]_vars PROVE StopInv'
  OBVIOUS
<1>1. CASE Tick
  BY <1>1, TickKeepsStopInv
<1>2. CASE \E w \in Workers : Start(w) \/ Terminate(w) \/ Kill(w) \/ Beats(w) \/ Works(w)
  BY <1>2, BeatsKeepStopInv, MainKeepsStopInv
<1>3. CASE UNCHANGED <<clock, main, beat, row, healthy, clean>>
  BY <1>3, OthersKeepStopInv
<1>4. CASE MarkRead \/ (\E p \in Pages : View(p)) \/ \E alert \in Alerts : Arises(alert) \/ Extend(alert)
  BY <1>3, <1>4 DEF MarkRead, View, Arises, Extend, threads, history
<1>5. CASE \E p \in Workers \cup Pages : Raises(p)
  BY <1>3, <1>5 DEF Raises, Check, Insert, Send, threads, history
<1>6. CASE UNCHANGED vars
  BY <1>3, <1>6 DEF vars
<1> QED
  BY <1>1, <1>2, <1>4, <1>5, <1>6 DEF Next

LEMMA InitStopInv == Init => StopInv
BY BoundsTyped DEF Init, StopInv, ThreadsOK, StopOK, Times, BeatStates, MainStates, Down, NoThread

-----------------------------------------------------------------------------
(* Sessions and the outbox *)

SessionType == [now : Times, todo : SUBSET Alerts, step : {"check", "insert", "send"},
                on : Alerts \cup {Null}]
RowType == [id : 1..MaxRows, alert : Alerts, created : Times, status : {"pending", "sent", "read"}]

\* A session that is about to insert has an alert in hand; the outbox is numbered, so it
\* has to be finite.
AlertsOK ==
  /\ clock \in 0..MaxClock
  /\ session \in [Workers \cup Pages -> SessionType]
  /\ \A p \in Workers \cup Pages : session[p].step = "insert" => session[p].on \in Alerts
  /\ outbox \subseteq RowType /\ IsFiniteSet(outbox)
  /\ arisen \subseteq Alerts

LEMMA ImageIsFinite ==
  ASSUME IsFiniteSet(outbox), NEW f, f = [n \in outbox |-> f[n]]
  PROVE  IsFiniteSet({f[n] : n \in outbox})
<1> DEFINE T == {f[n] : n \in outbox}
<1>1. f \in Surjection(outbox, T)
  BY DEF Surjection
<1> HIDE DEF T
<1>2. IsFiniteSet(T)
  BY <1>1, FS_Surjection
<1> QED
  BY <1>2 DEF T

LEMMA ClosedIsSession == Closed \in SessionType /\ Closed.step # "insert"
BY BoundsTyped DEF Closed, SessionType, Times

LEMMA SessionsKeepAlertsOK ==
  ASSUME AlertsOK, NEW p \in Workers \cup Pages, Raises(p)
  PROVE  AlertsOK'
<1> USE DEF AlertsOK
<1>1. ASSUME NEW alert \in session[p].todo, Check(p, alert) PROVE AlertsOK'
  <2> DEFINE left == session[p].todo \ {alert}
  <2>1. alert \in Alerts /\ left \subseteq Alerts /\ session[p] \in SessionType
    BY <1>1 DEF SessionType
  <2>2. session' \in {[session EXCEPT ![p] = [@ EXCEPT !.todo = left, !.step = "insert", !.on = alert]],
                      [session EXCEPT ![p] = [@ EXCEPT !.todo = left]],
                      [session EXCEPT ![p] = Closed]}
    BY <1>1 DEF Check
  <2>3. Closed \in SessionType /\ Closed.step # "insert"
    BY ClosedIsSession
  <2>4. session' \in [Workers \cup Pages -> SessionType]
    <3>1. CASE session' = [session EXCEPT ![p] = [session[p] EXCEPT !.todo = left, !.step = "insert",
                                                                   !.on = alert]]
      BY <2>1, <3>1 DEF SessionType
    <3>2. CASE session' = [session EXCEPT ![p] = [session[p] EXCEPT !.todo = left]]
      BY <2>1, <3>2 DEF SessionType
    <3>3. CASE session' = [session EXCEPT ![p] = Closed]
      BY <2>3, <3>3
    <3> QED
      BY <2>2, <3>1, <3>2, <3>3
  <2>5. \A q \in Workers \cup Pages : session'[q].step = "insert" => session'[q].on \in Alerts
    BY <1>1, <2>1, <2>2, <2>3 DEF Check, SessionType
  <2> QED
    BY <1>1, <2>4, <2>5 DEF Check
<1>2. CASE Insert(p)
  <2> DEFINE n == [id |-> Cardinality(outbox) + 1, alert |-> session[p].on,
                   created |-> session[p].now, status |-> "pending"]
  <2>1. Cardinality(outbox) \in Nat /\ MaxRows \in Nat
    BY FS_CardinalityType, TimesAreNaturals
  <2>2. Cardinality(outbox) + 1 \in 1..MaxRows /\ session[p].on \in Alerts /\ session[p].now \in Times
    BY <1>2, <2>1 DEF Insert, SessionType
  <2>3. n \in RowType
    BY <2>2 DEF RowType
  <2>4. outbox' = outbox \cup {n}
    BY <1>2 DEF Insert
  <2>5. outbox' \subseteq RowType /\ IsFiniteSet(outbox')
    <3> HIDE DEF n
    <3> QED
      BY <2>3, <2>4, FS_AddElement
  <2>6. session' = [session EXCEPT ![p] = [session[p] EXCEPT !.step = "send"]]
    BY <1>2 DEF Insert
  <2>7. /\ session' \in [Workers \cup Pages -> SessionType]
        /\ \A q \in Workers \cup Pages : session'[q].step = "insert" => session'[q].on \in Alerts
    BY <2>6 DEF SessionType
  <2> QED
    BY <1>2, <2>5, <2>7 DEF Insert
<1>3. CASE Send(p)
  <2> DEFINE f == [n \in outbox |->
                     IF n.alert = session[p].on /\ n.status = "pending" /\ n.created = session[p].now
                     THEN [n EXCEPT !.status = "sent"] ELSE n]
  <2>1. outbox' = {f[n] : n \in outbox}
    BY <1>3 DEF Send
  <2>2. outbox' \subseteq RowType
    BY <1>3 DEF Send, RowType
  <2>3. IsFiniteSet(outbox')
    <3>1. f = [n \in outbox |-> f[n]]
      OBVIOUS
    <3> HIDE DEF f
    <3> QED
      BY <2>1, <3>1, ImageIsFinite
  <2>4. session' \in {[session EXCEPT ![p] = Closed],
                      [session EXCEPT ![p] = [@ EXCEPT !.step = "check", !.on = Null]]}
    BY <1>3 DEF Send
  <2>5. Closed \in SessionType /\ Closed.step # "insert"
    BY ClosedIsSession
  <2>6. /\ session' \in [Workers \cup Pages -> SessionType]
        /\ \A q \in Workers \cup Pages : session'[q].step = "insert" => session'[q].on \in Alerts
    <3>1. CASE session' = [session EXCEPT ![p] = Closed]
      BY <2>5, <3>1
    <3>2. CASE session' = [session EXCEPT ![p] = [session[p] EXCEPT !.step = "check", !.on = Null]]
      BY <3>2 DEF SessionType
    <3> QED
      BY <2>4, <3>1, <3>2
  <2> QED
    BY <1>3, <2>2, <2>3, <2>6 DEF Send
<1> QED
  BY <1>1, <1>2, <1>3 DEF Raises

\* A worker or a page begins a session with alerts to look at, or ends.
LEMMA BeginsKeepAlertsOK ==
  ASSUME AlertsOK, NEW p \in Workers \cup Pages, NEW now \in Times, NEW todo \in SUBSET Alerts,
         session' \in {session, [session EXCEPT ![p] = Closed],
                       [session EXCEPT ![p] = [Closed EXCEPT !.now = now, !.todo = todo]]},
         UNCHANGED <<clock, outbox, arisen>>
  PROVE  AlertsOK'
<1> DEFINE begun == [Closed EXCEPT !.now = now, !.todo = todo]
<1>1. Closed \in SessionType /\ Closed.step # "insert"
  BY ClosedIsSession
<1>2. begun \in SessionType /\ begun.step # "insert"
  BY <1>1 DEF SessionType
<1> HIDE DEF begun
<1> QED
  BY <1>1, <1>2 DEF AlertsOK, begun

LEMMA NextKeepsAlertsOK == AlertsOK /\ [Next]_vars => AlertsOK'
<1> SUFFICES ASSUME AlertsOK, [Next]_vars PROVE AlertsOK'
  OBVIOUS
<1>0. clock \in Times
  BY ClockIsTime DEF AlertsOK
<1>1. CASE Tick
  <2>1. clock' \in 0..MaxClock
    BY <1>1, BoundsTyped DEF Tick, AlertsOK
  <2> QED
    BY <1>1, <2>1 DEF Tick, AlertsOK
<1>2. CASE MarkRead
  <2> DEFINE f == [n \in outbox |-> IF n.status = "sent" THEN [n EXCEPT !.status = "read"] ELSE n]
  <2>1. outbox' = {f[n] : n \in outbox}
    BY <1>2 DEF MarkRead
  <2>2. outbox' \subseteq RowType
    BY <1>2 DEF MarkRead, AlertsOK, RowType
  <2>3. IsFiniteSet(outbox')
    <3>1. f = [n \in outbox |-> f[n]]
      OBVIOUS
    <3> HIDE DEF f
    <3> QED
      BY <2>1, <3>1, ImageIsFinite DEF AlertsOK
  <2> QED
    BY <1>2, <2>2, <2>3 DEF MarkRead, AlertsOK
<1>3. ASSUME NEW w \in Workers, Kill(w) \/ Exit(w) PROVE AlertsOK'
  BY <1>0, <1>3, BeginsKeepAlertsOK DEF Kill, Exit, Exits
<1>4. ASSUME NEW w \in Workers, Ends(w) PROVE AlertsOK'
  <2>1. PICK todo \in {{}} \cup {{alert} : alert \in FoundByItems} :
          session' = [session EXCEPT ![w] = IF todo = {} THEN Closed
                                            ELSE [Closed EXCEPT !.now = clock, !.todo = todo]]
    BY <1>4 DEF Ends
  <2>2. todo \in SUBSET Alerts
    BY DEF FoundByItems
  <2> QED
    BY <1>0, <1>4, <2>1, <2>2, BeginsKeepAlertsOK DEF Ends
<1>5. ASSUME NEW w \in Workers, Pass(w) PROVE AlertsOK'
  BY <1>0, <1>5, BeginsKeepAlertsOK DEF Pass, AlertsOK
<1>6. ASSUME NEW p \in Pages, View(p) PROVE AlertsOK'
  <2> DEFINE todo == {Alert("stale", w) : w \in {w \in Workers : Stale(w)}}
  <2>1. todo \in SUBSET Alerts
    BY DEF Alerts, Alert
  <2> HIDE DEF todo
  <2> QED
    BY <1>0, <1>6, <2>1, BeginsKeepAlertsOK DEF View, todo
<1>7. ASSUME NEW alert \in Alerts, Arises(alert) \/ Extend(alert) PROVE AlertsOK'
  BY <1>7 DEF Arises, Extend, AlertsOK
<1>8. ASSUME NEW p \in Workers \cup Pages, Raises(p) PROVE AlertsOK'
  BY <1>8, SessionsKeepAlertsOK
<1>9. CASE UNCHANGED <<clock, session, outbox, arisen>>
  BY <1>9 DEF AlertsOK
<1>10. ASSUME NEW w \in Workers,
              Start(w) \/ Terminate(w) \/ Beats(w) \/ Call(w) \/ LoopEnds(w) \/ Deregister(w)
       PROVE  AlertsOK'
  BY <1>9, <1>10 DEF Start, Terminate, Beats, BeatBegins, BeatCommits, BeatFails, BeatStops, Call,
     LoopEnds, Deregister
<1>11. CASE UNCHANGED vars
  BY <1>9, <1>11 DEF vars
<1> QED
  BY <1>1, <1>2, <1>3, <1>4, <1>5, <1>6, <1>7, <1>8, <1>10, <1>11 DEF Next, Works

LEMMA InitAlertsOK == Init => AlertsOK
BY BoundsTyped, FS_EmptySet DEF Init, AlertsOK, SessionType, Closed, Times

-----------------------------------------------------------------------------
(* Calendar days and months *)

LEMMA TimesGrow ==
  ASSUME NEW a \in Nat, NEW b \in Nat, NEW d \in Nat \ {0}, a < b
  PROVE  a * d + d <= b * d
<1>1. PICK k \in Nat : b = a + 1 + k
  <2>1. b - a - 1 \in Nat /\ b = a + 1 + (b - a - 1)
    OBVIOUS
  <2> QED
    BY <2>1
<1>2. (a + 1 + k) * d = a * d + d + k * d
  OBVIOUS
<1>3. k * d \in Nat /\ a * d \in Nat
  OBVIOUS
<1> QED
  BY <1>1, <1>2, <1>3

\* A day or a month begins before each of its times, and a later one does not begin earlier.
LEMMA StartsGrow ==
  ASSUME NEW d \in Nat \ {0}, NEW u \in Nat, NEW t \in Nat, u <= t
  PROVE  /\ (u \div d) * d \in Nat /\ (u \div d) * d <= u
         /\ (u \div d) * d <= (t \div d) * d
<1>1. /\ u \div d \in Nat /\ u % d \in Nat /\ u % d < d /\ u = d * (u \div d) + (u % d)
      /\ t \div d \in Nat /\ t % d \in Nat /\ t % d < d /\ t = d * (t \div d) + (t % d)
  OBVIOUS
<1> DEFINE a == u \div d
           b == t \div d
<1>2. /\ a \in Nat /\ b \in Nat /\ u % d \in Nat /\ u % d < d /\ u = a * d + (u % d)
      /\ t % d \in Nat /\ t % d < d /\ t = b * d + (t % d)
  BY <1>1
<1> HIDE DEF a, b
<1>3. a * d \in Nat /\ b * d \in Nat
  BY <1>2
<1>4. a * d <= b * d
  <2>1. CASE b < a
    <3>1. b * d + d <= a * d
      BY <1>2, <2>1, TimesGrow
    <3> QED
      BY <1>2, <1>3, <3>1
  <2>2. CASE a < b
    <3>1. a * d + d <= b * d
      BY <1>2, <2>2, TimesGrow
    <3> QED
      BY <1>3, <3>1
  <2>3. CASE a = b
    BY <1>3, <2>3
  <2> QED
    BY <1>2, <2>1, <2>2, <2>3
<1>5. a * d <= u
  BY <1>2, <1>3
<1> QED
  BY <1>3, <1>4, <1>5 DEF a, b

\* A cooldown looks back, and never further back as time goes on.
LEMMA SinceGrows ==
  ASSUME NEW alert \in Alerts, NEW u \in Times, NEW t \in Times, u <= t
  PROVE  /\ Since(alert.kind, u) \in Int /\ Since(alert.kind, t) \in Int
         /\ Since(alert.kind, u) <= Since(alert.kind, t) /\ Since(alert.kind, u) <= u
<1>1. alert.kind \in {"stale", "budget", "quota", "expiring", "billing"}
  BY DEF Alerts
<1>2. u \in Nat /\ t \in Nat /\ Cooldown \in Nat /\ BillingCooldown \in Nat
      /\ Day \in Nat \ {0} /\ Month \in Nat \ {0}
  BY TimesAreNaturals DEF Times
<1>3. /\ DayStart(u) \in Nat /\ DayStart(t) \in Nat
      /\ DayStart(u) <= u /\ DayStart(u) <= DayStart(t)
  BY <1>2, StartsGrow DEF DayStart
<1>4. /\ MonthStart(u) \in Nat /\ MonthStart(t) \in Nat
      /\ MonthStart(u) <= u /\ MonthStart(u) <= MonthStart(t)
  BY <1>2, StartsGrow DEF MonthStart
<1> QED
  BY <1>1, <1>2, <1>3, <1>4 DEF Since

-----------------------------------------------------------------------------
(* Cooldowns *)

\* The sessions that can raise an alert: pages report dead workers, workers the rest.
Able(alert) == IF alert.kind = "stale" THEN Pages ELSE Workers

\* What a session is still going to look at or to insert.
InHand(s) == s.todo \cup (IF s.step = "insert" THEN {s.on} ELSE {})

\* No time goes by while a session is open.
SessionsOK ==
  /\ \A alert \in arisen : alert.kind # "stale"
  /\ \A p \in Workers \cup Pages :
       /\ session[p] # Closed => session[p].now = clock
       /\ \A alert \in InHand(session[p]) : p \in Able(alert)

\* The sessions that have found an alert missing and are about to insert it.
About(alert) == {p \in Workers \cup Pages : session[p].step = "insert" /\ session[p].on = alert}

Raised(alert, c) == {n \in outbox : n.alert = alert /\ n.created = c}

\* The rows of one alert are a cooldown apart, but for those of one and the same time, and
\* of these there are no more than sessions that found none of them.
SpacedOK ==
  /\ \A n \in outbox : n.created <= clock
  /\ \A n, m \in outbox : n.alert = m.alert /\ n.created < m.created
       => n.created < Since(n.alert.kind, m.created)
  /\ \A alert \in Alerts :
       /\ \A c \in Times : Cardinality(Raised(alert, c)) <= Cardinality(Able(alert))
       /\ Cardinality(Raised(alert, clock)) + Cardinality(About(alert)) <= Cardinality(Able(alert))
       /\ About(alert) # {} =>
            \A n \in outbox : n.alert = alert /\ n.created < clock
              => n.created < Since(alert.kind, clock)

SpacedInv == AlertsOK /\ SessionsOK /\ SpacedOK

LEMMA ClosedHoldsNothing == InHand(Closed) = {} /\ Closed.step = "check" /\ Closed.todo = {}
BY DEF Closed, InHand

LEMMA SpacedHoldsInitially ==
  ASSUME Init, IsFiniteSet(Workers), IsFiniteSet(Pages)
  PROVE  SpacedInv
<1>1. AlertsOK
  BY InitAlertsOK
<1>2. SessionsOK
  BY ClosedHoldsNothing DEF Init, SessionsOK
<1>3. \A alert : About(alert) = {}
  BY ClosedHoldsNothing DEF Init, About
<1>4. \A alert, c : Raised(alert, c) = {}
  BY DEF Init, Raised
<1>5. \A alert : Cardinality(Able(alert)) \in Nat
  BY FS_CardinalityType DEF Able
<1>6. Cardinality({}) = 0
  BY FS_EmptySet
<1>7. \A alert \in Alerts :
        /\ \A c \in Times : Cardinality(Raised(alert, c)) <= Cardinality(Able(alert))
        /\ Cardinality(Raised(alert, clock)) + Cardinality(About(alert)) <= Cardinality(Able(alert))
  BY <1>3, <1>4, <1>5, <1>6
<1>8. outbox = {}
  BY DEF Init
<1>9. SpacedOK
  BY <1>3, <1>7, <1>8 DEF SpacedOK
<1> QED
  BY <1>1, <1>2, <1>9 DEF SpacedInv

\* A session that begins or ends.
LEMMA BeginsKeepSessions ==
  ASSUME SpacedInv, NEW p \in Workers \cup Pages, NEW s,
         session' = [session EXCEPT ![p] = s], UNCHANGED clock,
         s # Closed => s.now = clock, \A alert \in InHand(s) : p \in Able(alert),
         \A alert \in arisen' : alert.kind # "stale"
  PROVE  SessionsOK'
<1>1. session \in [Workers \cup Pages -> SessionType]
  BY DEF SpacedInv, AlertsOK
<1>2. \A q \in Workers \cup Pages : session'[q] = IF q = p THEN s ELSE session[q]
  BY <1>1
<1>3. \A q \in Workers \cup Pages :
        /\ session'[q] # Closed => session'[q].now = clock
        /\ \A alert \in InHand(session'[q]) : q \in Able(alert)
  BY <1>2 DEF SpacedInv, SessionsOK
<1> QED
  BY <1>3 DEF SessionsOK, Able, InHand, Closed

\* Reading and sending change neither the alert of a row nor its time.
LEMMA RowsKeepTheirTime ==
  ASSUME SpacedInv, AlertsOK', IsFiniteSet(Workers), IsFiniteSet(Pages), clock' = clock,
         NEW f, f = [n \in outbox |-> f[n]], outbox' = {f[n] : n \in outbox},
         \A n \in outbox : f[n].alert = n.alert /\ f[n].created = n.created,
         \A alert \in Alerts : About(alert)' \subseteq About(alert)
  PROVE  SpacedOK'
<1>1. SpacedOK /\ IsFiniteSet(outbox) /\ clock \in Times
  BY ClockIsTime DEF SpacedInv, AlertsOK
<1>2. \A m \in outbox' : \E n \in outbox : m = f[n] /\ m.alert = n.alert /\ m.created = n.created
  OBVIOUS
<1>3. \A m \in outbox' : m.created <= clock'
  BY <1>1, <1>2 DEF SpacedOK
<1>4. \A n, m \in outbox' : n.alert = m.alert /\ n.created < m.created
        => n.created < Since(n.alert.kind, m.created)
  BY <1>1, <1>2 DEF SpacedOK
<1>5. ASSUME NEW alert \in Alerts, NEW c \in Times
      PROVE  /\ Cardinality(Raised(alert, c)') <= Cardinality(Raised(alert, c))
             /\ Cardinality(Raised(alert, c)') \in Nat /\ Cardinality(Raised(alert, c)) \in Nat
  <2> DEFINE A == Raised(alert, c)
             B == {n \in outbox' : n.alert = alert /\ n.created = c}
             g == [n \in A |-> f[n]]
  <2>1. A \subseteq outbox /\ IsFiniteSet(A)
    <3>1. A \subseteq outbox
      BY DEF Raised
    <3> QED
      BY <1>1, <3>1, FS_Subset
  <2>2. \A n \in A : f[n] \in B
    BY DEF Raised
  <2>3. \A m \in B : \E n \in A : m = f[n]
    BY <1>2 DEF Raised
  <2> HIDE DEF A, B
  <2>4. g \in Surjection(A, B)
    BY <2>2, <2>3 DEF Surjection
  <2>5. IsFiniteSet(B) /\ Cardinality(B) <= Cardinality(A)
    BY <2>1, <2>4, FS_Surjection
  <2>6. Cardinality(A) \in Nat /\ Cardinality(B) \in Nat
    BY <2>1, <2>5, FS_CardinalityType
  <2> QED
    BY <2>5, <2>6 DEF A, B, Raised
<1>6. ASSUME NEW alert \in Alerts
      PROVE  /\ Cardinality(About(alert)') <= Cardinality(About(alert))
             /\ Cardinality(About(alert)') \in Nat /\ Cardinality(About(alert)) \in Nat
  <2>1. IsFiniteSet(Workers \cup Pages)
    BY FS_Union
  <2>2. About(alert) \subseteq Workers \cup Pages
    BY DEF About
  <2>3. IsFiniteSet(About(alert))
    BY <2>1, <2>2, FS_Subset
  <2> QED
    BY <2>3, FS_Subset, FS_CardinalityType
<1>7. \A alert : Able(alert)' = Able(alert) /\ Cardinality(Able(alert)) \in Nat
  BY FS_CardinalityType DEF Able
<1>8. ASSUME NEW alert \in Alerts
      PROVE  /\ \A c \in Times : Cardinality(Raised(alert, c)') <= Cardinality(Able(alert))
             /\ Cardinality(Raised(alert, clock)') + Cardinality(About(alert)')
                  <= Cardinality(Able(alert))
             /\ About(alert)' # {} => \A n \in outbox' : n.alert = alert /\ n.created < clock
                  => n.created < Since(alert.kind, clock)
  <2>1. /\ \A c \in Times : Cardinality(Raised(alert, c)) <= Cardinality(Able(alert))
        /\ Cardinality(Raised(alert, clock)) + Cardinality(About(alert)) <= Cardinality(Able(alert))
        /\ About(alert) # {} => \A n \in outbox : n.alert = alert /\ n.created < clock
             => n.created < Since(alert.kind, clock)
    BY <1>1, <1>8 DEF SpacedOK
  <2>2. \A c \in Times : Cardinality(Raised(alert, c)') <= Cardinality(Able(alert))
    BY <1>5, <1>7, <2>1
  <2>3. Cardinality(Raised(alert, clock)') + Cardinality(About(alert)') <= Cardinality(Able(alert))
    BY <1>1, <1>5, <1>6, <1>7, <2>1
  <2>4. About(alert)' # {} => About(alert) # {}
    BY <1>8
  <2> QED
    BY <1>2, <2>1, <2>2, <2>3, <2>4
<1>9. \A alert, c : Raised(alert, c)' = {n \in outbox' : n.alert = alert /\ n.created = c}
  BY DEF Raised
<1> QED
  BY <1>3, <1>4, <1>7, <1>8, <1>9 DEF SpacedOK, Raised

\* What a session is at may change while the rows stay as they are.
LEMMA SessionsLeaveRows ==
  ASSUME SpacedInv, AlertsOK', IsFiniteSet(Workers), IsFiniteSet(Pages), clock' = clock,
         outbox' = outbox, NEW p \in Workers \cup Pages, NEW s,
         session' = [session EXCEPT ![p] = s], s.step # "insert"
  PROVE  SpacedOK'
<1>1. session \in [Workers \cup Pages -> SessionType]
  BY DEF SpacedInv, AlertsOK
<1>2. \A alert \in Alerts : About(alert)' \subseteq About(alert)
  BY <1>1 DEF About
<1> DEFINE f == [n \in outbox |-> n]
<1>3. outbox' = {f[n] : n \in outbox}
  OBVIOUS
<1>4. f = [n \in outbox |-> f[n]] /\ \A n \in outbox : f[n] = n
  OBVIOUS
<1> HIDE DEF f
<1> QED
  BY <1>2, <1>3, <1>4, RowsKeepTheirTime

\* A session that finds an alert missing: nobody has raised it at this time yet.
LEMMA ChecksKeepSpaced ==
  ASSUME SpacedInv, AlertsOK', IsFiniteSet(Workers), IsFiniteSet(Pages),
         NEW p \in Workers \cup Pages, NEW alert \in session[p].todo, Check(p, alert)
  PROVE  SessionsOK' /\ SpacedOK'
<1> DEFINE s == session[p]
           left == s.todo \ {alert}
           found == [s EXCEPT !.todo = left, !.step = "insert", !.on = alert]
<1>1. /\ AlertsOK /\ SessionsOK /\ SpacedOK /\ s \in SessionType
      /\ session \in [Workers \cup Pages -> SessionType]
      /\ clock \in Times /\ clock \in Nat /\ outbox \subseteq RowType /\ alert \in Alerts
  BY ClockIsTime, BoundsTyped DEF SpacedInv, AlertsOK, SessionType
<1>2. /\ s.step = "check" /\ UNCHANGED <<clock, outbox, arisen>>
      /\ \/ session' = [session EXCEPT ![p] = found] /\ ~AlreadyNotified(alert, s.now)
         \/ session' = [session EXCEPT ![p] = [s EXCEPT !.todo = left]]
         \/ session' = [session EXCEPT ![p] = Closed]
  BY DEF Check
<1>3. s # Closed /\ s.now = clock /\ p \in Able(alert) /\ \A x \in left : p \in Able(x)
  BY <1>1, ClosedHoldsNothing DEF SessionsOK, InHand
<1>4. \A x \in arisen' : x.kind # "stale"
  BY <1>1, <1>2 DEF SessionsOK
<1>5. CASE session' = [session EXCEPT ![p] = Closed]
  BY <1>1, <1>2, <1>4, <1>5, ClosedHoldsNothing, BeginsKeepSessions, SessionsLeaveRows
<1>6. CASE session' = [session EXCEPT ![p] = [s EXCEPT !.todo = left]]
  <2> DEFINE r == [s EXCEPT !.todo = left]
  <2>1. r.step = "check" /\ r.now = clock /\ InHand(r) = left
    BY <1>1, <1>2, <1>3 DEF SessionType, InHand
  <2> HIDE DEF r
  <2> QED
    BY <1>1, <1>2, <1>3, <1>4, <1>6, <2>1, BeginsKeepSessions, SessionsLeaveRows DEF r
<1>7. CASE session' = [session EXCEPT ![p] = found] /\ ~AlreadyNotified(alert, s.now)
  <2>1. found.step = "insert" /\ found.on = alert /\ found.now = clock /\ InHand(found) = left \cup {alert}
    BY <1>1, <1>3 DEF SessionType, InHand
  <2> HIDE DEF found
  <2>2. SessionsOK'
    BY <1>2, <1>3, <1>4, <1>7, <2>1, BeginsKeepSessions
  <2>3. \A n \in outbox : n.alert = alert => n.created < Since(alert.kind, clock) /\ n.created < clock
    <3>1. Since(alert.kind, clock) \in Int /\ Since(alert.kind, clock) <= clock
      BY <1>1, SinceGrows
    <3>2. \A n \in outbox : n.created \in Nat
      BY <1>1, BoundsTyped DEF RowType, Times
    <3>3. \A n \in outbox : n.alert = alert => ~(n.created >= Since(alert.kind, clock))
      BY <1>3, <1>7 DEF AlreadyNotified
    <3> QED
      BY <1>1, <3>1, <3>2, <3>3
  <2>4. Raised(alert, clock) = {}
    BY <1>1, <2>3 DEF Raised
  <2>5. \A x \in Alerts : x # alert => About(x)' \subseteq About(x)
    BY <1>1, <1>7, <2>1 DEF About
  <2>6. About(alert)' \subseteq Able(alert)
    BY <2>2 DEF About, SessionsOK, InHand, Able
  <2>7. /\ IsFiniteSet(Able(alert)) /\ IsFiniteSet(About(alert)')
        /\ Cardinality(About(alert)') <= Cardinality(Able(alert))
        /\ Cardinality(Able(alert)) \in Nat /\ Cardinality(About(alert)') \in Nat
    <3>1. IsFiniteSet(Able(alert))
      BY DEF Able
    <3> QED
      BY <2>6, <3>1, FS_Subset, FS_CardinalityType
  <2>8. Cardinality(Raised(alert, clock)) = 0
    BY <2>4, FS_EmptySet
  <2>9. \A x, c : Raised(x, c)' = Raised(x, c)
    BY <1>2 DEF Raised
  <2>10. ASSUME NEW x \in Alerts
         PROVE  /\ \A c \in Times : Cardinality(Raised(x, c)) <= Cardinality(Able(x))
                /\ Cardinality(Raised(x, clock)) + Cardinality(About(x)') <= Cardinality(Able(x))
                /\ About(x)' # {} => \A n \in outbox : n.alert = x /\ n.created < clock
                     => n.created < Since(x.kind, clock)
    <3>1. CASE x = alert
      BY <1>1, <2>3, <2>7, <2>8, <3>1 DEF SpacedOK
    <3>2. CASE x # alert
      <4>1. /\ \A c \in Times : Cardinality(Raised(x, c)) <= Cardinality(Able(x))
            /\ Cardinality(Raised(x, clock)) + Cardinality(About(x)) <= Cardinality(Able(x))
            /\ About(x) # {} => \A n \in outbox : n.alert = x /\ n.created < clock
                 => n.created < Since(x.kind, clock)
        BY <1>1 DEF SpacedOK
      <4>2. About(x)' \subseteq About(x)
        BY <2>5, <3>2
      <4>3. /\ IsFiniteSet(About(x)) /\ Cardinality(About(x)') <= Cardinality(About(x))
            /\ Cardinality(About(x)) \in Nat /\ Cardinality(About(x)') \in Nat
        <5>1. IsFiniteSet(Workers \cup Pages) /\ About(x) \subseteq Workers \cup Pages
          BY FS_Union DEF About
        <5>2. IsFiniteSet(About(x))
          BY <5>1, FS_Subset
        <5> QED
          BY <4>2, <5>2, FS_Subset, FS_CardinalityType
      <4>4. Cardinality(Raised(x, clock)) \in Nat /\ Cardinality(Able(x)) \in Nat
        <5>1. IsFiniteSet(outbox) /\ Raised(x, clock) \subseteq outbox
          BY <1>1 DEF AlertsOK, Raised
        <5>2. IsFiniteSet(Raised(x, clock))
          BY <5>1, FS_Subset
        <5> QED
          BY <5>2, FS_CardinalityType DEF Able
      <4> QED
        BY <4>1, <4>2, <4>3, <4>4
    <3> QED
      BY <3>1, <3>2
  <2>11. SpacedOK'
    BY <1>1, <1>2, <2>9, <2>10 DEF SpacedOK, Able
  <2> QED
    BY <2>2, <2>11
<1> QED
  BY <1>2, <1>5, <1>6, <1>7

\* A session that inserts is one of those that were about to.
LEMMA InsertKeepsSpaced ==
  ASSUME SpacedInv, AlertsOK', IsFiniteSet(Workers), IsFiniteSet(Pages),
         NEW p \in Workers \cup Pages, Insert(p)
  PROVE  SessionsOK' /\ SpacedOK'
<1> DEFINE s == session[p]
           r == [s EXCEPT !.step = "send"]
           n0 == [id |-> Cardinality(outbox) + 1, alert |-> s.on, created |-> s.now,
                  status |-> "pending"]
<1>1. /\ AlertsOK /\ SessionsOK /\ SpacedOK /\ s \in SessionType
      /\ session \in [Workers \cup Pages -> SessionType]
      /\ clock \in Times /\ clock \in Nat /\ outbox \subseteq RowType /\ IsFiniteSet(outbox)
  BY ClockIsTime, BoundsTyped DEF SpacedInv, AlertsOK, SessionType
<1>2. /\ s.step = "insert" /\ s.on \in Alerts /\ UNCHANGED <<clock, arisen>>
      /\ session' = [session EXCEPT ![p] = r] /\ outbox' = outbox \cup {n0}
  BY <1>1 DEF Insert, AlertsOK
<1>3. s # Closed /\ s.now = clock /\ p \in Able(s.on) /\ \A x \in s.todo : p \in Able(x)
  BY <1>1, <1>2, ClosedHoldsNothing DEF SessionsOK, InHand
<1>0. PICK on \in Alerts, now \in Times : on = s.on /\ now = clock /\ now \in Nat
  BY <1>1, <1>2
<1>4. n0.alert = on /\ n0.created = now
  BY <1>0, <1>3
<1>5. r.step = "send" /\ r.now = clock /\ InHand(r) = s.todo
  BY <1>1, <1>3 DEF SessionType, InHand
<1> HIDE DEF r, n0
<1>6. SessionsOK'
  <2>1. \A x \in arisen' : x.kind # "stale"
    BY <1>1, <1>2 DEF SessionsOK
  <2> QED
    BY <1>2, <1>3, <1>5, <2>1, BeginsKeepSessions
<1>7. /\ p \in About(on) /\ About(on)' = About(on) \ {p}
      /\ \A x : x # on => About(x)' = About(x)
  BY <1>0, <1>1, <1>2, <1>5 DEF About
<1>8. \A n \in outbox : n.created <= now /\ n.created \in Nat
  BY <1>0, <1>1, BoundsTyped DEF SpacedOK, RowType, Times
<1>9. \A n \in outbox : n.alert = on /\ n.created < now => n.created < Since(on.kind, now)
  BY <1>0, <1>1, <1>2, <1>7 DEF SpacedOK
<1>10. \A n \in outbox' : n.created <= clock'
  BY <1>0, <1>1, <1>2, <1>4, <1>8
<1>11. \A n, m \in outbox' : n.alert = m.alert /\ n.created < m.created
         => n.created < Since(n.alert.kind, m.created)
  <2>1. \A n, m \in outbox : n.alert = m.alert /\ n.created < m.created
          => n.created < Since(n.alert.kind, m.created)
    BY <1>1 DEF SpacedOK
  <2>2. \A m \in outbox' : ~(now < m.created)
    BY <1>0, <1>1, <1>2, <1>4, <1>8
  <2> QED
    BY <1>2, <1>4, <1>9, <2>1, <2>2
<1>12. \A x \in Alerts, c \in Times : x # on \/ c # now => Raised(x, c)' = Raised(x, c)
  BY <1>2, <1>4 DEF Raised
<1>13. Raised(on, now)' = Raised(on, now) \cup {n0}
  BY <1>2, <1>4 DEF Raised
<1>14. \A x \in Alerts, c \in Times : IsFiniteSet(Raised(x, c)) /\ Cardinality(Raised(x, c)) \in Nat
  <2> SUFFICES ASSUME NEW x \in Alerts, NEW c \in Times
               PROVE  IsFiniteSet(Raised(x, c)) /\ Cardinality(Raised(x, c)) \in Nat
    OBVIOUS
  <2>1. Raised(x, c) \subseteq outbox
    BY DEF Raised
  <2>2. IsFiniteSet(Raised(x, c))
    BY <1>1, <2>1, FS_Subset
  <2> QED
    BY <2>2, FS_CardinalityType
<1>15. Cardinality(Raised(on, now)') <= Cardinality(Raised(on, now)) + 1
  <2>1. IsFiniteSet(Raised(on, now))
    BY <1>1, <1>2, <1>14
  <2>2. Cardinality(Raised(on, now) \cup {n0}) \in
          {Cardinality(Raised(on, now)), Cardinality(Raised(on, now)) + 1}
    BY <2>1, FS_AddElement
  <2> QED
    BY <1>1, <1>2, <1>13, <1>14, <2>2
<1>16. Cardinality(About(on)') = Cardinality(About(on)) - 1 /\ Cardinality(About(on)) \in Nat
  <2>1. IsFiniteSet(Workers \cup Pages) /\ About(on) \subseteq Workers \cup Pages
    BY FS_Union DEF About
  <2>2. IsFiniteSet(About(on))
    BY <2>1, FS_Subset
  <2> QED
    BY <1>7, <2>2, FS_RemoveElement, FS_CardinalityType
<1>17. \A x : Cardinality(Able(x)) \in Nat
  BY FS_CardinalityType DEF Able
<1>18. Cardinality(Raised(on, now)') \in Nat /\ Cardinality(About(on)') \in Nat
  <2>1. IsFiniteSet(Raised(on, now)) /\ IsFiniteSet(Workers \cup Pages)
    BY <1>1, <1>2, <1>14, FS_Union
  <2>2. IsFiniteSet(Raised(on, now) \cup {n0})
    BY <2>1, FS_AddElement
  <2>3. About(on)' \subseteq Workers \cup Pages
    BY <1>7 DEF About
  <2>4. IsFiniteSet(About(on)')
    BY <2>1, <2>3, FS_Subset
  <2> QED
    BY <1>13, <2>2, <2>4, FS_CardinalityType
<1>19. ASSUME NEW x \in Alerts
       PROVE  /\ \A c \in Times : Cardinality(Raised(x, c)') <= Cardinality(Able(x))
              /\ Cardinality(Raised(x, now)') + Cardinality(About(x)') <= Cardinality(Able(x))
              /\ About(x)' # {} => \A n \in outbox' : n.alert = x /\ n.created < now
                   => n.created < Since(x.kind, now)
  <2>1. /\ \A c \in Times : Cardinality(Raised(x, c)) <= Cardinality(Able(x))
        /\ Cardinality(Raised(x, now)) + Cardinality(About(x)) <= Cardinality(Able(x))
        /\ About(x) # {} => \A n \in outbox : n.alert = x /\ n.created < now
             => n.created < Since(x.kind, now)
    BY <1>0, <1>1 DEF SpacedOK
  <2>2. CASE x # on
    <3>1. \A c \in Times : Raised(x, c)' = Raised(x, c)
      BY <1>12, <2>2
    <3>2. About(x)' = About(x)
      BY <1>7, <2>2
    <3>3. \A n \in outbox' : n.alert = x => n \in outbox
      BY <1>2, <1>4, <2>2
    <3> QED
      BY <1>1, <2>1, <3>1, <3>2, <3>3
  <2>3. CASE x = on
    <3>1. Cardinality(Raised(x, now)') + Cardinality(About(x)') <= Cardinality(Able(x))
      <4>1. Cardinality(Raised(x, now)) \in Nat
        BY <1>1, <1>14
      <4> HIDE DEF s
      <4> QED
        BY <1>15, <1>16, <1>17, <1>18, <2>1, <2>3, <4>1
    <3>2. \A c \in Times : Cardinality(Raised(x, c)') <= Cardinality(Able(x))
      <4>1. Cardinality(Raised(x, now)') <= Cardinality(Able(x))
        <5> HIDE DEF s
        <5> QED
          BY <1>17, <1>18, <2>3, <3>1
      <4>2. \A c \in Times : c # now => Raised(x, c)' = Raised(x, c)
        BY <1>12
      <4> QED
        BY <2>1, <4>1, <4>2
    <3>3. \A n \in outbox' : n.alert = x /\ n.created < now => n.created < Since(x.kind, now)
      BY <1>1, <1>2, <1>4, <1>9, <2>3
    <3> QED
      BY <3>1, <3>2, <3>3
  <2> QED
    BY <2>2, <2>3
<1>20. \A x, c : Raised(x, c)' = {n \in outbox' : n.alert = x /\ n.created = c}
  BY DEF Raised
<1>21. \A x : Able(x)' = Able(x)
  BY DEF Able
<1>22. SpacedOK'
  BY <1>0, <1>2, <1>10, <1>11, <1>19, <1>20, <1>21 DEF SpacedOK, Raised
<1> QED
  BY <1>6, <1>22

LEMMA SendKeepsSpaced ==
  ASSUME SpacedInv, AlertsOK', IsFiniteSet(Workers), IsFiniteSet(Pages),
         NEW p \in Workers \cup Pages, Send(p)
  PROVE  SessionsOK' /\ SpacedOK'
<1> DEFINE s == session[p]
           r == IF s.todo = {} THEN Closed ELSE [s EXCEPT !.step = "check", !.on = Null]
           f == [n \in outbox |->
                   IF n.alert = s.on /\ n.status = "pending" /\ n.created = s.now
                   THEN [n EXCEPT !.status = "sent"] ELSE n]
<1>1. /\ AlertsOK /\ SessionsOK /\ SpacedOK /\ s \in SessionType
      /\ session \in [Workers \cup Pages -> SessionType] /\ outbox \subseteq RowType
  BY DEF SpacedInv, AlertsOK
<1>2. /\ s.step = "send" /\ UNCHANGED <<clock, arisen>>
      /\ session' = [session EXCEPT ![p] = r] /\ outbox' = {f[n] : n \in outbox}
  BY DEF Send
<1>3. s # Closed /\ s.now = clock /\ \A x \in s.todo : p \in Able(x)
  BY <1>1, <1>2, ClosedHoldsNothing DEF SessionsOK, InHand
<1>4. /\ r.step = "check" /\ (r # Closed => r.now = clock)
      /\ \A x \in InHand(r) : p \in Able(x)
  <2>1. CASE s.todo = {}
    BY <2>1, ClosedHoldsNothing
  <2>2. CASE s.todo # {}
    BY <1>1, <1>3, <2>2 DEF SessionType, InHand
  <2> QED
    BY <2>1, <2>2
<1>5. \A n \in outbox : f[n].alert = n.alert /\ f[n].created = n.created
  BY <1>1 DEF RowType
<1>6. f = [n \in outbox |-> f[n]]
  OBVIOUS
<1> HIDE DEF r, f
<1>7. \A x \in Alerts : About(x)' \subseteq About(x)
  BY <1>1, <1>2, <1>4 DEF About
<1>8. SessionsOK'
  <2>1. \A x \in arisen' : x.kind # "stale"
    BY <1>1, <1>2 DEF SessionsOK
  <2> QED
    BY <1>2, <1>4, <2>1, BeginsKeepSessions
<1>9. SpacedOK'
  BY <1>2, <1>5, <1>6, <1>7, RowsKeepTheirTime
<1> QED
  BY <1>8, <1>9

\* Time goes by when every session is closed; nobody has raised anything at the new time.
LEMMA TickKeepsSpaced ==
  ASSUME SpacedInv, AlertsOK', IsFiniteSet(Workers), IsFiniteSet(Pages), Tick
  PROVE  SessionsOK' /\ SpacedOK'
<1>1. /\ AlertsOK /\ SessionsOK /\ SpacedOK /\ outbox \subseteq RowType
      /\ session \in [Workers \cup Pages -> SessionType] /\ clock \in Nat
  BY BoundsTyped DEF SpacedInv, AlertsOK
<1>2. /\ clock' = clock + 1 /\ outbox' = outbox /\ session' = session /\ arisen' \subseteq arisen
      /\ \A p \in Workers \cup Pages : session[p] = Closed
  BY DEF Tick, Idle
<1>3. \A n \in outbox : n.created <= clock /\ n.created \in Nat
  BY <1>1, BoundsTyped DEF SpacedOK, RowType, Times
<1>4. SessionsOK'
  BY <1>1, <1>2, ClosedHoldsNothing DEF SessionsOK
<1>5. \A x : About(x)' = {}
  BY <1>2, ClosedHoldsNothing DEF About
<1>6. ASSUME NEW now, now = clock' PROVE \A x : Raised(x, now)' = {}
  BY <1>1, <1>2, <1>3, <1>6 DEF Raised
<1>7. \A x, c : Raised(x, c)' = Raised(x, c)
  BY <1>2 DEF Raised
<1>8. \A x : Cardinality(Able(x)) \in Nat
  BY FS_CardinalityType DEF Able
<1>9. ASSUME NEW x \in Alerts
      PROVE  /\ \A c \in Times : Cardinality(Raised(x, c)') <= Cardinality(Able(x))
             /\ Cardinality({n \in outbox' : n.alert = x /\ n.created = clock'}) = 0
             /\ Cardinality(About(x)') = 0
  <2>1. \A c \in Times : Cardinality(Raised(x, c)) <= Cardinality(Able(x))
    BY <1>1 DEF SpacedOK
  <2>2. {n \in outbox' : n.alert = x /\ n.created = clock'} = {}
    BY <1>1, <1>2, <1>3
  <2> QED
    BY <1>5, <1>7, <2>1, <2>2, FS_EmptySet
<1>10. \A n \in outbox' : n.created <= clock'
  BY <1>1, <1>2, <1>3
<1>11. \A n, m \in outbox' : n.alert = m.alert /\ n.created < m.created
         => n.created < Since(n.alert.kind, m.created)
  BY <1>1, <1>2 DEF SpacedOK
<1>12. SpacedOK'
  BY <1>5, <1>8, <1>9, <1>10, <1>11 DEF SpacedOK, Raised, Able
<1> QED
  BY <1>4, <1>12

\* A worker or a page begins a session with alerts that are its own to raise, or ends.
LEMMA BeginsKeepSpaced ==
  ASSUME SpacedInv, AlertsOK', IsFiniteSet(Workers), IsFiniteSet(Pages),
         NEW p \in Workers \cup Pages, NEW todo \in SUBSET Alerts,
         session' \in {[session EXCEPT ![p] = Closed],
                       [session EXCEPT ![p] = [Closed EXCEPT !.now = clock, !.todo = todo]]},
         \A alert \in todo : p \in Able(alert), UNCHANGED <<clock, outbox, arisen>>
  PROVE  SessionsOK' /\ SpacedOK'
<1> DEFINE begun == [Closed EXCEPT !.now = clock, !.todo = todo]
<1>1. begun.step = "check" /\ begun.now = clock /\ InHand(begun) = todo
  BY DEF Closed, InHand
<1>2. \A alert \in arisen' : alert.kind # "stale"
  BY DEF SpacedInv, SessionsOK
<1> HIDE DEF begun
<1>3. CASE session' = [session EXCEPT ![p] = begun]
  BY <1>1, <1>2, <1>3, BeginsKeepSessions, SessionsLeaveRows
<1>4. CASE session' = [session EXCEPT ![p] = Closed]
  BY <1>2, <1>4, ClosedHoldsNothing, BeginsKeepSessions, SessionsLeaveRows
<1> QED
  BY <1>3, <1>4 DEF begun

\* Neither a session nor a row changes.
LEMMA OthersKeepSpaced ==
  ASSUME SpacedInv, UNCHANGED <<clock, session, outbox>>,
         \A alert \in arisen' : alert.kind # "stale"
  PROVE  SessionsOK' /\ SpacedOK'
<1>1. SessionsOK'
  BY DEF SpacedInv, SessionsOK, Able, InHand
<1>2. \A x, c : Raised(x, c)' = Raised(x, c) /\ About(x)' = About(x) /\ Able(x)' = Able(x)
  BY DEF Raised, About, Able
<1>3. SpacedOK'
  BY <1>2 DEF SpacedInv, SpacedOK, Raised
<1> QED
  BY <1>1, <1>3

LEMMA NextKeepsSpaced ==
  ASSUME SpacedInv, [Next]_vars, IsFiniteSet(Workers), IsFiniteSet(Pages)
  PROVE  SpacedInv'
<1>0. AlertsOK /\ AlertsOK' /\ SessionsOK /\ SpacedOK
  BY NextKeepsAlertsOK DEF SpacedInv
<1> SUFFICES SessionsOK' /\ SpacedOK'
  BY <1>0 DEF SpacedInv
<1>s. \A alert \in arisen : alert.kind # "stale"
  BY <1>0 DEF SessionsOK
<1>1. CASE Tick
  BY <1>0, <1>1, TickKeepsSpaced
<1>2. CASE MarkRead
  <2> DEFINE f == [n \in outbox |-> IF n.status = "sent" THEN [n EXCEPT !.status = "read"] ELSE n]
  <2>1. /\ f = [n \in outbox |-> f[n]] /\ outbox' = {f[n] : n \in outbox}
        /\ UNCHANGED <<clock, session, arisen>>
    BY <1>2 DEF MarkRead
  <2>2. \A n \in outbox : f[n].alert = n.alert /\ f[n].created = n.created
    BY <1>0 DEF AlertsOK, RowType
  <2>3. \A x \in Alerts : About(x)' \subseteq About(x)
    BY <2>1 DEF About
  <2>4. SessionsOK'
    BY <1>0, <2>1 DEF SessionsOK, Able, InHand
  <2> HIDE DEF f
  <2>5. SpacedOK'
    BY <1>0, <2>1, <2>2, <2>3, RowsKeepTheirTime
  <2> QED
    BY <2>4, <2>5
<1>3. ASSUME NEW w \in Workers, Kill(w) \/ Exit(w) PROVE SessionsOK' /\ SpacedOK'
  <2>1. session' = [session EXCEPT ![w] = Closed] /\ UNCHANGED <<clock, outbox, arisen>>
    BY <1>3 DEF Kill, Exit, Exits
  <2>2. PICK todo \in SUBSET Alerts : todo = {}
    OBVIOUS
  <2>3. \A alert \in todo : w \in Able(alert)
    BY <2>2
  <2> QED
    BY <1>0, <2>1, <2>3, BeginsKeepSpaced
<1>4. ASSUME NEW w \in Workers, Ends(w) PROVE SessionsOK' /\ SpacedOK'
  <2>1. PICK todo \in {{}} \cup {{alert} : alert \in FoundByItems} :
          session' = [session EXCEPT ![w] = IF todo = {} THEN Closed
                                            ELSE [Closed EXCEPT !.now = clock, !.todo = todo]]
    BY <1>4 DEF Ends
  <2>2. todo \in SUBSET Alerts /\ \A alert \in todo : w \in Able(alert)
    BY DEF FoundByItems, Able
  <2>3. UNCHANGED <<clock, outbox, arisen>>
    BY <1>4 DEF Ends
  <2> QED
    BY <1>0, <2>1, <2>2, <2>3, BeginsKeepSpaced
<1>5. ASSUME NEW w \in Workers, Pass(w) PROVE SessionsOK' /\ SpacedOK'
  <2>1. arisen \in SUBSET Alerts /\ \A alert \in arisen : w \in Able(alert)
    BY <1>0, <1>s DEF AlertsOK, Able
  <2>2. /\ session' = [session EXCEPT ![w] = IF arisen = {} THEN Closed
                                             ELSE [Closed EXCEPT !.now = clock, !.todo = arisen]]
        /\ UNCHANGED <<clock, outbox, arisen>>
    BY <1>5 DEF Pass
  <2> QED
    BY <1>0, <2>1, <2>2, BeginsKeepSpaced
<1>6. ASSUME NEW p \in Pages, View(p) PROVE SessionsOK' /\ SpacedOK'
  <2> DEFINE todo == {Alert("stale", w) : w \in {w \in Workers : Stale(w)}}
  <2>1. todo \in SUBSET Alerts /\ \A alert \in todo : p \in Able(alert)
    BY DEF Alerts, Alert, Able
  <2>2. /\ session' = [session EXCEPT ![p] = [Closed EXCEPT !.now = clock, !.todo = todo]]
        /\ UNCHANGED <<clock, outbox, arisen>>
    BY <1>6 DEF View
  <2> HIDE DEF todo
  <2> QED
    BY <1>0, <2>1, <2>2, BeginsKeepSpaced
<1>7. ASSUME NEW alert \in Alerts, Arises(alert) \/ Extend(alert) PROVE SessionsOK' /\ SpacedOK'
  BY <1>7, <1>s, OthersKeepSpaced DEF Arises, Extend
<1>8. ASSUME NEW p \in Workers \cup Pages, Raises(p) PROVE SessionsOK' /\ SpacedOK'
  BY <1>0, <1>8, ChecksKeepSpaced, InsertKeepsSpaced, SendKeepsSpaced DEF Raises
<1>9. ASSUME NEW w \in Workers,
             Start(w) \/ Terminate(w) \/ Beats(w) \/ Call(w) \/ LoopEnds(w) \/ Deregister(w)
      PROVE  SessionsOK' /\ SpacedOK'
  BY <1>9, <1>s, OthersKeepSpaced DEF Start, Terminate, Beats, BeatBegins, BeatCommits, BeatFails,
     BeatStops, Call, LoopEnds, Deregister
<1>10. CASE UNCHANGED vars
  BY <1>10, <1>s, OthersKeepSpaced DEF vars
<1> QED
  BY <1>1, <1>2, <1>3, <1>4, <1>5, <1>6, <1>7, <1>8, <1>9, <1>10 DEF Next, Works

\* Within a cooldown there are rows of one time only: between those of two times there would
\* be a cooldown.
LEMMA SpacedMeansSpaced ==
  ASSUME SpacedInv, IsFiniteSet(Workers), IsFiniteSet(Pages)
  PROVE  AlertsAreSpaced
<1> SUFFICES ASSUME NEW alert \in Alerts, NEW t \in 0..clock
             PROVE  Cardinality({n \in outbox : /\ n.alert = alert /\ n.created <= t
                                                /\ n.created >= Since(alert.kind, t)})
                      <= Cardinality(Able(alert))
  BY Zenon DEF AlertsAreSpaced, Able
<1> DEFINE S == {n \in outbox : n.alert = alert /\ n.created <= t
                                /\ n.created >= Since(alert.kind, t)}
<1>1. /\ SpacedOK /\ outbox \subseteq RowType /\ IsFiniteSet(outbox)
      /\ clock \in 0..MaxClock
  BY DEF SpacedInv, AlertsOK
<1>2. t \in Times /\ Since(alert.kind, t) \in Int
  <2>1. t \in Times
    BY <1>1, BoundsTyped DEF Times
  <2> QED
    BY <2>1, SinceGrows, BoundsTyped DEF Times
<1>3. CASE S = {}
  <2>1. Cardinality(Able(alert)) \in Nat
    BY FS_CardinalityType DEF Able
  <2> QED
    BY <1>3, <2>1, FS_EmptySet
<1>4. CASE S # {}
  <2>1. PICK n \in S : TRUE
    BY <1>4
  <2>2. n \in outbox /\ n.created \in Times
    BY <1>1 DEF RowType
  <2>3. ASSUME NEW m \in S PROVE m.created = n.created
    <3>1. m \in outbox /\ m.created \in Times /\ m.created \in Nat /\ n.created \in Nat
      BY <1>1, <2>2, BoundsTyped DEF RowType, Times
    <3>2. ASSUME NEW a \in S, NEW b \in S, a.created < b.created, a.created \in Nat, b.created \in Times
          PROVE  FALSE
      <4>1. a.created < Since(alert.kind, b.created)
        BY <1>1, <3>2 DEF SpacedOK
      <4>2. Since(alert.kind, b.created) <= Since(alert.kind, t) /\ Since(alert.kind, b.created) \in Int
        BY <1>2, <3>2, SinceGrows
      <4> QED
        BY <1>2, <3>2, <4>1, <4>2
    <3> QED
      BY <2>2, <3>1, <3>2
  <2>4. S \subseteq Raised(alert, n.created)
    BY <2>3 DEF Raised
  <2>5. IsFiniteSet(Raised(alert, n.created))
    <3>1. Raised(alert, n.created) \subseteq outbox
      BY DEF Raised
    <3> QED
      BY <1>1, <3>1, FS_Subset
  <2> HIDE DEF S
  <2>6. IsFiniteSet(S) /\ Cardinality(S) <= Cardinality(Raised(alert, n.created))
    BY <2>4, <2>5, FS_Subset
  <2>7. Cardinality(Raised(alert, n.created)) <= Cardinality(Able(alert))
    BY <1>1, <2>2 DEF SpacedOK
  <2>8. /\ Cardinality(S) \in Nat /\ Cardinality(Raised(alert, n.created)) \in Nat
        /\ Cardinality(Able(alert)) \in Nat
    BY <2>5, <2>6, FS_CardinalityType DEF Able
  <2>9. Cardinality(S) <= Cardinality(Able(alert))
    BY <2>6, <2>7, <2>8
  <2> QED
    BY <2>9 DEF S
<1> QED
  BY <1>3, <1>4

-----------------------------------------------------------------------------
(* False alarms *)

\* A process that beats has a row no older than its last beat and the write of it, unless it
\* has just been started or has just failed to write; each of its timers is prompt.
BeatOK(w) ==
  healthy[w] # Null =>
    /\ beat[w].state # "none"
    /\ row[w] = Null \/ row[w] >= beat[w].at - 1 - MaxWrite \/ healthy[w] >= beat[w].at
    /\ beat[w].state = "waiting" => clock <= beat[w].at /\ beat[w].at <= clock + 1
    /\ beat[w].state = "writing" => beat[w].at <= clock /\ clock <= beat[w].at + MaxWrite
    /\ beat[w].state = "stopped" => beat[w].at = clock /\ Stopping(w)

\* So a page that found it dead was right, or it has been started or has failed since.
FoundOK(p) ==
  \A w \in Workers :
    Alert("stale", w) \in InHand(session[p]) /\ healthy[w] # Null
      => clock - healthy[w] <= StaleAfter

AlarmInv ==
  /\ StopInv /\ SpacedInv
  /\ \A w \in Workers : BeatOK(w)
  /\ \A p \in Workers \cup Pages : FoundOK(p)

LEMMA InitBeatsWell ==
  ASSUME Init, IsFiniteSet(Workers), IsFiniteSet(Pages) PROVE AlarmInv
<1>1. StopInv /\ SpacedInv
  BY InitStopInv, SpacedHoldsInitially
<1>2. \A w \in Workers : healthy[w] = Null
  BY DEF Init
<1> QED
  BY <1>1, <1>2 DEF AlarmInv, BeatOK, FoundOK

LEMMA BeatsAreFresh ==
  ASSUME AlarmInv, NEW w \in Workers, healthy[w] # Null, Stale(w), 2 * MaxWrite + 1 <= StaleAfter
  PROVE  clock - healthy[w] <= StaleAfter
<1>1. /\ clock \in Nat /\ row[w] \in Nat /\ healthy[w] \in Nat /\ beat[w].at \in Nat
      /\ beat[w].state \in BeatStates /\ StaleAfter \in Nat /\ MaxWrite \in Nat
  BY BoundsTyped, TimesAreNaturals DEF AlarmInv, StopInv, ThreadsOK, Times, Stale
<1>2. BeatOK(w) /\ row[w] # Null /\ clock - row[w] > StaleAfter
  BY DEF AlarmInv, Stale
<1>3. clock <= beat[w].at + MaxWrite
  BY <1>1, <1>2 DEF BeatOK, BeatStates
<1>4. ~(row[w] >= beat[w].at - 1 - MaxWrite)
  BY <1>1, <1>2, <1>3
<1>5. healthy[w] >= beat[w].at
  BY <1>2, <1>4 DEF BeatOK
<1> QED
  BY <1>1, <1>3, <1>5

LEMMA NextKeepsBeating ==
  ASSUME AlarmInv, [Next]_vars, NEW w \in Workers
  PROVE  BeatOK(w)'
<1>0. /\ clock \in Nat /\ beat[w].at \in Nat /\ beat[w].state \in BeatStates /\ MaxWrite \in Nat
      /\ row[w] \in Nat \cup {Null} /\ healthy[w] \in Nat \cup {Null}
      /\ main \in [Workers -> [state : MainStates, busy : BOOLEAN, stopAt : Times]]
      /\ beat \in [Workers -> [state : BeatStates, at : Times]]
      /\ row \in [Workers -> Times \cup {Null}]
      /\ healthy \in [Workers -> Times \cup {Null}] /\ clean \in [Workers -> BOOLEAN]
      /\ Null \notin Nat
  BY BoundsTyped, TimesAreNaturals DEF AlarmInv, StopInv, ThreadsOK, Times
<1>b. BeatOK(w)
  BY DEF AlarmInv
<1>1. CASE Tick
  <2>1. /\ clock' = clock + 1 /\ UNCHANGED <<main, beat, row, healthy>>
        /\ ~BeatDue(w) /\ (Stopping(w) => beat[w].state = "writing")
        /\ beat[w].state = "writing" => clock < beat[w].at + MaxWrite
    BY <1>1 DEF Tick, threads, history
  <2> QED
    BY <1>0, <1>b, <2>1 DEF BeatOK, BeatDue, MayBeat, Stopping
<1>2. ASSUME NEW x \in Workers, Beats(x) PROVE BeatOK(w)'
  <2>1. CASE BeatBegins(x)
    BY <1>0, <1>b, <2>1 DEF BeatBegins, BeatDue, BeatOK, Stopping, history
  <2>2. CASE BeatCommits(x)
    BY <1>0, <1>b, <2>2 DEF BeatCommits, Sleeps, BeatOK, Stopping, history
  <2>3. CASE BeatFails(x)
    BY <1>0, <1>b, <2>3 DEF BeatFails, Sleeps, BeatOK, Stopping
  <2>4. CASE BeatStops(x)
    BY <1>0, <1>b, <2>4 DEF BeatStops, BeatOK, Stopping, history
  <2> QED
    BY <1>2, <2>1, <2>2, <2>3, <2>4 DEF Beats
<1>3. ASSUME NEW x \in Workers, Start(x) PROVE BeatOK(w)'
  BY <1>0, <1>b, <1>3 DEF Start, BeatOK, Stopping
<1>4. ASSUME NEW x \in Workers, Kill(x) \/ Exit(x) PROVE BeatOK(w)'
  BY <1>0, <1>b, <1>4 DEF Kill, Exit, Exits, BeatOK, Stopping
<1>5. ASSUME NEW x \in Workers, Pass(x) PROVE BeatOK(w)'
  <2>1. row'[w] \in {row[w], Null} /\ UNCHANGED <<clock, main, beat, healthy>>
    BY <1>5 DEF Pass, threads, history
  <2> QED
    BY <1>0, <1>b, <2>1 DEF BeatOK, Stopping
<1>6. ASSUME NEW x \in Workers, Deregister(x) PROVE BeatOK(w)'
  BY <1>0, <1>b, <1>6 DEF Deregister, BeatOK, Stopping, history
<1>7. ASSUME NEW x \in Workers, Terminate(x) \/ Call(x) \/ Ends(x) \/ LoopEnds(x) PROVE BeatOK(w)'
  <2>1. Stopping(w) => Stopping(w)'
    <3>1. main'[w].state = main[w].state \/ main[w].state \in {"running", "stopping"}
      <4>1. CASE Terminate(x)
        BY <1>0, <4>1 DEF Terminate
      <4>2. CASE Call(x)
        BY <1>0, <4>2 DEF Call
      <4>3. CASE Ends(x)
        <5>1. main' = [main EXCEPT ![x] = [main[x] EXCEPT !.busy = FALSE]]
          BY <4>3 DEF Ends
        <5> QED
          BY <1>0, <5>1
      <4>4. CASE LoopEnds(x)
        <5>1. main' = [main EXCEPT ![x] = [main[x] EXCEPT !.state = "joining", !.stopAt = clock]]
          BY <4>4 DEF LoopEnds
        <5> QED
          BY <1>0, <4>4, <5>1 DEF LoopEnds
      <4> QED
        BY <1>7, <4>1, <4>2, <4>3, <4>4
    <3> QED
      BY <3>1 DEF Stopping
  <2>2. UNCHANGED <<clock, beat, row, healthy>>
    BY <1>7 DEF Terminate, Call, Ends, LoopEnds, history
  <2> QED
    BY <1>b, <2>1, <2>2 DEF BeatOK
<1>8. CASE UNCHANGED <<clock, main, beat, row, healthy>>
  BY <1>b, <1>8 DEF BeatOK, Stopping
<1>9. CASE \/ MarkRead \/ (\E p \in Pages : View(p)) \/ (\E p \in Workers \cup Pages : Raises(p))
           \/ \E alert \in Alerts : Arises(alert) \/ Extend(alert)
  BY <1>8, <1>9 DEF MarkRead, View, Raises, Check, Insert, Send, Arises, Extend, threads, history
<1>10. CASE UNCHANGED vars
  BY <1>8, <1>10 DEF vars, threads, history
<1> QED
  BY <1>1, <1>2, <1>3, <1>4, <1>5, <1>6, <1>7, <1>9, <1>10 DEF Next, Works

\* What a session has in hand it has had in hand before, but for what a page finds dead.
LEMMA NextKeepsFinding ==
  ASSUME AlarmInv, [Next]_vars, NEW p \in Workers \cup Pages, 2 * MaxWrite + 1 <= StaleAfter
  PROVE  FoundOK(p)'
<1>0. /\ clock \in Nat /\ StaleAfter \in Nat
      /\ healthy \in [Workers -> Times \cup {Null}] /\ Times \subseteq Nat /\ Null \notin Nat
      /\ session \in [Workers \cup Pages -> SessionType]
      /\ session[p] \in SessionType
  BY BoundsTyped, TimesAreNaturals DEF AlarmInv, StopInv, ThreadsOK, SpacedInv, AlertsOK, Times
<1>f. FoundOK(p)
  BY DEF AlarmInv
<1>c. InHand(Closed) = {}
  BY ClosedHoldsNothing
<1>1. CASE Tick
  <2>1. session'[p] = Closed
    BY <1>1 DEF Tick, Idle
  <2> QED
    BY <1>c, <2>1 DEF FoundOK, InHand
<1>2. CASE \E q \in Pages : View(q)
  <2>1. PICK q \in Pages : View(q)
    BY <1>2
  <2> DEFINE todo == {Alert("stale", w) : w \in {w \in Workers : Stale(w)}}
             begun == [Closed EXCEPT !.now = clock, !.todo = todo]
  <2>2. session' = [session EXCEPT ![q] = begun] /\ UNCHANGED <<clock, healthy>>
    BY <2>1 DEF View, history
  <2>3. InHand(begun) = todo
    BY DEF Closed, InHand
  <2>4. \A w \in Workers : Alert("stale", w) \in todo => Stale(w)
    BY DEF Alert
  <2>5. session'[p] \in {session[p], begun}
    BY <1>0, <2>2
  <2> HIDE DEF begun, todo
  <2>6. ASSUME NEW w \in Workers, Alert("stale", w) \in InHand(session'[p]), healthy'[w] # Null
        PROVE  clock' - healthy'[w] <= StaleAfter
    <3>1. CASE session'[p] = session[p]
      BY <1>f, <2>2, <2>6, <3>1 DEF FoundOK
    <3>2. CASE session'[p] = begun
      BY <2>2, <2>3, <2>4, <2>6, <3>2, BeatsAreFresh
    <3> QED
      BY <2>5, <3>1, <3>2
  <2> QED
    BY <2>6 DEF FoundOK, InHand
\* A step that adds no dead worker to a session and starts, kills or disturbs no more than one.
<1>3. ASSUME UNCHANGED clock,
             \A w \in Workers : healthy'[w] \in {healthy[w], Null, clock, clock + 1},
             \A w \in Workers : Alert("stale", w) \in InHand(session'[p])
               => Alert("stale", w) \in InHand(session[p])
      PROVE  FoundOK(p)'
  <2>1. ASSUME NEW w \in Workers, Alert("stale", w) \in InHand(session'[p]), healthy'[w] # Null
        PROVE  clock' - healthy'[w] <= StaleAfter
    <3>1. CASE healthy'[w] = healthy[w]
      BY <1>3, <1>f, <2>1, <3>1 DEF FoundOK
    <3>2. CASE healthy'[w] \in {clock, clock + 1}
      BY <1>0, <1>3, <3>2
    <3> QED
      BY <1>3, <2>1, <3>1, <3>2
  <2> QED
    BY <2>1 DEF FoundOK, InHand
<1>4. ASSUME UNCHANGED session PROVE InHand(session'[p]) = InHand(session[p])
  BY <1>4
<1>5. ASSUME NEW w \in Workers,
             Start(w) \/ Terminate(w) \/ Beats(w) \/ Call(w) \/ LoopEnds(w) \/ Deregister(w)
      PROVE  FoundOK(p)'
  <2>1. UNCHANGED <<clock, session>>
    BY <1>5 DEF Start, Terminate, Beats, BeatBegins, BeatCommits, BeatFails, BeatStops, Call,
       LoopEnds, Deregister
  <2>2. \A x \in Workers : healthy'[x] \in {healthy[x], Null, clock, clock + 1}
    BY <1>0, <1>5 DEF Start, Terminate, Beats, BeatBegins, BeatCommits, BeatFails, BeatStops, Call,
       LoopEnds, Deregister, history
  <2> QED
    BY <1>3, <2>1, <2>2
<1>6. ASSUME NEW w \in Workers, Kill(w) \/ Exit(w) PROVE FoundOK(p)'
  <2>1. UNCHANGED clock /\ session' = [session EXCEPT ![w] = Closed]
        /\ healthy' = [healthy EXCEPT ![w] = Null]
    BY <1>6 DEF Kill, Exit, Exits
  <2>2. session'[p] \in {session[p], Closed} /\ \A x \in Workers : healthy'[x] \in {healthy[x], Null}
    BY <1>0, <2>1
  <2> QED
    BY <1>3, <1>c, <2>1, <2>2
<1>7. ASSUME NEW w \in Workers, Ends(w) \/ Pass(w) PROVE FoundOK(p)'
  <2>1. PICK todo \in SUBSET Alerts :
          /\ \A alert \in todo : alert.kind # "stale"
          /\ \/ session' = [session EXCEPT ![w] = Closed]
             \/ session' = [session EXCEPT ![w] = [Closed EXCEPT !.now = clock, !.todo = todo]]
    <3>1. CASE Ends(w)
      <4>1. PICK found \in {{}} \cup {{alert} : alert \in FoundByItems} :
              session' = [session EXCEPT ![w] = IF found = {} THEN Closed
                                                ELSE [Closed EXCEPT !.now = clock, !.todo = found]]
        BY <3>1 DEF Ends
      <4> QED
        BY <4>1 DEF FoundByItems
    <3>2. CASE Pass(w)
      <4>1. arisen \in SUBSET Alerts /\ \A alert \in arisen : alert.kind # "stale"
        BY DEF AlarmInv, SpacedInv, AlertsOK, SessionsOK
      <4> QED
        BY <3>2, <4>1 DEF Pass
    <3> QED
      BY <1>7, <3>1, <3>2
  <2> DEFINE begun == [Closed EXCEPT !.now = clock, !.todo = todo]
  <2>2. InHand(begun) = todo
    BY DEF Closed, InHand
  <2>3. \A x \in Workers : Alert("stale", x) \notin InHand(begun)
    BY <2>1, <2>2 DEF Alert
  <2>4. UNCHANGED <<clock, healthy>>
    BY <1>7 DEF Ends, Pass, history
  <2>5. session'[p] \in {session[p], Closed, begun}
    BY <1>0, <2>1
  <2> HIDE DEF begun
  <2> QED
    BY <1>3, <1>c, <2>3, <2>4, <2>5
<1>8. ASSUME NEW q \in Workers \cup Pages, Raises(q) PROVE FoundOK(p)'
  <2>1. UNCHANGED <<clock, healthy>>
    BY <1>8 DEF Raises, Check, Insert, Send, history
  <2>2. CASE \E alert \in session[q].todo : Check(q, alert)
    <3>1. PICK alert \in session[q].todo : Check(q, alert)
      BY <2>2
    <3> DEFINE s == session[q]
               left == s.todo \ {alert}
               found == [s EXCEPT !.todo = left, !.step = "insert", !.on = alert]
               rest == [s EXCEPT !.todo = left]
    <3>2. /\ s.step = "check" /\ s \in SessionType
          /\ session' \in {[session EXCEPT ![q] = found], [session EXCEPT ![q] = rest],
                           [session EXCEPT ![q] = Closed]}
      BY <1>0, <3>1 DEF Check
    <3>3a. /\ found.todo = left /\ found.step = "insert" /\ found.on = alert
          /\ rest.todo = left /\ rest.step = "check"
      BY <3>2 DEF SessionType
    <3> HIDE DEF found, rest
    <3>3b. InHand(found) \subseteq InHand(s) /\ InHand(rest) \subseteq InHand(s)
      BY <3>2, <3>3a DEF InHand
    <3>3. InHand(session'[p]) \subseteq InHand(session[p])
      <4>1. session'[p] = session[p] \/ (p = q /\ session'[p] \in {found, rest, Closed})
        BY <1>0, <3>2
      <4> QED
        BY <1>c, <3>3b, <4>1
    <3> QED
      BY <1>3, <2>1, <3>3
  <2>3. CASE Insert(q) \/ Send(q)
    <3> DEFINE s == session[q]
               sends == [s EXCEPT !.step = "send"]
               rest == [s EXCEPT !.step = "check", !.on = Null]
    <3>1. /\ s \in SessionType
          /\ session' \in {[session EXCEPT ![q] = sends], [session EXCEPT ![q] = rest],
                           [session EXCEPT ![q] = Closed]}
      BY <1>0, <2>3 DEF Insert, Send
    <3>3a. sends.todo = s.todo /\ sends.step = "send" /\ rest.todo = s.todo /\ rest.step = "check"
      BY <3>1 DEF SessionType
    <3> HIDE DEF sends, rest
    <3>3b. InHand(sends) \subseteq InHand(s) /\ InHand(rest) \subseteq InHand(s)
      BY <3>3a DEF InHand
    <3>2. InHand(session'[p]) \subseteq InHand(session[p])
      <4>1. session'[p] = session[p] \/ (p = q /\ session'[p] \in {sends, rest, Closed})
        BY <1>0, <3>1
      <4> QED
        BY <1>c, <3>3b, <4>1
    <3> QED
      BY <1>3, <2>1, <3>2
  <2> QED
    BY <1>8, <2>2, <2>3 DEF Raises
<1>9. CASE MarkRead \/ (\E alert \in Alerts : Arises(alert) \/ Extend(alert)) \/ UNCHANGED vars
  <2>1. UNCHANGED <<clock, session, healthy>>
    BY <1>9 DEF MarkRead, Arises, Extend, vars, history
  <2> QED
    BY <1>3, <2>1
<1> QED
  BY <1>1, <1>2, <1>5, <1>6, <1>7, <1>8, <1>9 DEF Next, Works

\* Every step inserts only what a session has in hand, with the time of the session.
LEMMA InsertsAreFound ==
  ASSUME AlarmInv, Next, NEW n \in outbox' \ outbox, n.status = "pending"
  PROVE  n.created = clock /\ \E p \in Workers \cup Pages : n.alert \in InHand(session[p])
<1>1. \E p \in Workers \cup Pages : Insert(p)
  <2>1. CASE MarkRead
    BY <2>1 DEF MarkRead, AlarmInv, SpacedInv, AlertsOK, RowType
  <2>2. ASSUME NEW p \in Workers \cup Pages, Send(p) PROVE FALSE
    BY <2>2 DEF Send, AlarmInv, SpacedInv, AlertsOK, RowType
  <2>3. outbox' # outbox
    OBVIOUS
  <2> QED
    BY <2>1, <2>2, <2>3 DEF Next, Tick, Start, Terminate, Kill, Exits, Beats, BeatBegins, BeatCommits,
       BeatFails, BeatStops, Works, Call, Ends, Pass, LoopEnds, Deregister, Exit, View, Raises, Check,
       Arises, Extend
<1>2. PICK p \in Workers \cup Pages : Insert(p)
  BY <1>1
<1>3. session[p].step = "insert" /\ n.alert = session[p].on /\ n.created = session[p].now
  BY <1>2 DEF Insert
<1>4. session[p].now = clock
  BY <1>3, ClosedHoldsNothing DEF AlarmInv, SpacedInv, SessionsOK
<1> QED
  BY <1>3, <1>4 DEF InHand

-----------------------------------------------------------------------------
(* The theorems *)

\* After a clean stop there is no row of that worker, however many workers there are and
\* however often processes are started, killed and stopped.
THEOREM StopsAreQuiet == Spec => []CleanStopsAreQuiet
<1>1. StopInv => CleanStopsAreQuiet
  BY DEF StopInv, StopOK, CleanStopsAreQuiet
<1> QED
  BY <1>1, InitStopInv, NextKeepsStopInv, PTL DEF Spec

\* The types, whatever is started, killed, found stale, reported and extended.
THEOREM TypeCorrect == Spec => []TypeOK
<1>1. StopInv /\ AlertsOK => TypeOK
  BY DEF StopInv, ThreadsOK, AlertsOK, TypeOK, SessionType, RowType, MainStates, BeatStates
<1> QED
  BY <1>1, InitStopInv, NextKeepsStopInv, InitAlertsOK, NextKeepsAlertsOK, PTL DEF Spec

\* Within a cooldown an alert is raised by each session that can be at it at most once,
\* however many pages and workers there are, and whatever is read, killed, or left pending.
THEOREM CooldownsAreKept ==
  ASSUME IsFiniteSet(Workers), IsFiniteSet(Pages)
  PROVE  Spec => []AlertsAreSpaced
<1>1. Init => SpacedInv
  BY SpacedHoldsInitially
<1>2. SpacedInv /\ [Next]_vars => SpacedInv'
  BY NextKeepsSpaced
<1>3. SpacedInv => AlertsAreSpaced
  BY SpacedMeansSpaced
<1> QED
  BY <1>1, <1>2, <1>3, PTL DEF Spec

\* A process whose heartbeats succeed is never reported dead, if the threshold is longer than
\* an interval and two writes: six intervals in the code, of which a write takes a fraction.
THEOREM NobodyIsBuriedAlive ==
  ASSUME IsFiniteSet(Workers), IsFiniteSet(Pages), 2 * MaxWrite + 1 <= StaleAfter
  PROVE  Spec => NoFalseAlarm
<1>1. Init => AlarmInv
  BY InitBeatsWell
<1>2. AlarmInv /\ [Next]_vars => AlarmInv'
  BY NextKeepsStopInv, NextKeepsSpaced, NextKeepsBeating, NextKeepsFinding DEF AlarmInv
<1>3. AlarmInv /\ [Next]_vars =>
        [\A n \in outbox' \ outbox : \A w \in Workers :
           n.alert = Alert("stale", w) /\ n.status = "pending" /\ healthy[w] # Null
             => n.created - healthy[w] <= StaleAfter]_vars
  BY InsertsAreFound DEF AlarmInv, FoundOK
<1> QED
  BY <1>1, <1>2, <1>3, PTL DEF Spec, NoFalseAlarm

=============================================================================

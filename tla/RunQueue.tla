------------------------------ MODULE RunQueue ------------------------------
(***************************************************************************)
(* The run queue of SignalMap and the processes that work on it: N         *)
(* scheduler workers (app/worker.py), HTTP requests that trigger a run by  *)
(* hand (app/routers/runs.py) and the queue page's retry and cancel        *)
(* buttons (app/routers/schedules.py).  They share nothing but the         *)
(* database: table run_queue is items, table runs is runs, and the         *)
(* per-client advisory lock of check_daily_quota is quotaLock.             *)
(*                                                                         *)
(* A step is what one transaction commits, or the part of one that other   *)
(* processes can run in between.  Time is clock; a worker computes with    *)
(* the `now' it read when its loop iteration began, which is passNow.      *)
(***************************************************************************)
EXTENDS Naturals, Sequences, FiniteSets

CONSTANTS
  Workers,           \* scheduler worker processes (docker compose replicas)
  Requests,          \* HTTP requests that trigger a run by hand
  Items,             \* rows run_queue may hold
  Pairs,             \* (prompt, model) combinations
  Personas,          \* personas a run can be framed with
  Clients,           \* clients, each with a daily run quota
  PairOf, PersonaOf, Priority,  \* [Items -> ...]: the columns fixed at insert
  ClientOf,          \* [Pairs -> Clients]: whom the prompt belongs to
  Manual,            \* "item" of a run that was triggered by hand
  Nobody,            \* no holder of an advisory lock, no item in hand
  DryRun,            \* workers started with SCHEDULER_DRY_RUN
  Backoff,           \* _BACKOFF_MINUTES, a sequence
  BillingRetry,      \* _BILLING_RETRY_MINUTES
  Lease,             \* scheduler_lease_minutes
  Grace,             \* scheduler_grace_period_minutes
  Cutoff,            \* age at which reconcile_interrupted_runs gives a run up
  MaxPass,           \* the longest a live process takes for one pass
  QuotaWindow,       \* the quota's 24 hours
  DailyLimit,        \* clients.daily_run_limit
  MaxClock,          \* bound: the model's horizon
  ArriveBy,          \* bound: items and requests arrive up to this time
  CrashBy,           \* bound: processes are killed up to this time
  MaxCrashes,        \* bound: how many are killed
  MaxRuns,           \* bound: run ids the liveness properties speak of
  Cancellable        \* bound: the items somebody may cancel

ASSUME TimesAreNaturals ==
  /\ {BillingRetry, Lease, Grace, Cutoff, MaxPass, QuotaWindow, DailyLimit,
      MaxClock, ArriveBy, CrashBy, MaxCrashes, MaxRuns} \subseteq Nat
  /\ Backoff \in Seq(Nat) /\ Len(Backoff) > 0

\* scheduler_lease_minutes (15) and the reconcile cutoff (30) are chosen above
\* the longest healthy pass: two provider attempts of 120 s (config.py).
ASSUME PassesAreShort == MaxPass <= Lease /\ MaxPass <= Cutoff

ASSUME ColumnsAreTyped ==
  /\ PairOf \in [Items -> Pairs] /\ PersonaOf \in [Items -> Personas]
  /\ Priority \in [Items -> Nat] /\ ClientOf \in [Pairs -> Clients]
  /\ Cancellable \subseteq Items /\ DryRun \subseteq Workers

ASSUME NamesAreDistinct ==
  /\ Workers \cap Requests = {}
  /\ Nobody \notin Workers \cup Requests \cup Items
  /\ Manual \notin Items

VARIABLES
  clock,
  items,       \* [Items -> Item], table run_queue
  runs,        \* Seq(Run), table runs; a run's id is its position
  quotaLock,   \* [Clients -> holder of the client's advisory lock]
  pc,          \* where each worker and request is
  passNow,     \* the `now' of the pass; for a request, when it began
  hand,        \* the item a worker processes, Nobody when it has none
  run,         \* the id of the run a process has inserted, 0 before that
  wanted,      \* [Requests -> Pairs \X Personas], what a request asks for
  maintained,  \* workers whose once-a-minute maintenance is not due
  cancelling,  \* items a cancel request has read as 'queued'
  crashes

vars == <<clock, items, runs, quotaLock, pc, passNow, hand, run, wanted,
          maintained, cancelling, crashes>>

Procs == Workers \cup Requests

MaxTransport == Len(Backoff) + 1
Terminal == {"done", "error", "skipped", "cancelled"}
Retryable == {"error", "skipped", "cancelled"}
Claimable == {"queued", "deferred"}

Statuses == Terminal \cup Claimable \cup {"none", "leased"}

\* A row of run_queue.  leasedUntil and runId are 0 for NULL.  leasedUntil is only
\* kept while the row is leased (the code leaves a stale value nobody reads); runId
\* stays, as in the code.
Item == [status: Statuses, scheduledFor: Nat, queuedAt: Nat, attempts: Nat,
         transport: Nat, leasedUntil: Nat, runId: Nat]

NoItem == [status |-> "none", scheduledFor |-> 0, queuedAt |-> 0, attempts |-> 0,
           transport |-> 0, leasedUntil |-> 0, runId |-> 0]

NewItem(due) == [NoItem EXCEPT !.status = "queued", !.scheduledFor = due,
                               !.queuedAt = clock]

\* "unknown" is an errored run whose message is "worker interrupted; provider
\* call outcome unknown", "unlinked" such a run that no queue row points at: its
\* worker died before it called anybody.
Run == [pair: Pairs, persona: Personas, item: Items \cup {Manual},
        status: {"pending", "success", "error", "unknown", "unlinked"}, startedAt: Nat]

Failures == {"billing", "retryable", "fatal"}
WorkerPcs == {"down", "idle", "release", "reconcile", "claim", "admit",
              "pair", "insert", "link", "call", "answered"} \cup Failures
RequestPcs == {"idle", "pair", "insert", "call", "over"}

TypeOK ==
  /\ clock \in 0..MaxClock
  /\ items \in [Items -> Item]
  /\ runs \in Seq(Run)
  /\ quotaLock \in [Clients -> Procs \cup {Nobody}]
  /\ pc \in [Procs -> WorkerPcs \cup RequestPcs]
  /\ \A w \in Workers : pc[w] \in WorkerPcs
  /\ \A r \in Requests : pc[r] \in RequestPcs
  /\ passNow \in [Procs -> 0..MaxClock]
  /\ hand \in [Workers -> Items \cup {Nobody}]
  /\ run \in [Procs -> Nat]
  /\ wanted \in [Requests -> Pairs \X Personas]
  /\ maintained \subseteq Workers
  /\ cancelling \subseteq Cancellable
  /\ crashes \in 0..MaxCrashes

Init ==
  /\ clock = 0
  /\ items = [i \in Items |-> NoItem]
  /\ runs = <<>>
  /\ quotaLock = [c \in Clients |-> Nobody]
  /\ pc = [p \in Procs |-> "idle"]
  /\ passNow = [p \in Procs |-> 0]
  /\ hand = [w \in Workers |-> Nobody]
  /\ run = [p \in Procs |-> 0]
  /\ wanted \in [Requests -> Pairs \X Personas]
  /\ maintained = {}
  /\ cancelling = {}
  /\ crashes = 0

-----------------------------------------------------------------------------
(* Helpers *)

Lesser(a, b) == IF a < b THEN a ELSE b

\* worker.py _backoff_minutes: the step of the n-th attempt, the last one for ever.
BackoffMinutes(n) == Backoff[Lesser(IF n = 0 THEN 1 ELSE n, Len(Backoff))]

\* The item's age for the grace check, from the earlier of its two times.
Age(i, now) ==
  LET born == Lesser(items[i].scheduledFor, items[i].queuedAt)
  IN  IF now > born THEN now - born ELSE 0

RunIds == DOMAIN runs
PendingRuns == {r \in RunIds : runs[r].status = "pending"}
PendingOn(pair) == {r \in PendingRuns : runs[r].pair = pair}

\* Mutant: only answered runs count.
Used_Answered(c, now) ==
  Cardinality({r \in RunIds : /\ ClientOf[runs[r].pair] = c
                              /\ runs[r].status = "success"
                              /\ runs[r].startedAt + QuotaWindow >= now})

\* daily_quota_usage: the client's runs of the trailing window, whatever their status.
Used(c, now) ==
  Cardinality({r \in RunIds : /\ ClientOf[runs[r].pair] = c
                              /\ runs[r].startedAt + QuotaWindow >= now})

\* The item (for a worker) or form (for a request) a process works for.
PairFor(p) == IF p \in Workers THEN PairOf[hand[p]] ELSE wanted[p][1]
PersonaFor(p) == IF p \in Workers THEN PersonaOf[hand[p]] ELSE wanted[p][2]

Goto(p, l) == pc' = [pc EXCEPT ![p] = l]
Unlock(p) == quotaLock' = [c \in Clients |-> IF quotaLock[c] = p THEN Nobody
                                             ELSE quotaLock[c]]

\* The end of a pass: the session closes, its transaction and locks with it.
Finish(p) ==
  /\ Goto(p, IF p \in Workers THEN "idle" ELSE "over")
  /\ hand' = [w \in Workers |-> IF w = p THEN Nobody ELSE hand[w]]
  /\ run' = [run EXCEPT ![p] = 0]
  /\ passNow' = [passNow EXCEPT ![p] = 0]
  /\ Unlock(p)

-----------------------------------------------------------------------------
(* How rows arrive: the ticker and the retry button *)

\* The ticker inserts the row of a window that came due at most Grace ago.
Enqueue(i) ==
  /\ items[i].status = "none" /\ clock <= ArriveBy
  /\ \E late \in 0..Lesser(Grace, clock) :
       items' = [items EXCEPT ![i] = NewItem(clock - late)]
  /\ UNCHANGED <<clock, runs, quotaLock, pc, passNow, hand, run, wanted,
                 maintained, cancelling, crashes>>

\* create_retry: a new row j with the columns of the settled row i.
Retry(i, j) ==
  /\ items[i].status \in Retryable
  /\ items[j].status = "none" /\ clock <= ArriveBy
  /\ PairOf[j] = PairOf[i] /\ PersonaOf[j] = PersonaOf[i] /\ Priority[j] = Priority[i]
  /\ items' = [items EXCEPT ![j] = NewItem(clock)]
  /\ UNCHANGED <<clock, runs, quotaLock, pc, passNow, hand, run, wanted,
                 maintained, cancelling, crashes>>

\* cancel_queued_item reads the row, and writes it without a lock.
CancelRead(i) ==
  /\ i \in Cancellable /\ items[i].status = "queued"
  /\ cancelling' = cancelling \cup {i}
  /\ UNCHANGED <<clock, items, runs, quotaLock, pc, passNow, hand, run, wanted,
                 maintained, crashes>>

CancelWrite(i) ==
  /\ i \in cancelling
  /\ items' = [items EXCEPT ![i] = [@ EXCEPT !.status = "cancelled", !.leasedUntil = 0]]
  /\ cancelling' = cancelling \ {i}
  /\ UNCHANGED <<clock, runs, quotaLock, pc, passNow, hand, run, wanted,
                 maintained, crashes>>

-----------------------------------------------------------------------------
(* The worker's loop: run_iteration *)

\* The iteration reads the clock once; the maintenance is due once a minute.
BeginPass(w) ==
  /\ pc[w] = "idle"
  /\ passNow' = [passNow EXCEPT ![w] = clock]
  /\ Goto(w, IF w \in maintained THEN "claim" ELSE "release")
  /\ UNCHANGED <<clock, items, runs, quotaLock, hand, run, wanted, maintained,
                 cancelling, crashes>>

\* Mutants: the lease ends one tick early; a called item is released, too.
Expired_Early(i, now) ==
  items[i].status = "leased" /\ items[i].leasedUntil <= now /\ items[i].runId = 0

Expired_Called(i, now) ==
  items[i].status = "leased" /\ items[i].leasedUntil < now

\* release_expired_leases
Expired(i, now) ==
  /\ items[i].status = "leased"
  /\ items[i].leasedUntil < now
  /\ items[i].runId = 0

ReleaseLeases(w) ==
  /\ pc[w] = "release"
  /\ items' = [i \in Items |->
                 IF Expired(i, passNow[w])
                 THEN [items[i] EXCEPT !.status = "queued", !.leasedUntil = 0]
                 ELSE items[i]]
  /\ Goto(w, "reconcile")
  /\ UNCHANGED <<clock, runs, quotaLock, passNow, hand, run, wanted, maintained,
                 cancelling, crashes>>

\* Mutant: only the scheduler's own runs are swept.
StaleRuns_Scheduled(now) ==
  {r \in RunIds : /\ runs[r].status = "pending" /\ runs[r].startedAt + Cutoff < now
                  /\ runs[r].item # Manual}

\* reconcile_interrupted_runs: give up the runs pending since before the cutoff
\* and the queue items that point at them.
StaleRuns(now) ==
  {r \in RunIds : runs[r].status = "pending" /\ runs[r].startedAt + Cutoff < now}

ReconcileAt(now) ==
  /\ runs' = [r \in RunIds |-> IF r \in StaleRuns(now)
                               THEN [runs[r] EXCEPT !.status =
                                       IF \E i \in Items : items[i].runId = r
                                       THEN "unknown" ELSE "unlinked"]
                               ELSE runs[r]]
  /\ items' = [i \in Items |->
                 IF /\ items[i].runId \in StaleRuns(now)
                    /\ items[i].status \notin {"done", "error", "cancelled"}
                 THEN [items[i] EXCEPT !.status = "error", !.leasedUntil = 0]
                 ELSE items[i]]

Reconcile(w) ==
  /\ pc[w] = "reconcile"
  /\ ReconcileAt(passNow[w])
  /\ maintained' = maintained \cup {w}
  /\ Goto(w, "claim")
  /\ UNCHANGED <<clock, quotaLock, passNow, hand, run, wanted, cancelling, crashes>>

\* Mutant: deferred is a dead end.
Due_QueuedOnly(now) ==
  {i \in Items : items[i].status = "queued" /\ items[i].scheduledFor <= now}

\* claim_next: the most urgent due row, under FOR UPDATE SKIP LOCKED.  Claims are
\* counted as far as BackoffMinutes tells them apart.
Due(now) == {i \in Items : items[i].status \in Claimable /\ items[i].scheduledFor <= now}

Precedes(i, j) ==
  \/ Priority[i] > Priority[j]
  \/ Priority[i] = Priority[j] /\ items[i].scheduledFor <= items[j].scheduledFor

Claim(w) ==
  /\ pc[w] = "claim"
  /\ \E i \in Due(passNow[w]) :
       /\ \A j \in Due(passNow[w]) : Precedes(i, j)
       /\ items' = [items EXCEPT ![i] =
                       [@ EXCEPT !.status = "leased",
                                 !.leasedUntil = passNow[w] + Lease,
                                 !.attempts = Lesser(items[i].attempts + 1, Len(Backoff))]]
       /\ hand' = [hand EXCEPT ![w] = i]
  /\ Goto(w, "admit")
  /\ UNCHANGED <<clock, runs, quotaLock, passNow, run, wanted, maintained,
                 cancelling, crashes>>

\* Nothing is due: a verification job gets its turn, then the loop sleeps.
NothingDue(w) ==
  /\ pc[w] = "claim" /\ Due(passNow[w]) = {}
  /\ Finish(w)
  /\ UNCHANGED <<clock, items, runs, wanted, maintained, cancelling, crashes>>

-----------------------------------------------------------------------------
(* process_claimed_item *)

\* A status commit that ends the pass.  It names the row by id, whatever it says now.
Settle(w, status) ==
  /\ items' = [items EXCEPT ![hand[w]] = [@ EXCEPT !.status = status, !.leasedUntil = 0]]
  /\ Finish(w)
  /\ UNCHANGED <<clock, runs, wanted, maintained, cancelling, crashes>>

Postpone(w, status, minutes, transport) ==
  /\ items' = [items EXCEPT ![hand[w]] =
                  [@ EXCEPT !.status = status, !.leasedUntil = 0,
                            !.scheduledFor = passNow[w] + minutes,
                            !.transport = transport]]
  /\ Finish(w)
  /\ UNCHANGED <<clock, runs, wanted, maintained, cancelling, crashes>>

GraceExpired(w) == Age(hand[w], passNow[w]) > Grace

SkipStale(w) ==
  /\ pc[w] = "admit" /\ GraceExpired(w)
  /\ Settle(w, "skipped")

\* The prompt or the model was deactivated; which ones are is left open.
SkipInactive(w) ==
  /\ pc[w] = "admit" /\ ~GraceExpired(w)
  /\ Settle(w, "skipped")

\* check_daily_quota: wait for the client's advisory lock, then count.
SkipOverQuota(w) ==
  /\ pc[w] = "admit" /\ ~GraceExpired(w)
  /\ quotaLock[ClientOf[PairFor(w)]] = Nobody
  /\ Used(ClientOf[PairFor(w)], passNow[w]) >= DailyLimit
  /\ Settle(w, "skipped")

\* Mutant: the count is not under the client's lock.
LockQuota_NoLock(p, now) ==
  /\ Used(ClientOf[PairFor(p)], now) < DailyLimit
  /\ Goto(p, "pair")
  /\ UNCHANGED quotaLock

LockQuota(p, now) ==
  /\ quotaLock[ClientOf[PairFor(p)]] = Nobody
  /\ Used(ClientOf[PairFor(p)], now) < DailyLimit
  /\ quotaLock' = [quotaLock EXCEPT ![ClientOf[PairFor(p)]] = p]
  /\ Goto(p, "pair")

PassQuota(w) ==
  /\ pc[w] = "admit" /\ ~GraceExpired(w)
  /\ LockQuota(w, passNow[w])
  /\ UNCHANGED <<clock, items, runs, passNow, hand, run, wanted, maintained,
                 cancelling, crashes>>

\* Another run of the same prompt and model is pending: come back later.
DeferCollision(w) ==
  /\ pc[w] = "pair" /\ PendingOn(PairFor(w)) # {}
  /\ Postpone(w, "deferred", BackoffMinutes(items[hand[w]].attempts),
              items[hand[w]].transport)

SkipDryRun(w) ==
  /\ pc[w] = "pair" /\ PendingOn(PairFor(w)) = {} /\ w \in DryRun
  /\ Settle(w, "skipped")

NoCollision(p) ==
  /\ pc[p] = "pair" /\ PendingOn(PairFor(p)) = {} /\ p \notin DryRun
  /\ Goto(p, "insert")
  /\ UNCHANGED <<clock, items, runs, quotaLock, passNow, hand, run, wanted,
                 maintained, cancelling, crashes>>

\* Insert the pending Run and commit, which also gives the advisory lock back.
InsertRun(p) ==
  /\ pc[p] = "insert"
  /\ runs' = Append(runs, [pair |-> PairFor(p), persona |-> PersonaFor(p),
                           item |-> IF p \in Workers THEN hand[p] ELSE Manual,
                           status |-> "pending", startedAt |-> clock])
  /\ run' = [run EXCEPT ![p] = Len(runs) + 1]
  /\ Goto(p, IF p \in Workers THEN "link" ELSE "call")
  /\ Unlock(p)
  /\ UNCHANGED <<clock, items, passNow, hand, wanted, maintained, cancelling, crashes>>

\* item.run_id = run.id, committed before the provider is called.
LinkRun(w) ==
  /\ pc[w] = "link"
  /\ items' = [items EXCEPT ![hand[w]].runId = run[w]]
  /\ Goto(w, "call")
  /\ UNCHANGED <<clock, runs, quotaLock, passNow, hand, run, wanted, maintained,
                 cancelling, crashes>>

\* execute_run commits what the provider answered.
EndRun(p, status) == runs' = [runs EXCEPT ![run[p]].status = status]

ProviderAnswers(w) ==
  /\ pc[w] = "call"
  /\ EndRun(w, "success")
  /\ Goto(w, "answered")
  /\ UNCHANGED <<clock, items, quotaLock, passNow, hand, run, wanted, maintained,
                 cancelling, crashes>>

ProviderFails(w) ==
  /\ pc[w] = "call"
  /\ EndRun(w, "error")
  /\ \E kind \in Failures : Goto(w, kind)
  /\ UNCHANGED <<clock, items, quotaLock, passNow, hand, run, wanted, maintained,
                 cancelling, crashes>>

MarkDone(w) ==
  /\ pc[w] = "answered"
  /\ Settle(w, "done")

\* Out of credit: wait for a top-up, uncounted, until the grace runs out.
DeferBilling(w) ==
  /\ pc[w] = "billing"
  /\ Postpone(w, "deferred", BillingRetry, items[hand[w]].transport)

Requeue(w) ==
  LET tries == items[hand[w]].transport + 1
  IN  /\ pc[w] = "retryable" /\ tries < MaxTransport
      /\ Postpone(w, "queued", BackoffMinutes(tries), tries)

MarkError(w) ==
  LET tries == items[hand[w]].transport + 1
  IN  /\ \/ pc[w] = "fatal"
         \/ pc[w] = "retryable" /\ tries >= MaxTransport
      /\ items' = [items EXCEPT ![hand[w]] =
                      [@ EXCEPT !.status = "error", !.leasedUntil = 0, !.transport = tries]]
      /\ Finish(w)
      /\ UNCHANGED <<clock, runs, wanted, maintained, cancelling, crashes>>

-----------------------------------------------------------------------------
(* trigger_run: the same checks, answered 409 instead of a skip or deferral *)

RequestPassesQuota(r) ==
  /\ pc[r] = "idle" /\ clock <= ArriveBy
  /\ passNow' = [passNow EXCEPT ![r] = clock]
  /\ LockQuota(r, clock)
  /\ UNCHANGED <<clock, items, runs, hand, run, wanted, maintained, cancelling, crashes>>

\* 409 over quota, pending already, or inactive: the session rolls back.
RequestRefused(r) ==
  /\ \/ /\ pc[r] = "idle" /\ clock <= ArriveBy
        /\ quotaLock[ClientOf[PairFor(r)]] = Nobody
        /\ Used(ClientOf[PairFor(r)], clock) >= DailyLimit
     \/ pc[r] = "pair" /\ PendingOn(PairFor(r)) # {}
     \/ pc[r] = "insert"
  /\ Finish(r)
  /\ UNCHANGED <<clock, items, runs, wanted, maintained, cancelling, crashes>>

RequestEnds(r) ==
  /\ pc[r] = "call"
  /\ \E status \in {"success", "error"} : EndRun(r, status)
  /\ Finish(r)
  /\ UNCHANGED <<clock, items, wanted, maintained, cancelling, crashes>>

-----------------------------------------------------------------------------
(* Crashes, restarts and time *)

\* The process is killed: Postgres drops its session and the locks it held.
Crash(p) ==
  /\ crashes < MaxCrashes /\ clock <= CrashBy
  /\ pc[p] \notin {"down", "idle", "over"}
  /\ crashes' = crashes + 1
  /\ Goto(p, IF p \in Workers THEN "down" ELSE "over")
  /\ hand' = [w \in Workers |-> IF w = p THEN Nobody ELSE hand[w]]
  /\ run' = [run EXCEPT ![p] = 0]
  /\ passNow' = [passNow EXCEPT ![p] = 0]
  /\ Unlock(p)
  /\ UNCHANGED <<clock, items, runs, wanted, maintained, cancelling>>

\* run_forever reconciles once before its first pass.
Restart(w) ==
  /\ pc[w] = "down"
  /\ ReconcileAt(clock)
  /\ maintained' = maintained \ {w}
  /\ Goto(w, "idle")
  /\ UNCHANGED <<clock, quotaLock, passNow, hand, run, wanted, cancelling, crashes>>

Busy(p) == pc[p] \notin {"down", "idle", "over"}

\* A minute passes, as long as no live process would exceed MaxPass.
Tick ==
  /\ clock < MaxClock
  /\ \A p \in Procs : Busy(p) => clock < passNow[p] + MaxPass
  /\ clock' = clock + 1
  /\ maintained' = {}
  /\ UNCHANGED <<items, runs, quotaLock, pc, passNow, hand, run, wanted,
                 cancelling, crashes>>

-----------------------------------------------------------------------------
WorkerStep(w) ==
  \/ BeginPass(w) \/ ReleaseLeases(w) \/ Reconcile(w) \/ Claim(w) \/ NothingDue(w)
  \/ SkipStale(w) \/ SkipInactive(w) \/ SkipOverQuota(w) \/ PassQuota(w)
  \/ DeferCollision(w) \/ SkipDryRun(w) \/ NoCollision(w) \/ InsertRun(w)
  \/ LinkRun(w) \/ ProviderAnswers(w) \/ ProviderFails(w)
  \/ MarkDone(w) \/ DeferBilling(w) \/ Requeue(w) \/ MarkError(w)

RequestStep(r) ==
  \/ RequestPassesQuota(r) \/ RequestRefused(r) \/ NoCollision(r)
  \/ InsertRun(r) \/ RequestEnds(r)

UserStep ==
  \E i \in Items :
    \/ Enqueue(i) \/ CancelRead(i) \/ CancelWrite(i)
    \/ \E j \in Items : Retry(i, j)

Next ==
  \/ \E w \in Workers : WorkerStep(w) \/ Restart(w)
  \/ \E r \in Requests : RequestStep(r)
  \/ \E p \in Procs : Crash(p)
  \/ UserStep
  \/ Tick

Spec == Init /\ [][Next]_vars

\* The containers restart (restart: unless-stopped), the loop never blocks for
\* good (every provider call has a timeout) and time goes on.
Fairness ==
  /\ \A w \in Workers : WF_vars(WorkerStep(w)) /\ WF_vars(Restart(w))
  /\ \A r \in Requests : WF_vars(pc[r] # "idle" /\ RequestStep(r))
  /\ WF_vars(Tick)

FairSpec == Spec /\ Fairness

-----------------------------------------------------------------------------
(* Properties *)

\* Two live workers never work on the same queue item: claim_next's lease and
\* release_expired_leases keep an item with the worker that claimed it.
ClaimExclusive ==
  \A v, w \in Workers : hand[v] = hand[w] /\ hand[v] # Nobody => v = w

\* An occurrence is sent to a provider again only after its previous run is
\* known to have failed, or was never sent: not while that run is pending, after it
\* was answered (and paid), or when its outcome is unknown (decision 13,
\* queue.py:364-367).
CalledAgainOnlyAfterFailure ==
  \A r, s \in RunIds :
    r < s /\ runs[r].item = runs[s].item /\ runs[r].item # Manual
      => runs[r].status \in {"error", "unlinked"}

\* At most one run of a (prompt, model) pair is pending, whichever workers and
\* requests start them: the SELECTs of process_claimed_item and trigger_run are
\* only safe because check_daily_quota's lock is still held when they insert.
OnePendingPerPair ==
  \A r, s \in RunIds :
    /\ runs[r].status = "pending" /\ runs[s].status = "pending"
    /\ runs[r].pair = runs[s].pair
    => r = s

\* In no trailing window does a client start more runs than its limit, however
\* queue and manual triggers interleave and however old a worker's `now' is.
QuotaHolds ==
  \A c \in Clients, t \in 0..MaxClock :
    Cardinality({r \in RunIds : /\ ClientOf[runs[r].pair] = c
                                /\ runs[r].startedAt <= t
                                /\ runs[r].startedAt + QuotaWindow >= t})
      <= DailyLimit

\* What came of the calls made for an item.  A provider is called once the run is
\* linked, and is called again only when every earlier call has failed.
LatestCall(i) ==
  LET known == {runs[r].status : r \in {r \in RunIds : runs[r].item = i}}
      calling == items[i].runId \in PendingRuns
  IN  IF calling THEN "pending"
      ELSE IF "success" \in known THEN "answered"
      ELSE IF "unknown" \in known THEN "unknown"
      ELSE IF "error" \in known THEN "failed"
      ELSE "none"

Stage(i) ==
  CASE items[i].status = "none"            -> "absent"
    [] items[i].status = "done"            -> "done"
    [] items[i].status \in Terminal \ {"done"} -> "dropped"
    [] OTHER                               -> "open"

Occurrences ==
  INSTANCE Occurrence WITH occ <- [i \in Items |-> [stage |-> Stage(i), call |-> LatestCall(i)]]

\* Without cancellations, leases, run linking, reconciliation, retries and crashes
\* implement the promise of Occurrence: no second call unless the first is known to
\* have failed (decision 13, queue.py:364-367), no answer reported as a failure, and
\* history is never rewritten (queue.py:423).
ImplementsOccurrence == Occurrences!Spec

\* An answered item whose worker was killed before it wrote "done": nothing takes
\* its lease away any more, for release looks for leases without a run and
\* reconciliation for pending runs.
Stranded(i) ==
  /\ items[i].status = "leased" /\ items[i].runId # 0
  /\ runs[items[i].runId].status \in {"success", "error"}
  /\ \A w \in Workers : hand[w] # i

\* Every item ends in a terminal status: a collision, a transport error, an unpaid
\* account or a killed worker postpones it, but not for ever; it is only lost when its
\* worker dies between the provider's answer and its own last commit.
EveryItemSettles ==
  \A i \in Items : items[i].status # "none" ~> items[i].status \in Terminal \/ Stranded(i)

\* Whoever dies during a provider call, and whether the run is scheduled or
\* manual, its run does not stay pending for ever.
PendingRunsResolve ==
  \A r \in 1..MaxRuns : (r \in RunIds /\ runs[r].status = "pending") ~>
                        (r \in RunIds /\ runs[r].status # "pending")

=============================================================================

--------------------------- MODULE RunQueue_proofs ---------------------------
(***************************************************************************)
(* What holds of RunQueue for every number of workers, requests, items and *)
(* clients, every timing constant and every interleaving: its types, and   *)
(* the inductive invariants behind ClaimExclusive, OnePendingPerPair and   *)
(* QuotaHolds (who works on a queue item, who has a pair's pending run,    *)
(* and how many runs a client has had).  Then, from these, that the queue  *)
(* keeps what module Occurrence promises.                                  *)
(***************************************************************************)
EXTENDS RunQueue, TLAPS, FiniteSetTheorems

\* The program counters at which a worker has a queue item in hand.
ItemPcs == {"admit", "pair", "insert", "link", "call", "answered"} \cup Failures

\* A worker has an item in hand exactly between claim_next and the end of the pass.
HandOK == \A w \in Workers : pc[w] \in ItemPcs <=> hand[w] # Nobody

TypeInv == TypeOK /\ HandOK

\* The part of TypeOK that speaks of the processes, and the part about the tables.
ProcType ==
  /\ quotaLock \in [Clients -> Procs \cup {Nobody}]
  /\ pc \in [Procs -> WorkerPcs \cup RequestPcs]
  /\ \A w \in Workers : pc[w] \in WorkerPcs
  /\ \A r \in Requests : pc[r] \in RequestPcs
  /\ passNow \in [Procs -> 0..MaxClock]
  /\ hand \in [Workers -> Items \cup {Nobody}]
  /\ run \in [Procs -> Nat]
  /\ HandOK

TableType ==
  /\ items \in [Items -> Item]
  /\ runs \in Seq(Run)
  /\ wanted \in [Requests -> Pairs \X Personas]
  /\ clock \in 0..MaxClock
  /\ maintained \subseteq Workers
  /\ cancelling \subseteq Cancellable
  /\ crashes \in 0..MaxCrashes

LEMMA TypeParts == TypeInv <=> ProcType /\ TableType
BY DEF TypeInv, TypeOK, ProcType, TableType

LEMMA TypePartsNext == TypeInv' <=> ProcType' /\ TableType'
BY DEF TypeInv, TypeOK, ProcType, TableType

USE DEF Procs

-----------------------------------------------------------------------------
(* The operators the actions are built from *)

\* The bounds one by one, for the leaves that need a single one of them.
LEMMA TimesTyped ==
  /\ MaxClock \in Nat /\ MaxCrashes \in Nat /\ Lease \in Nat /\ MaxPass \in Nat
  /\ BillingRetry \in Nat /\ Grace \in Nat
  /\ Backoff \in Seq(Nat) /\ Len(Backoff) \in Nat /\ Len(Backoff) > 0
BY TimesAreNaturals

LEMMA BackoffType == \A n \in Nat : BackoffMinutes(n) \in Nat
<1>1. SUFFICES ASSUME NEW n \in Nat PROVE BackoffMinutes(n) \in Nat
  OBVIOUS
<1>2. Lesser(IF n = 0 THEN 1 ELSE n, Len(Backoff)) \in 1..Len(Backoff)
  BY TimesTyped DEF Lesser
<1>3. \A k \in 1..Len(Backoff) : Backoff[k] \in Nat
  BY TimesTyped
<1>4. QED
  BY <1>2, <1>3 DEF BackoffMinutes

\* A worker that processes an item has one.
LEMMA HandType ==
  ASSUME TypeInv, NEW w \in Workers, pc[w] \in ItemPcs
  PROVE  hand[w] \in Items
BY DEF TypeInv, TypeOK, HandOK

\* What a process works for is typed wherever it is used.
LEMMA FormType ==
  ASSUME TypeInv, NEW p \in Procs,
         p \in Workers => pc[p] \in ItemPcs
  PROVE  /\ PairFor(p) \in Pairs
         /\ PersonaFor(p) \in Personas
         /\ ClientOf[PairFor(p)] \in Clients
<1>1. CASE p \in Workers
  <2>1. hand[p] \in Items
    BY <1>1, HandType
  <2>2. QED
    BY <1>1, <2>1, ColumnsAreTyped DEF PairFor, PersonaFor
<1>2. CASE p \notin Workers
  <2>1. wanted[p] \in Pairs \X Personas
    BY <1>2 DEF TypeInv, TypeOK
  <2>2. QED
    BY <1>2, <2>1, ColumnsAreTyped DEF PairFor, PersonaFor
<1>3. QED
  BY <1>1, <1>2

\* Rewriting rows of runs in place keeps a sequence of runs.
LEMMA RunsRewritten ==
  ASSUME runs \in Seq(Run), NEW f, f = [r \in RunIds |-> f[r]],
         \A r \in RunIds : f[r] \in Run
  PROVE  f \in Seq(Run)
<1>1. RunIds = 1..Len(runs) /\ Len(runs) \in Nat
  BY DEF RunIds
<1>2. QED
  BY <1>1

\* The end of a pass keeps the types of what it resets.
LEMMA FinishType ==
  ASSUME TypeInv, NEW p \in Procs, Finish(p)
  PROVE  ProcType'
<1> USE DEF TypeInv, TypeOK, Finish, Goto, Unlock, WorkerPcs, RequestPcs
<1>1. 0 \in 0..MaxClock
  BY TimesAreNaturals
<1>2. /\ pc' \in [Procs -> WorkerPcs \cup RequestPcs]
      /\ quotaLock' \in [Clients -> Procs \cup {Nobody}]
      /\ passNow' \in [Procs -> 0..MaxClock]
      /\ hand' \in [Workers -> Items \cup {Nobody}]
      /\ run' \in [Procs -> Nat]
  BY <1>1
<1>3. /\ \A w \in Workers : pc'[w] \in WorkerPcs
      /\ \A r \in Requests : pc'[r] \in RequestPcs
  BY NamesAreDistinct
<1>4. HandOK'
  BY NamesAreDistinct DEF HandOK, ItemPcs, Failures
<1>5. QED
  BY <1>2, <1>3, <1>4 DEF ProcType

-----------------------------------------------------------------------------
(* Type correctness *)

\* What the actions write into a row is a row again.
LEMMA RowTypes ==
  ASSUME NEW x \in Item, NEW status \in Statuses, NEW t \in Nat, NEW n \in Nat
  PROVE  /\ [x EXCEPT !.status = status, !.leasedUntil = 0] \in Item
         /\ [x EXCEPT !.status = status, !.leasedUntil = 0, !.scheduledFor = t,
                      !.transport = n] \in Item
         /\ [x EXCEPT !.status = status, !.leasedUntil = 0, !.transport = n] \in Item
         /\ [x EXCEPT !.status = status, !.leasedUntil = t, !.attempts = n] \in Item
         /\ [x EXCEPT !.runId = n] \in Item
BY DEF Item

LEMMA StatusTypes ==
  /\ \A s \in Terminal \cup Claimable \cup {"none", "leased"} : s \in Statuses
  /\ {"done", "error", "skipped", "cancelled", "queued", "deferred", "leased", "none"}
       \subseteq Statuses
BY DEF Statuses, Terminal, Claimable

LEMMA NewItemType == ASSUME NEW due \in Nat, clock \in Nat PROVE NewItem(due) \in Item
BY StatusTypes DEF NewItem, NoItem, Item

\* A worker writes the row it has in hand.
LEMMA HandRowType ==
  ASSUME TypeInv, NEW w \in Workers, pc[w] \in ItemPcs, NEW row \in Item,
         items' = [items EXCEPT ![hand[w]] = row]
  PROVE  items' \in [Items -> Item]
BY TypeParts DEF TableType

\* Initially nothing is typed wrongly and nobody has an item in hand.
LEMMA InitTypeInv == Init => TypeInv
<1> SUFFICES ASSUME Init PROVE TypeInv
  OBVIOUS
<1>1. TableType
  <2>1. 0 \in 0..MaxClock /\ 0 \in 0..MaxCrashes
    BY TimesAreNaturals
  <2>2. NoItem \in Item
    BY StatusTypes DEF NoItem, Item
  <2>3. QED
    BY <2>1, <2>2 DEF Init, TableType
<1>2. ProcType
  <2>1. 0 \in 0..MaxClock
    BY TimesAreNaturals
  <2>2. \A p \in Procs : pc[p] = "idle" /\ "idle" \in WorkerPcs \cap RequestPcs
    BY DEF Init, WorkerPcs, RequestPcs
  <2>3. HandOK
    BY <2>2 DEF Init, HandOK, ItemPcs, Failures
  <2>4. QED
    BY <2>1, <2>2, <2>3 DEF Init, ProcType
<1>3. QED
  BY <1>1, <1>2, TypeParts

\* A settled or postponed row is a row.
LEMMA SettleType ==
  ASSUME TypeInv, NEW w \in Workers, pc[w] \in ItemPcs,
         NEW status \in Terminal, Settle(w, status)
  PROVE  TypeInv'
<1>1. items[hand[w]] \in Item
  BY HandType, TypeParts DEF TableType
<1>2. items' \in [Items -> Item]
  BY <1>1, RowTypes, StatusTypes, HandRowType DEF Settle
<1>3. ProcType'
  BY FinishType DEF Settle
<1>4. TableType'
  BY <1>2, TypeParts DEF TableType, Settle
<1>5. QED
  BY <1>3, <1>4, TypePartsNext

LEMMA PostponeType ==
  ASSUME TypeInv, NEW w \in Workers, pc[w] \in ItemPcs, NEW status \in Claimable,
         NEW minutes \in Nat, NEW tries \in Nat, Postpone(w, status, minutes, tries)
  PROVE  TypeInv'
<1>1. items[hand[w]] \in Item
  BY HandType, TypeParts DEF TableType
<1>2. passNow[w] \in 0..MaxClock
  BY TypeParts DEF ProcType, Procs
<1>3a. passNow[w] + minutes \in Nat
  BY <1>2, TimesTyped
<1>3. items' \in [Items -> Item]
  BY <1>1, <1>3a, RowTypes, StatusTypes, HandRowType DEF Postpone
<1>4. ProcType'
  BY FinishType DEF Postpone
<1>5. TableType'
  BY <1>3, TypeParts DEF TableType, Postpone
<1>6. QED
  BY <1>4, <1>5, TypePartsNext

\* What happens to rows outside the worker's loop.
LEMMA UserType == TypeInv /\ UserStep => TypeInv'
<1> SUFFICES ASSUME TypeInv, NEW i \in Items, NEW j \in Items,
                    Enqueue(i) \/ CancelRead(i) \/ CancelWrite(i) \/ Retry(i, j)
             PROVE  TypeInv'
  BY DEF UserStep
<1>1. ProcType /\ TableType /\ clock \in Nat
  BY TypeParts DEF TableType
<1>2. ProcType'
  BY <1>1 DEF ProcType, HandOK, Enqueue, CancelRead, CancelWrite, Retry
<1>3. CASE Enqueue(i)
  <2>1. PICK late \in 0..Lesser(Grace, clock) :
               items' = [items EXCEPT ![i] = NewItem(clock - late)]
    BY <1>3 DEF Enqueue
  <2>2. clock - late \in Nat
    BY <1>1, TimesTyped DEF Lesser
  <2>3. TableType'
    BY <1>1, <1>3, <2>1, <2>2, NewItemType DEF TableType, Enqueue
  <2>4. QED
    BY <1>2, <2>3, TypePartsNext
<1>4. CASE CancelRead(i)
  <2>1. TableType'
    BY <1>1, <1>4 DEF TableType, CancelRead
  <2>2. QED
    BY <1>2, <2>1, TypePartsNext
<1>5. CASE CancelWrite(i)
  <2>1. [items[i] EXCEPT !.status = "cancelled", !.leasedUntil = 0] \in Item
    BY <1>1, RowTypes, StatusTypes DEF TableType
  <2>2. TableType'
    BY <1>1, <1>5, <2>1 DEF TableType, CancelWrite
  <2>3. QED
    BY <1>2, <2>2, TypePartsNext
<1>6. CASE Retry(i, j)
  <2>1. TableType'
    BY <1>1, <1>6, NewItemType DEF TableType, Retry
  <2>2. QED
    BY <1>2, <2>1, TypePartsNext
<1>7. QED
  BY <1>3, <1>4, <1>5, <1>6

\* reconcile_interrupted_runs rewrites runs and rows in place.
LEMMA ReconcileType ==
  ASSUME TableType, NEW now, ReconcileAt(now)
  PROVE  runs' \in Seq(Run) /\ items' \in [Items -> Item]
<1>1. runs' \in Seq(Run)
  <2>1. \A r \in RunIds : runs[r] \in Run
    BY DEF TableType, RunIds
  <2>2. \A r \in RunIds : runs'[r] \in Run
    BY <2>1 DEF ReconcileAt, Run
  <2>3. runs' = [r \in RunIds |-> runs'[r]]
    BY DEF ReconcileAt
  <2>4. QED
    BY <2>2, <2>3, RunsRewritten DEF TableType
<1>2. \A i \in Items : [items[i] EXCEPT !.status = "error", !.leasedUntil = 0] \in Item
  BY RowTypes, StatusTypes DEF TableType
<1>3. items' \in [Items -> Item]
  BY <1>2 DEF TableType, ReconcileAt
<1>4. QED
  BY <1>1, <1>3

\* The loop around process_claimed_item.
LEMMA LoopType ==
  ASSUME TypeInv, NEW w \in Workers,
         \/ BeginPass(w) \/ ReleaseLeases(w) \/ Reconcile(w) \/ Claim(w)
         \/ NothingDue(w) \/ Restart(w)
  PROVE  TypeInv'
<1>0. ProcType /\ TableType /\ w \notin Requests
  BY TypeParts, NamesAreDistinct
<1> USE DEF Goto, WorkerPcs, RequestPcs, ItemPcs, Failures
<1>1. CASE BeginPass(w)
  <2>1. TableType'
    BY <1>0, <1>1 DEF TableType, BeginPass
  <2>2. ProcType'
    BY <1>0, <1>1 DEF ProcType, HandOK, BeginPass, TableType
  <2>3. QED
    BY <2>1, <2>2, TypePartsNext
<1>2. CASE ReleaseLeases(w)
  <2>1. \A i \in Items : [items[i] EXCEPT !.status = "queued", !.leasedUntil = 0] \in Item
    BY <1>0, RowTypes, StatusTypes DEF TableType
  <2>2. TableType'
    BY <1>0, <1>2, <2>1 DEF TableType, ReleaseLeases
  <2>3. ProcType'
    BY <1>0, <1>2 DEF ProcType, HandOK, ReleaseLeases
  <2>4. QED
    BY <2>2, <2>3, TypePartsNext
<1>3. CASE Reconcile(w)
  <2>1. runs' \in Seq(Run) /\ items' \in [Items -> Item]
    BY <1>0, <1>3, ReconcileType DEF Reconcile
  <2>2. TableType'
    BY <1>0, <1>3, <2>1 DEF TableType, Reconcile
  <2>3. ProcType'
    BY <1>0, <1>3 DEF ProcType, HandOK, Reconcile
  <2>4. QED
    BY <2>2, <2>3, TypePartsNext
<1>4. CASE Claim(w)
  <2>1. PICK i \in Items :
          /\ items' = [items EXCEPT ![i] =
                          [@ EXCEPT !.status = "leased",
                                    !.leasedUntil = passNow[w] + Lease,
                                    !.attempts = Lesser(items[i].attempts + 1, Len(Backoff))]]
          /\ hand' = [hand EXCEPT ![w] = i]
    BY <1>4 DEF Claim, Due
  <2>2. passNow[w] + Lease \in Nat
    BY <1>0, TimesTyped DEF ProcType, Procs
  <2>3. items[i] \in Item /\ items[i].attempts \in Nat
    BY <1>0 DEF TableType, Item
  <2>4. \A n \in Nat : Lesser(n + 1, Len(Backoff)) \in Nat
    BY TimesTyped DEF Lesser
  <2>5. [items[i] EXCEPT !.status = "leased", !.leasedUntil = passNow[w] + Lease,
                         !.attempts = Lesser(items[i].attempts + 1, Len(Backoff))] \in Item
    BY <2>2, <2>3, <2>4, RowTypes, StatusTypes
  <2>6. items' \in [Items -> Item]
    BY <1>0, <2>1, <2>5 DEF TableType
  <2>7. TableType'
    BY <1>0, <1>4, <2>6 DEF TableType, Claim
  <2>8. i # Nobody
    BY NamesAreDistinct
  <2>9. ProcType'
    BY <1>0, <1>4, <2>1, <2>8 DEF ProcType, HandOK, Claim
  <2>10. QED
    BY <2>7, <2>9, TypePartsNext
<1>5. CASE NothingDue(w)
  <2>1. TableType'
    BY <1>0, <1>5 DEF TableType, NothingDue
  <2>2. ProcType'
    BY <1>5, FinishType DEF NothingDue
  <2>3. QED
    BY <2>1, <2>2, TypePartsNext
<1>6. CASE Restart(w)
  <2>1. runs' \in Seq(Run) /\ items' \in [Items -> Item]
    BY <1>0, <1>6, ReconcileType DEF Restart
  <2>2. TableType'
    BY <1>0, <1>6, <2>1 DEF TableType, Restart
  <2>3. ProcType'
    BY <1>0, <1>6 DEF ProcType, HandOK, Restart
  <2>4. QED
    BY <2>2, <2>3, TypePartsNext
<1>7. QED
  BY <1>1, <1>2, <1>3, <1>4, <1>5, <1>6

\* The run a process ends or inserts is typed.
LEMMA EndRunType ==
  ASSUME TypeInv, NEW p \in Procs, NEW status \in {"success", "error"}, EndRun(p, status)
  PROVE  runs' \in Seq(Run)
<1>1. runs' = [r \in RunIds |-> runs'[r]]
  BY TypeParts DEF TableType, EndRun, RunIds
<1>2. \A r \in RunIds : runs[r] \in Run
  BY TypeParts DEF TableType, RunIds
<1>3. \A r \in RunIds : runs'[r] \in Run
  BY <1>2 DEF EndRun, Run, RunIds
<1>4. QED
  BY <1>1, <1>3, RunsRewritten, TypeParts DEF TableType

LEMMA InsertRunType ==
  ASSUME TypeInv, NEW p \in Procs, InsertRun(p)
  PROVE  TypeInv'
<1>0. ProcType /\ TableType
  BY TypeParts
<1>1. PairFor(p) \in Pairs /\ PersonaFor(p) \in Personas
  BY FormType DEF InsertRun, ItemPcs
<1>2. p \in Workers => hand[p] \in Items
  BY HandType DEF InsertRun, ItemPcs
<1>3. [pair |-> PairFor(p), persona |-> PersonaFor(p),
       item |-> IF p \in Workers THEN hand[p] ELSE Manual,
       status |-> "pending", startedAt |-> clock] \in Run
  BY <1>0, <1>1, <1>2 DEF Run, TableType
<1>4. TableType'
  BY <1>0, <1>3 DEF TableType, InsertRun
<1>5. ProcType'
  BY <1>0, NamesAreDistinct
     DEF ProcType, HandOK, InsertRun, Goto, Unlock, WorkerPcs, RequestPcs, ItemPcs,
         Failures, TableType
<1>6. QED
  BY <1>4, <1>5, TypePartsNext

\* The passes that end with a commit of the item's status.
LEMMA PassEndType ==
  ASSUME TypeInv, NEW w \in Workers,
         \/ SkipStale(w) \/ SkipInactive(w) \/ SkipOverQuota(w) \/ DeferCollision(w)
         \/ SkipDryRun(w) \/ MarkDone(w) \/ DeferBilling(w) \/ Requeue(w) \/ MarkError(w)
  PROVE  TypeInv'
<1>1. CASE SkipStale(w) \/ SkipInactive(w) \/ SkipOverQuota(w) \/ SkipDryRun(w)
  <2>1. pc[w] \in ItemPcs /\ Settle(w, "skipped")
    BY <1>1 DEF SkipStale, SkipInactive, SkipOverQuota, SkipDryRun, ItemPcs
  <2>2. QED
    BY <2>1, SettleType DEF Terminal
<1>2. CASE MarkDone(w)
  <2>1. pc[w] \in ItemPcs /\ Settle(w, "done")
    BY <1>2 DEF MarkDone, ItemPcs
  <2>2. QED
    BY <2>1, SettleType DEF Terminal
<1>3. CASE DeferCollision(w) \/ DeferBilling(w) \/ Requeue(w)
  <2>1. pc[w] \in ItemPcs
    BY <1>3 DEF DeferCollision, DeferBilling, Requeue, ItemPcs, Failures
  <2>2. items[hand[w]] \in Item
    BY <2>1, HandType, TypeParts DEF TableType
  <2>3. /\ items[hand[w]].attempts \in Nat
        /\ items[hand[w]].transport \in Nat
        /\ items[hand[w]].transport + 1 \in Nat
    BY <2>2 DEF Item
  <2>4. PICK status \in Claimable, minutes \in Nat, tries \in Nat :
           Postpone(w, status, minutes, tries)
    BY <1>3, <2>3, BackoffType, TimesTyped
       DEF DeferCollision, DeferBilling, Requeue, Claimable
  <2>5. QED
    BY <2>1, <2>4, PostponeType
<1>4. CASE MarkError(w)
  <2>1. pc[w] \in ItemPcs
    BY <1>4 DEF MarkError, ItemPcs, Failures
  <2>2. items[hand[w]] \in Item
    BY <2>1, HandType, TypeParts DEF TableType
  <2>3. items[hand[w]].transport + 1 \in Nat
    BY <2>2 DEF Item
  <2>4. items' \in [Items -> Item]
    BY <1>4, <2>1, <2>2, <2>3, RowTypes, StatusTypes, HandRowType DEF MarkError
  <2>5. ProcType'
    BY <1>4, FinishType DEF MarkError
  <2>6. TableType'
    BY <1>4, <2>4, TypeParts DEF TableType, MarkError
  <2>7. QED
    BY <2>5, <2>6, TypePartsNext
<1>5. QED
  BY <1>1, <1>2, <1>3, <1>4

\* The steps of a worker or a request between the quota check and the answer.
LEMMA CallType ==
  ASSUME TypeInv, NEW p \in Procs,
         \/ NoCollision(p) \/ InsertRun(p)
         \/ p \in Workers /\ (PassQuota(p) \/ LinkRun(p) \/ ProviderAnswers(p) \/ ProviderFails(p))
         \/ p \in Requests /\ (RequestPassesQuota(p) \/ RequestRefused(p) \/ RequestEnds(p))
  PROVE  TypeInv'
<1>0. ProcType /\ TableType
  BY TypeParts
<1> USE DEF Goto, WorkerPcs, RequestPcs, ItemPcs, Failures
<1>1. CASE NoCollision(p)
  <2>1. TableType'
    BY <1>0, <1>1 DEF TableType, NoCollision
  <2>2. ProcType'
    BY <1>0, <1>1, NamesAreDistinct DEF ProcType, HandOK, NoCollision
  <2>3. QED
    BY <2>1, <2>2, TypePartsNext
<1>2. CASE InsertRun(p)
  BY <1>2, InsertRunType
<1>3. CASE p \in Workers /\ PassQuota(p)
  <2>1. TableType'
    BY <1>0, <1>3 DEF TableType, PassQuota
  <2>2. ProcType'
    BY <1>0, <1>3, NamesAreDistinct DEF ProcType, HandOK, PassQuota, LockQuota
  <2>3. QED
    BY <2>1, <2>2, TypePartsNext
<1>4. CASE p \in Workers /\ LinkRun(p)
  <2>1. hand[p] \in Items
    BY <1>4, HandType DEF LinkRun
  <2>2. items[hand[p]] \in Item /\ run[p] \in Nat
    BY <1>0, <2>1 DEF TableType, ProcType
  <2>3. [items[hand[p]] EXCEPT !.runId = run[p]] \in Item
    BY <2>2 DEF Item
  <2>4. TableType'
    BY <1>0, <1>4, <2>3 DEF TableType, LinkRun
  <2>5. ProcType'
    BY <1>0, <1>4, NamesAreDistinct DEF ProcType, HandOK, LinkRun
  <2>6. QED
    BY <2>4, <2>5, TypePartsNext
<1>5. CASE p \in Workers /\ (ProviderAnswers(p) \/ ProviderFails(p))
  <2>1. runs' \in Seq(Run)
    BY <1>5, EndRunType DEF ProviderAnswers, ProviderFails
  <2>2. TableType'
    BY <1>0, <1>5, <2>1 DEF TableType, ProviderAnswers, ProviderFails
  <2>3. ProcType'
    BY <1>0, <1>5, NamesAreDistinct DEF ProcType, HandOK, ProviderAnswers, ProviderFails
  <2>4. QED
    BY <2>2, <2>3, TypePartsNext
<1>6. CASE p \in Requests /\ RequestPassesQuota(p)
  <2>1. TableType'
    BY <1>0, <1>6 DEF TableType, RequestPassesQuota
  <2>2. quotaLock' \in [Clients -> Procs \cup {Nobody}]
    BY <1>0, <1>6 DEF ProcType, RequestPassesQuota, LockQuota
  <2>3. /\ pc' = [pc EXCEPT ![p] = "pair"] /\ hand' = hand /\ run' = run
        /\ passNow' = [passNow EXCEPT ![p] = clock]
    BY <1>6 DEF RequestPassesQuota, LockQuota
  <2>4. HandOK'
    BY <1>0, <1>6, <2>3, NamesAreDistinct DEF ProcType, HandOK
  <2>5. ProcType'
    BY <1>0, <1>6, <2>2, <2>3, <2>4, NamesAreDistinct DEF ProcType, TableType
  <2>6. QED
    BY <2>1, <2>5, TypePartsNext
<1>7. CASE p \in Requests /\ RequestRefused(p)
  <2>1. TableType'
    BY <1>0, <1>7 DEF TableType, RequestRefused
  <2>2. ProcType'
    BY <1>7, FinishType DEF RequestRefused
  <2>3. QED
    BY <2>1, <2>2, TypePartsNext
<1>8. CASE p \in Requests /\ RequestEnds(p)
  <2>1. runs' \in Seq(Run)
    BY <1>8, EndRunType DEF RequestEnds
  <2>2. TableType'
    BY <1>0, <1>8, <2>1 DEF TableType, RequestEnds
  <2>3. ProcType'
    BY <1>8, FinishType DEF RequestEnds
  <2>4. QED
    BY <2>2, <2>3, TypePartsNext
<1>9. QED
  BY <1>1, <1>2, <1>3, <1>4, <1>5, <1>6, <1>7, <1>8

\* A crash and the passing of time.
LEMMA CrashTickType ==
  ASSUME TypeInv, Tick \/ \E p \in Procs : Crash(p)
  PROVE  TypeInv'
<1>0. ProcType /\ TableType
  BY TypeParts
<1>1. CASE Tick
  <2>1. TableType'
    <3>1. clock' \in 0..MaxClock
      BY <1>0, <1>1, TimesTyped DEF TableType, Tick
    <3>2. QED
      BY <1>0, <1>1, <3>1 DEF TableType, Tick
  <2>2. ProcType'
    BY <1>0, <1>1 DEF ProcType, HandOK, Tick
  <2>3. QED
    BY <2>1, <2>2, TypePartsNext
<1>2. ASSUME NEW p \in Procs, Crash(p) PROVE TypeInv'
  <2>1. TableType'
    <3>1. crashes' \in 0..MaxCrashes
      BY <1>0, <1>2, TimesTyped DEF TableType, Crash
    <3>2. QED
      BY <1>0, <1>2, <3>1 DEF TableType, Crash
  <2>2. /\ \A w \in Workers : pc'[w] \in WorkerPcs
        /\ \A r \in Requests : pc'[r] \in RequestPcs
        /\ pc' \in [Procs -> WorkerPcs \cup RequestPcs]
    BY <1>0, <1>2, NamesAreDistinct DEF ProcType, Crash, Goto, WorkerPcs, RequestPcs
  <2>3. HandOK'
    BY <1>0, <1>2, NamesAreDistinct DEF ProcType, HandOK, Crash, Goto, ItemPcs, Failures
  <2>4. ProcType'
    BY <1>0, <1>2, <2>2, <2>3, TimesTyped DEF ProcType, Crash, Unlock
  <2>5. QED
    BY <2>1, <2>4, TypePartsNext
<1>3. QED
  BY <1>1, <1>2

\* Every step keeps the types.
LEMMA NextType == TypeInv /\ [Next]_vars => TypeInv'
<1> SUFFICES ASSUME TypeInv, [Next]_vars PROVE TypeInv'
  OBVIOUS
<1>1. ASSUME NEW w \in Workers, WorkerStep(w) \/ Restart(w) PROVE TypeInv'
  BY <1>1, LoopType, PassEndType, CallType DEF WorkerStep
<1>2. ASSUME NEW r \in Requests, RequestStep(r) PROVE TypeInv'
  BY <1>2, CallType DEF RequestStep
<1>3. CASE UserStep
  BY <1>3, UserType
<1>4. CASE Tick \/ \E p \in Procs : Crash(p)
  BY <1>4, CrashTickType
<1>5. CASE UNCHANGED vars
  <2>1. ProcType /\ TableType
    BY TypeParts
  <2>2. ProcType' /\ TableType'
    BY <1>5, <2>1 DEF vars, ProcType, HandOK, TableType
  <2>3. QED
    BY <2>2, TypePartsNext
<1>6. QED
  BY <1>1, <1>2, <1>3, <1>4, <1>5 DEF Next

\* The variables keep their types, and a worker has an item in hand exactly
\* between claim_next and the commit that ends its pass, in every execution.
THEOREM TypeCorrect == Spec => []TypeInv
<1>1. QED
  BY InitTypeInv, NextType, PTL DEF Spec

-----------------------------------------------------------------------------
\* A pass's `now' is in the past, and no pass is older than MaxPass.
PassesAreTimely ==
  \A p \in Procs : /\ passNow[p] <= clock
                   /\ Busy(p) => clock <= passNow[p] + MaxPass

\* Nobody may claim an item that is in hand, and its lease outlasts the pass.
HandedRow ==
  \A w \in Workers : hand[w] # Nobody =>
    /\ items[hand[w]].status \notin Claimable \cup {"none"}
    /\ items[hand[w]].status = "leased" => items[hand[w]].leasedUntil >= passNow[w] + Lease

LeaseInv == TypeInv /\ PassesAreTimely /\ HandedRow /\ ClaimExclusive

\* Between the quota check and the insert a process holds its client's lock.
LockIsHeld ==
  \A p \in Procs : pc[p] \in {"pair", "insert"} => quotaLock[ClientOf[PairFor(p)]] = p

\* The collision check of process_claimed_item and trigger_run is still right
\* when the run is inserted.
PairIsFree == \A p \in Procs : pc[p] = "insert" => PendingOn(PairFor(p)) = {}

PendingInv == TypeInv /\ LockIsHeld /\ PairIsFree /\ OnePendingPerPair

USE DEF Procs

-----------------------------------------------------------------------------
(* Time *)

\* A pass ends before MaxPass has gone by, whoever runs it.
LEMMA TimelyStep ==
  ASSUME TypeInv, TypeInv', PassesAreTimely, [Next]_vars
  PROVE  PassesAreTimely'
<1>0. /\ clock \in Nat /\ clock' \in Nat /\ MaxPass \in Nat
      /\ pc \in [Procs -> WorkerPcs \cup RequestPcs]
      /\ pc' \in [Procs -> WorkerPcs \cup RequestPcs]
      /\ \A p \in Procs : passNow[p] \in Nat /\ passNow'[p] \in Nat
      /\ passNow \in [Procs -> 0..MaxClock] /\ passNow' \in [Procs -> 0..MaxClock]
  <2>1. MaxClock \in Nat /\ MaxPass \in Nat
    BY TimesAreNaturals
  <2>2. /\ passNow \in [Procs -> 0..MaxClock] /\ passNow' \in [Procs -> 0..MaxClock]
        /\ clock \in 0..MaxClock /\ clock' \in 0..MaxClock
    BY DEF TypeInv, TypeOK
  <2>3. /\ pc \in [Procs -> WorkerPcs \cup RequestPcs]
        /\ pc' \in [Procs -> WorkerPcs \cup RequestPcs]
    BY DEF TypeInv, TypeOK
  <2>4. QED
    BY <2>1, <2>2, <2>3
<1> USE DEF PassesAreTimely, Busy
<1>1. CASE UNCHANGED <<clock, pc, passNow>>
  BY <1>1
<1>2. CASE Tick
  <2>1. ASSUME NEW p \in Procs
        PROVE  passNow[p] <= clock + 1 /\ (Busy(p) => clock + 1 <= passNow[p] + MaxPass)
    BY <1>0, <1>2, <2>1 DEF Tick
  <2>2. clock' = clock + 1 /\ pc' = pc /\ passNow' = passNow
    BY <1>2 DEF Tick
  <2>3. QED
    BY <2>1, <2>2
<1>3. ASSUME NEW p \in Procs, clock' = clock, Finish(p) PROVE PassesAreTimely'
  BY <1>0, <1>3 DEF Finish, Goto
<1>4. ASSUME NEW p \in Procs, clock' = clock, passNow' = [passNow EXCEPT ![p] = clock],
             \E l : Goto(p, l)
      PROVE  PassesAreTimely'
  BY <1>0, <1>4 DEF Goto
<1>5. ASSUME NEW p \in Procs, NEW l, UNCHANGED <<clock, passNow>>, Goto(p, l),
             Busy(p) \/ l = "idle"
      PROVE  PassesAreTimely'
  BY <1>0, <1>5 DEF Goto
<1>6. ASSUME NEW w \in Workers, WorkerStep(w) PROVE PassesAreTimely'
  <2>1. CASE BeginPass(w)
    BY <1>4, <2>1 DEF BeginPass
  <2>2. CASE \/ NothingDue(w) \/ SkipStale(w) \/ SkipInactive(w) \/ SkipOverQuota(w)
             \/ SkipDryRun(w) \/ MarkDone(w)
    BY <1>3, <2>2
       DEF NothingDue, SkipStale, SkipInactive, SkipOverQuota, SkipDryRun, MarkDone, Settle
  <2>3. CASE DeferCollision(w) \/ DeferBilling(w) \/ Requeue(w) \/ MarkError(w)
    BY <1>3, <2>3 DEF DeferCollision, DeferBilling, Requeue, MarkError, Postpone
  <2>4. CASE \/ ReleaseLeases(w) \/ Reconcile(w) \/ Claim(w) \/ PassQuota(w)
             \/ NoCollision(w) \/ InsertRun(w) \/ LinkRun(w)
             \/ ProviderAnswers(w) \/ ProviderFails(w)
    <3>1. PICK l : Goto(w, l)
      BY <2>4 DEF ReleaseLeases, Reconcile, Claim, PassQuota, LockQuota, NoCollision,
                  InsertRun, LinkRun, ProviderAnswers, ProviderFails
    <3>2. UNCHANGED <<clock, passNow>> /\ Busy(w)
      BY <2>4 DEF ReleaseLeases, Reconcile, Claim, PassQuota, NoCollision,
                  InsertRun, LinkRun, ProviderAnswers, ProviderFails
    <3>3. QED
      BY <1>5, <3>1, <3>2
  <2>5. QED
    BY <1>6, <2>1, <2>2, <2>3, <2>4 DEF WorkerStep
<1>7. ASSUME NEW w \in Workers, Restart(w) PROVE PassesAreTimely'
  BY <1>5, <1>7 DEF Restart
<1>8. ASSUME NEW r \in Requests, RequestStep(r) PROVE PassesAreTimely'
  <2>1. CASE RequestPassesQuota(r)
    BY <1>4, <2>1 DEF RequestPassesQuota, LockQuota
  <2>2. CASE RequestRefused(r) \/ RequestEnds(r)
    BY <1>3, <2>2 DEF RequestRefused, RequestEnds
  <2>3. CASE NoCollision(r) \/ InsertRun(r)
    BY <1>5, <2>3 DEF NoCollision, InsertRun
  <2>4. QED
    BY <1>8, <2>1, <2>2, <2>3 DEF RequestStep
<1>9. ASSUME NEW p \in Procs, Crash(p) PROVE PassesAreTimely'
  BY <1>0, <1>9 DEF Crash, Goto
<1>10. CASE UserStep
  BY <1>1, <1>10 DEF UserStep, Enqueue, CancelRead, CancelWrite, Retry
<1>11. QED
  BY <1>1, <1>2, <1>6, <1>7, <1>8, <1>9, <1>10 DEF Next, vars

-----------------------------------------------------------------------------
(* Leases *)

\* release_expired_leases leaves the item of a live worker alone: its lease was
\* taken at the start of the pass and is at least as long as a pass may last.
LEMMA LeaseOutlastsPass ==
  ASSUME LeaseInv, NEW v \in Workers, NEW w \in Workers, hand[w] # Nobody
  PROVE  ~Expired(hand[w], passNow[v])
<1>1. hand[w] \in Items /\ pc[w] \in ItemPcs
  BY DEF LeaseInv, TypeInv, TypeOK, HandOK
<1>2. Busy(w)
  BY <1>1 DEF Busy, ItemPcs, Failures
<1>3. /\ items[hand[w]].leasedUntil \in Nat /\ clock \in Nat
      /\ passNow[v] \in Nat /\ passNow[w] \in Nat
  BY <1>1 DEF LeaseInv, TypeInv, TypeOK, Item
<1>4. passNow[v] <= clock /\ clock <= passNow[w] + MaxPass
  BY <1>2 DEF LeaseInv, PassesAreTimely
<1>5. MaxPass \in Nat /\ Lease \in Nat /\ MaxPass <= Lease
  BY TimesAreNaturals, PassesAreShort
<1>6. passNow[v] <= passNow[w] + Lease
  BY <1>3, <1>4, <1>5
<1>7. items[hand[w]].status = "leased" => items[hand[w]].leasedUntil >= passNow[w] + Lease
  BY DEF LeaseInv, HandedRow
<1>8. QED
  BY <1>3, <1>5, <1>6, <1>7 DEF Expired

\* A row a worker with the given `now' may have in hand.
SafeRow(row, now) ==
  /\ row.status \notin Claimable \cup {"none"}
  /\ row.status = "leased" => row.leasedUntil >= now + Lease

\* A step that hands nothing out and keeps every row in hand safe.
Undisturbed ==
  \A w \in Workers : hand'[w] # Nobody =>
    /\ hand'[w] = hand[w] /\ passNow'[w] = passNow[w]
    /\ SafeRow(items'[hand[w]], passNow[w])

LEMMA UndisturbedSuffices ==
  ASSUME LeaseInv, Undisturbed
  PROVE  HandedRow' /\ ClaimExclusive'
BY DEF LeaseInv, HandedRow, ClaimExclusive, Undisturbed, SafeRow

LEMMA HandedIsSafe ==
  ASSUME LeaseInv, NEW w \in Workers, hand[w] # Nobody
  PROVE  hand[w] \in Items /\ SafeRow(items[hand[w]], passNow[w])
BY DEF LeaseInv, HandedRow, SafeRow, TypeInv, TypeOK

\* The end of a pass writes at most the row the process had in hand.
LEMMA EndOfPass ==
  ASSUME LeaseInv, NEW p \in Procs,
         hand' = [w \in Workers |-> IF w = p THEN Nobody ELSE hand[w]],
         passNow' = [passNow EXCEPT ![p] = 0],
         \A i \in Items : items'[i] = items[i] \/ (p \in Workers /\ hand[p] = i)
  PROVE  Undisturbed
<1> SUFFICES ASSUME NEW w \in Workers, hand'[w] # Nobody
             PROVE  /\ hand'[w] = hand[w] /\ passNow'[w] = passNow[w]
                    /\ SafeRow(items'[hand[w]], passNow[w])
  BY DEF Undisturbed
<1>1. w # p /\ hand'[w] = hand[w] /\ hand[w] # Nobody
  OBVIOUS
<1>2. passNow'[w] = passNow[w]
  BY <1>1 DEF LeaseInv, TypeInv, TypeOK
<1>3. hand[w] \in Items /\ SafeRow(items[hand[w]], passNow[w])
  BY <1>1, HandedIsSafe
<1>4. ~(p \in Workers /\ hand[p] = hand[w])
  BY <1>1 DEF LeaseInv, ClaimExclusive
<1>5. items'[hand[w]] = items[hand[w]]
  BY <1>3, <1>4
<1>6. QED
  BY <1>1, <1>2, <1>3, <1>5

\* A step within a pass that hands nothing out.
LEMMA WithinPass ==
  ASSUME LeaseInv, UNCHANGED <<hand, passNow>>,
         \A w \in Workers : hand[w] # Nobody => SafeRow(items'[hand[w]], passNow[w])
  PROVE  Undisturbed
BY DEF Undisturbed

LEMMA ItemsKept ==
  ASSUME LeaseInv, UNCHANGED <<hand, passNow, items>>
  PROVE  Undisturbed
BY HandedIsSafe DEF Undisturbed

\* Rows that stay as they are, or get a terminal status, stay safe.
LEMMA TerminalIsSafe ==
  ASSUME NEW row, NEW now, row.status \in Terminal
  PROVE  SafeRow(row, now)
BY DEF SafeRow, Terminal, Claimable

LEMMA ReconcileIsSafe ==
  ASSUME LeaseInv, NEW now, ReconcileAt(now), NEW w \in Workers, hand[w] # Nobody
  PROVE  SafeRow(items'[hand[w]], passNow[w])
<1>1. hand[w] \in Items /\ SafeRow(items[hand[w]], passNow[w])
  BY HandedIsSafe
<1>2. items[hand[w]] \in Item
  BY <1>1 DEF LeaseInv, TypeInv, TypeOK
<1>3. CASE items'[hand[w]] = items[hand[w]]
  BY <1>1, <1>3
<1>4. CASE items'[hand[w]] = [items[hand[w]] EXCEPT !.status = "error", !.leasedUntil = 0]
  <2>1. items'[hand[w]].status = "error"
    BY <1>2, <1>4 DEF Item
  <2>2. QED
    BY <2>1, TerminalIsSafe DEF Terminal
<1>5. QED
  BY <1>1, <1>3, <1>4 DEF ReconcileAt

\* The loop around process_claimed_item, except claim_next.
LEMMA LoopUndisturbed ==
  ASSUME LeaseInv, NEW w \in Workers,
         BeginPass(w) \/ ReleaseLeases(w) \/ Reconcile(w) \/ NothingDue(w) \/ Restart(w)
  PROVE  Undisturbed
<1>0. pc[w] \notin ItemPcs => hand[w] = Nobody
  BY DEF LeaseInv, TypeInv, HandOK
<1>1. CASE BeginPass(w)
  <2>1. hand[w] = Nobody
    BY <1>0, <1>1 DEF BeginPass, ItemPcs, Failures
  <2>2. passNow \in [Procs -> 0..MaxClock]
    BY DEF LeaseInv, TypeInv, TypeOK
  <2>3. QED
    BY <1>1, <2>1, <2>2, HandedIsSafe DEF BeginPass, Undisturbed
<1>2. CASE ReleaseLeases(w)
  <2>1. ASSUME NEW v \in Workers, hand[v] # Nobody
        PROVE  SafeRow(items'[hand[v]], passNow[v])
    <3>1. hand[v] \in Items /\ SafeRow(items[hand[v]], passNow[v])
      BY <2>1, HandedIsSafe
    <3>2. ~Expired(hand[v], passNow[w])
      BY <2>1, LeaseOutlastsPass
    <3>3. QED
      BY <1>2, <3>1, <3>2 DEF ReleaseLeases
  <2>2. QED
    BY <1>2, <2>1, WithinPass DEF ReleaseLeases
<1>3. CASE Reconcile(w)
  BY <1>3, ReconcileIsSafe, WithinPass DEF Reconcile
<1>4. CASE NothingDue(w)
  BY <1>4, EndOfPass DEF NothingDue, Finish
<1>5. CASE Restart(w)
  BY <1>5, ReconcileIsSafe, WithinPass DEF Restart
<1>6. QED
  BY <1>1, <1>2, <1>3, <1>4, <1>5

\* process_claimed_item.
LEMMA ProcessUndisturbed ==
  ASSUME LeaseInv, NEW w \in Workers,
         \/ SkipStale(w) \/ SkipInactive(w) \/ SkipOverQuota(w) \/ PassQuota(w)
         \/ DeferCollision(w) \/ SkipDryRun(w) \/ LinkRun(w)
         \/ ProviderAnswers(w) \/ ProviderFails(w)
         \/ MarkDone(w) \/ DeferBilling(w) \/ Requeue(w) \/ MarkError(w)
  PROVE  Undisturbed
<1>0. items \in [Items -> Item]
  BY DEF LeaseInv, TypeInv, TypeOK
<1>1. ASSUME NEW status, Settle(w, status) PROVE Undisturbed
  BY <1>0, <1>1, EndOfPass DEF Settle, Finish
<1>2. ASSUME NEW status, NEW minutes, NEW tries, Postpone(w, status, minutes, tries)
      PROVE  Undisturbed
  BY <1>0, <1>2, EndOfPass DEF Postpone, Finish
<1>3. CASE MarkError(w)
  BY <1>0, <1>3, EndOfPass DEF MarkError, Finish
<1>4. CASE LinkRun(w)
  <2>1. ASSUME NEW v \in Workers, hand[v] # Nobody
        PROVE  SafeRow(items'[hand[v]], passNow[v])
    <3>1. hand[v] \in Items /\ SafeRow(items[hand[v]], passNow[v])
      BY <2>1, HandedIsSafe
    <3>2. items[hand[v]] \in Item
      BY <1>0, <3>1
    <3>3. /\ items'[hand[v]].status = items[hand[v]].status
          /\ items'[hand[v]].leasedUntil = items[hand[v]].leasedUntil
      BY <1>0, <1>4, <3>1, <3>2 DEF LinkRun, Item
    <3>4. QED
      BY <3>1, <3>3 DEF SafeRow
  <2>2. QED
    BY <1>4, <2>1, WithinPass DEF LinkRun
<1>5. CASE PassQuota(w) \/ ProviderAnswers(w) \/ ProviderFails(w)
  BY <1>5, ItemsKept DEF PassQuota, ProviderAnswers, ProviderFails
<1>6. QED
  BY <1>1, <1>2, <1>3, <1>4, <1>5
     DEF SkipStale, SkipInactive, SkipOverQuota, DeferCollision, SkipDryRun, MarkDone,
         DeferBilling, Requeue

\* Requests, the rest of the world, crashes and time.
LEMMA OthersUndisturbed ==
  ASSUME LeaseInv,
         \/ \E p \in Procs : NoCollision(p) \/ InsertRun(p) \/ Crash(p)
         \/ \E r \in Requests : RequestPassesQuota(r) \/ RequestRefused(r) \/ RequestEnds(r)
         \/ UserStep \/ Tick \/ UNCHANGED vars
  PROVE  Undisturbed
<1>1. ASSUME NEW p \in Procs, NoCollision(p) \/ InsertRun(p) PROVE Undisturbed
  BY <1>1, ItemsKept DEF NoCollision, InsertRun
<1>2. ASSUME NEW p \in Procs, Crash(p) PROVE Undisturbed
  BY <1>2, EndOfPass DEF Crash
<1>3. ASSUME NEW r \in Requests, RequestRefused(r) \/ RequestEnds(r) PROVE Undisturbed
  BY <1>3, EndOfPass DEF RequestRefused, RequestEnds, Finish
<1>4. ASSUME NEW r \in Requests, RequestPassesQuota(r) PROVE Undisturbed
  <2>1. passNow \in [Procs -> 0..MaxClock] /\ r \notin Workers
    BY NamesAreDistinct DEF LeaseInv, TypeInv, TypeOK
  <2>2. QED
    BY <1>4, <2>1, HandedIsSafe DEF RequestPassesQuota, Undisturbed
<1>5. CASE UserStep
  <2>1. PICK i \in Items, j \in Items :
           Enqueue(i) \/ CancelRead(i) \/ CancelWrite(i) \/ Retry(i, j)
    BY <1>5 DEF UserStep
  <2>2. ASSUME NEW w \in Workers, hand[w] # Nobody
        PROVE  SafeRow(items'[hand[w]], passNow[w])
    <3>1. hand[w] \in Items /\ SafeRow(items[hand[w]], passNow[w])
      BY <2>2, HandedIsSafe
    <3>2. items[hand[w]].status # "none" /\ items \in [Items -> Item]
      BY <3>1 DEF SafeRow, LeaseInv, TypeInv, TypeOK
    <3>3. CASE Enqueue(i) \/ CancelRead(i) \/ Retry(i, j)
      BY <3>1, <3>2, <3>3 DEF Enqueue, CancelRead, Retry
    <3>4. CASE CancelWrite(i)
      <4>1. CASE hand[w] = i
        <5>1. items'[hand[w]].status = "cancelled"
          BY <3>1, <3>2, <3>4, <4>1 DEF CancelWrite, Item
        <5>2. QED
          BY <5>1, TerminalIsSafe DEF Terminal
      <4>2. CASE hand[w] # i
        BY <3>1, <3>2, <3>4, <4>2 DEF CancelWrite
      <4>3. QED
        BY <4>1, <4>2
    <3>5. QED
      BY <2>1, <3>3, <3>4
  <2>3. QED
    BY <2>1, <2>2, WithinPass DEF Enqueue, CancelRead, CancelWrite, Retry
<1>6. CASE Tick \/ UNCHANGED vars
  BY <1>6, ItemsKept DEF Tick, vars
<1>7. QED
  BY <1>1, <1>2, <1>3, <1>4, <1>5, <1>6

\* claim_next hands out a row nobody has in hand.
LEMMA ClaimIsExclusive ==
  ASSUME LeaseInv, NEW w \in Workers, Claim(w)
  PROVE  HandedRow' /\ ClaimExclusive'
<1>0. /\ items \in [Items -> Item] /\ hand \in [Workers -> Items \cup {Nobody}]
      /\ passNow' = passNow /\ passNow[w] \in Nat
  BY DEF LeaseInv, TypeInv, TypeOK, Claim
<1>1. PICK i \in Due(passNow[w]) :
        /\ items' = [items EXCEPT ![i] =
                        [@ EXCEPT !.status = "leased",
                                  !.leasedUntil = passNow[w] + Lease,
                                  !.attempts = Lesser(items[i].attempts + 1, Len(Backoff))]]
        /\ hand' = [hand EXCEPT ![w] = i]
  BY DEF Claim
<1>2. i \in Items /\ items[i].status \in Claimable
  BY DEF Due
<1>3. \A v \in Workers : hand[v] # i
  BY <1>2, NamesAreDistinct DEF LeaseInv, HandedRow
<1>4. ClaimExclusive'
  BY <1>0, <1>1, <1>3 DEF LeaseInv, ClaimExclusive
<1>5. items'[i].status = "leased" /\ items'[i].leasedUntil = passNow[w] + Lease
  BY <1>0, <1>1, <1>2 DEF Item
<1>6. SafeRow(items'[i], passNow[w])
  BY <1>0, <1>5, TimesAreNaturals DEF SafeRow, Claimable
<1>7. ASSUME NEW v \in Workers, hand'[v] # Nobody
      PROVE  SafeRow(items'[hand'[v]], passNow'[v])
  <2>1. CASE v = w
    BY <1>0, <1>1, <1>6, <2>1
  <2>2. CASE v # w
    BY <1>0, <1>1, <1>3, <1>7, <2>2, HandedIsSafe
  <2>3. QED
    BY <2>1, <2>2
<1>8. QED
  BY <1>4, <1>7 DEF HandedRow, SafeRow

\* The lease invariant is inductive.
LEMMA LeaseStep == LeaseInv /\ [Next]_vars => LeaseInv'
<1> SUFFICES ASSUME LeaseInv, [Next]_vars PROVE LeaseInv'
  OBVIOUS
<1>1. TypeInv'
  BY NextType DEF LeaseInv
<1>2. PassesAreTimely'
  BY <1>1, TimelyStep DEF LeaseInv
<1>3. CASE \E w \in Workers : Claim(w)
  BY <1>1, <1>2, <1>3, ClaimIsExclusive DEF LeaseInv
<1>4. CASE ~ \E w \in Workers : Claim(w)
  <2>1. Undisturbed
    BY <1>4, LoopUndisturbed, ProcessUndisturbed, OthersUndisturbed
       DEF Next, WorkerStep, RequestStep
  <2>2. QED
    BY <1>1, <1>2, <2>1, UndisturbedSuffices DEF LeaseInv
<1>5. QED
  BY <1>3, <1>4

\* Two workers never process the same queue item, for any number of workers and
\* items and any crash: the guarantee of claim_next and release_expired_leases.
THEOREM ClaimsAreExclusive == Spec => []ClaimExclusive
<1>1. Init => LeaseInv
  <2> SUFFICES ASSUME Init PROVE LeaseInv
    OBVIOUS
  <2>1. TypeInv
    BY InitTypeInv
  <2>2. PassesAreTimely
    BY TimesAreNaturals DEF Init, PassesAreTimely, Busy
  <2>3. HandedRow /\ ClaimExclusive
    BY DEF Init, HandedRow, ClaimExclusive
  <2>4. QED
    BY <2>1, <2>2, <2>3 DEF LeaseInv
<1>2. LeaseInv => ClaimExclusive
  BY DEF LeaseInv
<1>3. QED
  BY <1>1, <1>2, LeaseStep, PTL DEF Spec

-----------------------------------------------------------------------------
(* Pending runs *)

\* No run is added or becomes pending.
NoNewPending ==
  /\ DOMAIN runs' = DOMAIN runs
  /\ \A r \in RunIds : /\ runs'[r].pair = runs[r].pair
                       /\ runs'[r].startedAt = runs[r].startedAt
                       /\ runs'[r].status = "pending" => runs[r].status = "pending"

\* No process gets to the quota lock, past the collision check or to another form.
NobodyAdvances ==
  /\ wanted' = wanted
  /\ \A q \in Procs : pc'[q] \in {"pair", "insert"} =>
       /\ pc'[q] = pc[q]
       /\ passNow'[q] = passNow[q]
       /\ q \in Workers => hand'[q] = hand[q]
       /\ \A c \in Clients : quotaLock[c] = q => quotaLock'[c] = q

LEMMA QuietStep ==
  ASSUME PendingInv, NoNewPending, NobodyAdvances
  PROVE  LockIsHeld' /\ PairIsFree' /\ OnePendingPerPair'
<1>1. OnePendingPerPair'
  BY DEF PendingInv, OnePendingPerPair, NoNewPending, RunIds
<1>2. ASSUME NEW q \in Procs, pc'[q] \in {"pair", "insert"}
      PROVE  pc'[q] = pc[q] /\ PairFor(q)' = PairFor(q) /\ ClientOf[PairFor(q)] \in Clients
  <2>1. pc[q] \in {"pair", "insert"} /\ PairFor(q)' = PairFor(q)
    BY <1>2 DEF NobodyAdvances, PairFor
  <2>2. QED
    BY <1>2, <2>1, FormType DEF NobodyAdvances, PendingInv, ItemPcs
<1>3. LockIsHeld'
  BY <1>2 DEF PendingInv, LockIsHeld, NobodyAdvances
<1>4. \A pair : PendingOn(pair)' \subseteq PendingOn(pair)
  BY DEF NoNewPending, PendingOn, PendingRuns, RunIds
<1>5. PairIsFree'
  BY <1>2, <1>4 DEF PendingInv, PairIsFree
<1>6. QED
  BY <1>1, <1>3, <1>5

LEMMA RunsKept == ASSUME runs' = runs PROVE NoNewPending
BY DEF NoNewPending

LEMMA ReconciledRuns ==
  ASSUME TypeInv, NEW now, ReconcileAt(now) PROVE NoNewPending
<1>1. \A r \in RunIds : runs[r] \in Run
  BY TypeParts DEF TableType, RunIds
<1>2. QED
  BY <1>1 DEF ReconcileAt, NoNewPending, RunIds, Run

LEMMA EndedRun ==
  ASSUME TypeInv, NEW p \in Procs, NEW status \in {"success", "error"}, EndRun(p, status)
  PROVE  NoNewPending
<1>1. \A r \in RunIds : runs[r] \in Run
  BY TypeParts DEF TableType, RunIds
<1>2. QED
  BY <1>1 DEF EndRun, NoNewPending, RunIds, Run

\* The end of a pass, whatever it commits, and a kill.
LEMMA PassEnds ==
  ASSUME TypeInv, NEW p \in Procs, NEW l, l \notin {"pair", "insert"}, Goto(p, l),
         hand' = [w \in Workers |-> IF w = p THEN Nobody ELSE hand[w]],
         passNow' = [passNow EXCEPT ![p] = 0], Unlock(p), wanted' = wanted
  PROVE  NobodyAdvances
<1>1. pc \in [Procs -> WorkerPcs \cup RequestPcs] /\ passNow \in [Procs -> 0..MaxClock]
  BY DEF TypeInv, TypeOK
<1>2. QED
  BY <1>1 DEF NobodyAdvances, Goto, Unlock

\* A step of p between the points where locks and forms matter.
LEMMA PassGoesOn ==
  ASSUME TypeInv, NEW p \in Procs, NEW l, l \notin {"pair", "insert"}, Goto(p, l),
         \A w \in Workers : w # p => hand'[w] = hand[w],
         \A q \in Procs : q # p => passNow'[q] = passNow[q],
         UNCHANGED <<quotaLock, wanted>>
  PROVE  NobodyAdvances
<1>1. pc \in [Procs -> WorkerPcs \cup RequestPcs]
  BY DEF TypeInv, TypeOK
<1>2. QED
  BY <1>1 DEF NobodyAdvances, Goto

\* All that a step does except the three that lead to a new run.
Quiet == NoNewPending /\ NobodyAdvances

LEMMA FinishIsQuiet ==
  ASSUME TypeInv, NEW p \in Procs, Finish(p), UNCHANGED wanted, NoNewPending
  PROVE  Quiet
BY PassEnds DEF Finish, Quiet

LEMMA WorkerQuiet ==
  ASSUME TypeInv, NEW w \in Workers,
         \/ BeginPass(w) \/ ReleaseLeases(w) \/ Reconcile(w) \/ Claim(w) \/ NothingDue(w)
         \/ Restart(w) \/ SkipStale(w) \/ SkipInactive(w) \/ SkipOverQuota(w)
         \/ DeferCollision(w) \/ SkipDryRun(w) \/ LinkRun(w)
         \/ ProviderAnswers(w) \/ ProviderFails(w)
         \/ MarkDone(w) \/ DeferBilling(w) \/ Requeue(w) \/ MarkError(w)
  PROVE  Quiet
<1> USE DEF Quiet
<1>1. CASE ReleaseLeases(w) \/ LinkRun(w)
  BY <1>1, PassGoesOn, RunsKept DEF ReleaseLeases, LinkRun
<1>2. CASE BeginPass(w)
  <2>1. \A q \in Procs : q # w => passNow'[q] = passNow[q]
    BY <1>2 DEF BeginPass, TypeInv, TypeOK
  <2>2. QED
    BY <1>2, <2>1, PassGoesOn, RunsKept DEF BeginPass
<1>3. CASE Reconcile(w) \/ Restart(w)
  <2>1. NobodyAdvances
    BY <1>3, PassGoesOn DEF Reconcile, Restart
  <2>2. NoNewPending
    BY <1>3, ReconciledRuns DEF Reconcile, Restart
  <2>3. QED
    BY <2>1, <2>2
<1>4. CASE Claim(w)
  <2>1. PICK i : hand' = [hand EXCEPT ![w] = i]
    BY <1>4 DEF Claim
  <2>2. \A v \in Workers : v # w => hand'[v] = hand[v]
    BY <2>1 DEF TypeInv, TypeOK
  <2>3. QED
    BY <1>4, <2>2, PassGoesOn, RunsKept DEF Claim
<1>5. CASE ProviderAnswers(w) \/ ProviderFails(w)
  <2>1. NobodyAdvances
    BY <1>5, PassGoesOn DEF ProviderAnswers, ProviderFails, Failures
  <2>2. NoNewPending
    BY <1>5, EndedRun DEF ProviderAnswers, ProviderFails
  <2>3. QED
    BY <2>1, <2>2
<1>6. ASSUME Finish(w), UNCHANGED <<runs, wanted>> PROVE Quiet
  BY <1>6, RunsKept, FinishIsQuiet
<1>7. QED
  BY <1>1, <1>2, <1>3, <1>4, <1>5, <1>6
     DEF NothingDue, SkipStale, SkipInactive, SkipOverQuota, DeferCollision, SkipDryRun,
         MarkDone, DeferBilling, Requeue, MarkError, Settle, Postpone

\* The four steps that are not quiet, on the way to a new run.
Advances ==
  \/ \E w \in Workers : PassQuota(w)
  \/ \E r \in Requests : RequestPassesQuota(r)
  \/ \E p \in Procs : NoCollision(p) \/ InsertRun(p)

LEMMA AdvanceOrQuiet == TypeInv /\ [Next]_vars => Advances \/ Quiet
<1> SUFFICES ASSUME TypeInv, [Next]_vars, ~Advances PROVE Quiet
  OBVIOUS
<1>1. ASSUME NEW w \in Workers, WorkerStep(w) \/ Restart(w) PROVE Quiet
  BY <1>1, WorkerQuiet DEF WorkerStep, Advances
<1>2. ASSUME NEW r \in Requests, RequestStep(r) PROVE Quiet
  <2>1. CASE RequestRefused(r)
    BY <2>1, RunsKept, FinishIsQuiet DEF RequestRefused
  <2>2. CASE RequestEnds(r)
    BY <2>2, EndedRun, FinishIsQuiet DEF RequestEnds
  <2>3. QED
    BY <1>2, <2>1, <2>2 DEF RequestStep, Advances
<1>3. ASSUME NEW p \in Procs, Crash(p) PROVE Quiet
  <2>1. \E l : l \notin {"pair", "insert"} /\ Goto(p, l)
    BY <1>3 DEF Crash
  <2>2. NobodyAdvances
    BY <1>3, <2>1, PassEnds DEF Crash
  <2>3. QED
    BY <1>3, <2>2, RunsKept DEF Crash, Quiet
<1>4. CASE UserStep \/ Tick \/ UNCHANGED vars
  <2>1. UNCHANGED <<runs, wanted, pc, hand, quotaLock, passNow>>
    BY <1>4 DEF UserStep, Enqueue, CancelRead, CancelWrite, Retry, Tick, vars
  <2>2. QED
    BY <2>1, RunsKept DEF NobodyAdvances, Quiet
<1>5. QED
  BY <1>1, <1>2, <1>3, <1>4 DEF Next

\* Taking the client's lock: nobody else holds it.
LEMMA QuotaLocked ==
  ASSUME PendingInv, NEW p \in Procs, NEW now, LockQuota(p, now),
         UNCHANGED <<runs, hand, wanted>>,
         p \in Workers => pc[p] \in ItemPcs
  PROVE  LockIsHeld' /\ PairIsFree' /\ OnePendingPerPair'
<1>0. /\ pc \in [Procs -> WorkerPcs \cup RequestPcs]
      /\ quotaLock \in [Clients -> Procs \cup {Nobody}]
  BY DEF PendingInv, TypeInv, TypeOK
<1>1. OnePendingPerPair'
  BY DEF PendingInv, OnePendingPerPair, RunIds
<1>2. ClientOf[PairFor(p)] \in Clients
  BY FormType DEF PendingInv
<1>3. \A q \in Procs : PairFor(q)' = PairFor(q)
  BY DEF PairFor
<1>4. ASSUME NEW q \in Procs, pc'[q] \in {"pair", "insert"}
      PROVE  quotaLock'[ClientOf[PairFor(q)]] = q
  <2>1. CASE q = p
    BY <1>0, <1>2, <2>1 DEF LockQuota
  <2>2. CASE q # p
    <3>1. pc[q] \in {"pair", "insert"}
      BY <1>0, <1>4, <2>2 DEF LockQuota, Goto
    <3>2. quotaLock[ClientOf[PairFor(q)]] = q
      BY <3>1 DEF PendingInv, LockIsHeld
    <3>3. ClientOf[PairFor(q)] # ClientOf[PairFor(p)]
      BY <3>2, NamesAreDistinct DEF LockQuota
    <3>4. ClientOf[PairFor(q)] \in Clients
      BY <3>1, FormType DEF PendingInv, ItemPcs
    <3>5. QED
      BY <1>0, <3>2, <3>3, <3>4 DEF LockQuota
  <2>3. QED
    BY <2>1, <2>2
<1>5. LockIsHeld'
  BY <1>3, <1>4 DEF LockIsHeld
<1>6. PairIsFree'
  <2>1. \A q \in Procs : pc'[q] = "insert" => pc[q] = "insert"
    BY <1>0 DEF LockQuota, Goto
  <2>2. \A pair : PendingOn(pair)' = PendingOn(pair)
    BY DEF PendingOn, PendingRuns, RunIds
  <2>3. QED
    BY <1>3, <2>1, <2>2 DEF PendingInv, PairIsFree
<1>7. QED
  BY <1>1, <1>5, <1>6

LEMMA CollisionChecked ==
  ASSUME PendingInv, NEW p \in Procs, NoCollision(p)
  PROVE  LockIsHeld' /\ PairIsFree' /\ OnePendingPerPair'
<1>0. pc \in [Procs -> WorkerPcs \cup RequestPcs]
  BY DEF PendingInv, TypeInv, TypeOK
<1>1. OnePendingPerPair'
  BY DEF PendingInv, OnePendingPerPair, RunIds, NoCollision
<1>2. \A q \in Procs : PairFor(q)' = PairFor(q)
  BY DEF PairFor, NoCollision
<1>3. \A pair : PendingOn(pair)' = PendingOn(pair)
  BY DEF PendingOn, PendingRuns, RunIds, NoCollision
<1>4. \A q \in Procs : q # p => pc'[q] = pc[q]
  BY <1>0 DEF NoCollision, Goto
<1>5. LockIsHeld'
  BY <1>2, <1>4 DEF PendingInv, LockIsHeld, NoCollision
<1>6. PairIsFree'
  BY <1>2, <1>3, <1>4 DEF PendingInv, PairIsFree, NoCollision
<1>7. QED
  BY <1>1, <1>5, <1>6

\* The insert: the pair had no pending run, and whoever else is about to insert
\* one holds the lock of another client, so works on another pair.
LEMMA RunInserted ==
  ASSUME PendingInv, NEW p \in Procs, InsertRun(p)
  PROVE  LockIsHeld' /\ PairIsFree' /\ OnePendingPerPair'
<1>0. /\ pc \in [Procs -> WorkerPcs \cup RequestPcs] /\ runs \in Seq(Run)
      /\ quotaLock \in [Clients -> Procs \cup {Nobody}]
  BY DEF PendingInv, TypeInv, TypeOK
<1>1. PICK new : /\ runs' = Append(runs, new)
                 /\ new.pair = PairFor(p)
  BY DEF InsertRun
<1>2. /\ RunIds' = RunIds \cup {Len(runs) + 1} /\ Len(runs) + 1 \notin RunIds
      /\ \A r \in RunIds : runs'[r] = runs[r]
      /\ runs'[Len(runs) + 1] = new
  BY <1>0, <1>1 DEF RunIds
<1>3. PendingOn(PairFor(p)) = {}
  BY DEF PendingInv, PairIsFree, InsertRun
<1>4. OnePendingPerPair'
  <2>1. \A r \in RunIds : ~(runs[r].status = "pending" /\ runs[r].pair = PairFor(p))
    BY <1>3 DEF PendingOn, PendingRuns
  <2>2. \A r, s \in RunIds : /\ runs[r].status = "pending" /\ runs[s].status = "pending"
                             /\ runs[r].pair = runs[s].pair
                             => r = s
    BY DEF PendingInv, OnePendingPerPair
  <2>3. SUFFICES ASSUME NEW r \in RunIds', NEW s \in RunIds',
                        runs'[r].status = "pending", runs'[s].status = "pending",
                        runs'[r].pair = runs'[s].pair
                 PROVE  r = s
    BY DEF OnePendingPerPair
  <2>4. CASE r \in RunIds /\ s \in RunIds
    BY <1>2, <2>2, <2>3, <2>4
  <2>5. CASE r \notin RunIds \/ s \notin RunIds
    BY <1>1, <1>2, <2>1, <2>3, <2>5
  <2>6. QED
    BY <2>4, <2>5
<1>5. \A q \in Procs : PairFor(q)' = PairFor(q)
  BY DEF PairFor, InsertRun
<1>6. \A q \in Procs : pc'[q] \in {"pair", "insert"} => q # p /\ pc'[q] = pc[q]
  BY <1>0 DEF InsertRun, Goto
<1>7. LockIsHeld'
  <2>1. SUFFICES ASSUME NEW q \in Procs, pc'[q] \in {"pair", "insert"}
                 PROVE  quotaLock'[ClientOf[PairFor(q)]] = q
    BY <1>5 DEF LockIsHeld
  <2>2. q # p /\ pc[q] \in {"pair", "insert"}
    BY <1>6, <2>1
  <2>3. quotaLock[ClientOf[PairFor(q)]] = q /\ ClientOf[PairFor(q)] \in Clients
    BY <2>2, FormType DEF PendingInv, LockIsHeld, ItemPcs
  <2>4. QED
    BY <2>2, <2>3 DEF InsertRun, Unlock
<1>8. PairIsFree'
  <2>1. SUFFICES ASSUME NEW q \in Procs, pc'[q] = "insert"
                 PROVE  PendingOn(PairFor(q))' = {}
    BY DEF PairIsFree
  <2>2. q # p /\ pc[q] = "insert" /\ pc[p] = "insert"
    BY <1>6, <2>1 DEF InsertRun
  <2>3. quotaLock[ClientOf[PairFor(q)]] = q /\ quotaLock[ClientOf[PairFor(p)]] = p
    BY <2>2 DEF PendingInv, LockIsHeld
  <2>4. PairFor(q) # PairFor(p)
    BY <2>2, <2>3
  <2>5. PendingOn(PairFor(q)) = {}
    BY <2>2 DEF PendingInv, PairIsFree
  <2>6. \A r \in RunIds' : ~(runs'[r].status = "pending" /\ runs'[r].pair = PairFor(q))
    BY <1>1, <1>2, <2>4, <2>5 DEF PendingOn, PendingRuns
  <2>7. QED
    BY <1>5, <2>6 DEF PendingOn, PendingRuns
<1>9. QED
  BY <1>4, <1>7, <1>8

\* The invariant is inductive.
LEMMA PendingStep == PendingInv /\ [Next]_vars => PendingInv'
<1> SUFFICES ASSUME PendingInv, [Next]_vars
             PROVE  LockIsHeld' /\ PairIsFree' /\ OnePendingPerPair'
  BY NextType DEF PendingInv
<1>1. CASE Quiet
  BY <1>1, QuietStep DEF Quiet
<1>2. ASSUME NEW w \in Workers, PassQuota(w)
      PROVE  LockIsHeld' /\ PairIsFree' /\ OnePendingPerPair'
  BY <1>2, QuotaLocked DEF PassQuota, ItemPcs
<1>3. ASSUME NEW r \in Requests, RequestPassesQuota(r)
      PROVE  LockIsHeld' /\ PairIsFree' /\ OnePendingPerPair'
  BY <1>3, QuotaLocked, NamesAreDistinct DEF RequestPassesQuota
<1>4. QED
  BY <1>1, <1>2, <1>3, AdvanceOrQuiet, CollisionChecked, RunInserted
     DEF Advances, PendingInv

\* However many workers and requests trigger runs, at most one run of a (prompt,
\* model) pair is pending: the advisory lock taken for the quota also makes the
\* collision check of worker.py and routers/runs.py atomic with the insert.
THEOREM PendingRunsAreUnique == Spec => []OnePendingPerPair
<1>1. Init => PendingInv
  <2> SUFFICES ASSUME Init PROVE PendingInv
    OBVIOUS
  <2>1. LockIsHeld /\ PairIsFree /\ OnePendingPerPair
    BY DEF Init, LockIsHeld, PairIsFree, OnePendingPerPair, RunIds
  <2>2. QED
    BY <2>1, InitTypeInv DEF PendingInv
<1>2. PendingInv => OnePendingPerPair
  BY DEF PendingInv
<1>3. QED
  BY <1>1, <1>2, PendingStep, PTL DEF Spec

-----------------------------------------------------------------------------
(* The daily quota: the count is made with a pass's old `now' and the run is *)
(* stamped later; it still bounds every window, because the counted window   *)
(* is the longer one.                                                        *)

\* Of the runs rs, those a client started within the window that ends at t, and
\* all it started since the window of `now' opened.
Window(rs, c, t) == {r \in DOMAIN rs : /\ ClientOf[rs[r].pair] = c
                                       /\ rs[r].startedAt <= t
                                       /\ rs[r].startedAt + QuotaWindow >= t}
Recent(rs, c, now) == {r \in DOMAIN rs : /\ ClientOf[rs[r].pair] = c
                                         /\ rs[r].startedAt + QuotaWindow >= now}

\* Who has passed the quota check may still insert a run.
QuotaLeft ==
  \A p \in Procs : pc[p] \in {"pair", "insert"} =>
    Cardinality(Recent(runs, ClientOf[PairFor(p)], passNow[p])) < DailyLimit

\* The limit as an invariant of the clients' windows.
WindowsBounded ==
  \A c \in Clients, t \in 0..MaxClock : Cardinality(Window(runs, c, t)) <= DailyLimit

QuotaInv == PendingInv /\ PassesAreTimely /\ QuotaLeft /\ WindowsBounded

LEMMA QuotaIsWindows == QuotaHolds <=> WindowsBounded
BY DEF QuotaHolds, WindowsBounded, Window, RunIds

\* Sets of runs are finite.
LEMMA RunsFinite ==
  ASSUME TypeInv, NEW S, S \subseteq RunIds
  PROVE  IsFiniteSet(S) /\ Cardinality(S) \in Nat
<1>1. RunIds = 1..Len(runs) /\ Len(runs) \in Nat
  BY DEF TypeInv, TypeOK, RunIds
<1>2. IsFiniteSet(RunIds)
  BY <1>1, FS_Interval
<1>3. QED
  BY <1>2, FS_Subset, FS_CardinalityType

\* Only the insert changes what is counted.
LEMMA QuietCounts ==
  ASSUME NoNewPending, NEW c, NEW t
  PROVE  /\ Window(runs', c, t) = Window(runs, c, t)
         /\ Recent(runs', c, t) = Recent(runs, c, t)
BY DEF NoNewPending, Window, Recent, RunIds

LEMMA QuotaQuiet == QuotaInv /\ Quiet => QuotaLeft' /\ WindowsBounded'
<1> SUFFICES ASSUME QuotaInv, Quiet PROVE QuotaLeft' /\ WindowsBounded'
  OBVIOUS
<1>1. WindowsBounded'
  BY QuietCounts DEF Quiet, QuotaInv, WindowsBounded
<1>2. ASSUME NEW q \in Procs, pc'[q] \in {"pair", "insert"}
      PROVE  Cardinality(Recent(runs', ClientOf[PairFor(q)'], passNow'[q])) < DailyLimit
  <2>1. /\ pc[q] \in {"pair", "insert"} /\ PairFor(q)' = PairFor(q)
        /\ passNow'[q] = passNow[q]
    BY <1>2 DEF Quiet, NobodyAdvances, PairFor
  <2>2. Cardinality(Recent(runs, ClientOf[PairFor(q)], passNow[q])) < DailyLimit
    BY <2>1 DEF QuotaInv, QuotaLeft
  <2>3. QED
    BY <2>1, <2>2, QuietCounts DEF Quiet
<1>3. QED
  BY <1>1, <1>2 DEF QuotaLeft

\* The check itself, by whoever makes it.
LEMMA QuotaChecked ==
  ASSUME QuotaInv, NEW p \in Procs, Goto(p, "pair"),
         Cardinality(Recent(runs, ClientOf[PairFor(p)], passNow'[p])) < DailyLimit,
         UNCHANGED <<runs, hand, wanted>>,
         \A q \in Procs : q # p => passNow'[q] = passNow[q]
  PROVE  QuotaLeft' /\ WindowsBounded'
<1>1. WindowsBounded'
  BY DEF QuotaInv, WindowsBounded
<1>2. \A q \in Procs : PairFor(q)' = PairFor(q)
  BY DEF PairFor
<1>3. \A q \in Procs : q # p => pc'[q] = pc[q]
  BY DEF QuotaInv, PendingInv, TypeInv, TypeOK, Goto
<1>4. ASSUME NEW q \in Procs, pc'[q] \in {"pair", "insert"}
      PROVE  Cardinality(Recent(runs, ClientOf[PairFor(q)], passNow'[q])) < DailyLimit
  <2>1. CASE q = p
    BY <2>1
  <2>2. CASE q # p
    BY <1>3, <1>4, <2>2 DEF QuotaInv, QuotaLeft
  <2>3. QED
    BY <2>1, <2>2
<1>5. QuotaLeft'
  BY <1>2, <1>4 DEF QuotaLeft
<1>6. QED
  BY <1>1, <1>5

LEMMA QuotaCollision ==
  ASSUME QuotaInv, NEW p \in Procs, NoCollision(p)
  PROVE  QuotaLeft' /\ WindowsBounded'
<1>1. UNCHANGED <<runs, passNow>> /\ \A q \in Procs : PairFor(q)' = PairFor(q)
  BY DEF NoCollision, PairFor
<1>2. \A q \in Procs : pc'[q] \in {"pair", "insert"} => pc[q] \in {"pair", "insert"}
  BY DEF QuotaInv, PendingInv, TypeInv, TypeOK, NoCollision, Goto
<1>3. QED
  BY <1>1, <1>2 DEF QuotaInv, QuotaLeft, WindowsBounded

\* The insert: what the new run adds to a window had been left by the check.
LEMMA QuotaInsert ==
  ASSUME QuotaInv, NEW p \in Procs, InsertRun(p)
  PROVE  QuotaLeft' /\ WindowsBounded'
<1>0. /\ TypeInv /\ runs \in Seq(Run) /\ clock \in 0..MaxClock
      /\ passNow[p] \in 0..MaxClock /\ passNow[p] <= clock
      /\ pc \in [Procs -> WorkerPcs \cup RequestPcs]
      /\ MaxClock \in Nat /\ QuotaWindow \in Nat /\ DailyLimit \in Nat
  BY TimesAreNaturals DEF QuotaInv, PendingInv, TypeInv, TypeOK, PassesAreTimely
<1> DEFINE mine == ClientOf[PairFor(p)]
           n == Len(runs) + 1
<1>1. PICK new : /\ runs' = Append(runs, new)
                 /\ new.pair = PairFor(p) /\ new.startedAt = clock
  BY DEF InsertRun
<1>2. /\ RunIds' = RunIds \cup {n} /\ n \notin RunIds
      /\ \A r \in RunIds : runs'[r] = runs[r]
      /\ runs'[n] = new
  BY <1>0, <1>1 DEF RunIds
<1>3. /\ \A r \in RunIds : runs[r].startedAt \in Nat
      /\ Recent(runs, mine, passNow[p]) \subseteq RunIds
  <2>1. \A r \in RunIds : runs[r] \in Run
    BY <1>0 DEF RunIds
  <2>2. QED
    BY <2>1 DEF Recent, RunIds, Run
<1>4. Cardinality(Recent(runs, mine, passNow[p])) < DailyLimit
  BY DEF QuotaInv, QuotaLeft, InsertRun
<1>5. /\ IsFiniteSet(Recent(runs, mine, passNow[p]))
      /\ Cardinality(Recent(runs, mine, passNow[p])) \in Nat
  BY <1>0, <1>3, RunsFinite
<1>6. ASSUME NEW c \in Clients, NEW t \in 0..MaxClock
      PROVE  Cardinality(Window(runs', c, t)) <= DailyLimit
  <2>1. CASE c # mine \/ t < clock
    <3>1. Window(runs', c, t) = Window(runs, c, t)
      BY <1>0, <1>1, <1>2, <1>3, <2>1 DEF Window, RunIds
    <3>2. QED
      BY <3>1 DEF QuotaInv, WindowsBounded
  <2>2. CASE c = mine /\ t >= clock
    <3>1. Window(runs', c, t) \subseteq Recent(runs, mine, passNow[p]) \cup {n}
      BY <1>0, <1>1, <1>2, <1>3, <2>2 DEF Window, Recent, RunIds
    <3>2. n \notin Recent(runs, mine, passNow[p])
      BY <1>2, <1>3
    <3>3. /\ IsFiniteSet(Recent(runs, mine, passNow[p]) \cup {n})
          /\ Cardinality(Recent(runs, mine, passNow[p]) \cup {n})
               = Cardinality(Recent(runs, mine, passNow[p])) + 1
      BY <1>5, <3>2, FS_AddElement
    <3>4. /\ IsFiniteSet(Window(runs', c, t))
          /\ Cardinality(Window(runs', c, t))
               <= Cardinality(Recent(runs, mine, passNow[p]) \cup {n})
      BY <3>1, <3>3, FS_Subset
    <3>5. Cardinality(Window(runs', c, t)) \in Nat
      BY <3>4, FS_CardinalityType
    <3>6. QED
      BY <1>0, <1>4, <1>5, <3>3, <3>4, <3>5
  <2>3. QED
    BY <1>0, <2>1, <2>2
<1>7. WindowsBounded'
  BY <1>6 DEF WindowsBounded
<1>8. ASSUME NEW q \in Procs, pc'[q] \in {"pair", "insert"}
      PROVE  Cardinality(Recent(runs', ClientOf[PairFor(q)], passNow[q])) < DailyLimit
  <2>1. q # p /\ pc[q] = pc'[q]
    BY <1>0, <1>8 DEF InsertRun, Goto
  <2>2. quotaLock[ClientOf[PairFor(q)]] = q /\ quotaLock[mine] = p
    BY <1>8, <2>1 DEF QuotaInv, PendingInv, LockIsHeld, InsertRun
  <2>3. ClientOf[PairFor(q)] # mine
    BY <2>1, <2>2
  <2>4. Recent(runs', ClientOf[PairFor(q)], passNow[q])
          = Recent(runs, ClientOf[PairFor(q)], passNow[q])
    BY <1>1, <1>2, <2>3 DEF Recent, RunIds
  <2>5. QED
    BY <1>8, <2>1, <2>4 DEF QuotaInv, QuotaLeft
<1>9. passNow' = passNow /\ \A q \in Procs : PairFor(q)' = PairFor(q)
  BY DEF PairFor, InsertRun
<1>10. QED
  BY <1>7, <1>8, <1>9 DEF QuotaLeft

\* The invariant is inductive.
LEMMA QuotaStep == QuotaInv /\ [Next]_vars => QuotaInv'
<1> SUFFICES ASSUME QuotaInv, [Next]_vars PROVE QuotaInv'
  OBVIOUS
<1>1. PendingInv' /\ TypeInv /\ TypeInv'
  BY PendingStep DEF QuotaInv, PendingInv
<1>2. PassesAreTimely'
  BY <1>1, TimelyStep DEF QuotaInv
<1>3. QuotaLeft' /\ WindowsBounded'
  <2>1. ASSUME NEW w \in Workers, PassQuota(w) PROVE QuotaLeft' /\ WindowsBounded'
    <3>1. /\ UNCHANGED <<runs, hand, wanted, passNow>> /\ Goto(w, "pair")
          /\ Cardinality(Recent(runs, ClientOf[PairFor(w)], passNow'[w])) < DailyLimit
      BY <2>1 DEF PassQuota, LockQuota, Used, Recent, RunIds
    <3>2. QED
      BY <3>1, QuotaChecked
  <2>2. ASSUME NEW r \in Requests, RequestPassesQuota(r)
        PROVE  QuotaLeft' /\ WindowsBounded'
    <3>1. passNow'[r] = clock /\ \A q \in Procs : q # r => passNow'[q] = passNow[q]
      BY <1>1, <2>2 DEF RequestPassesQuota, TypeInv, TypeOK
    <3>2. /\ UNCHANGED <<runs, hand, wanted>> /\ Goto(r, "pair")
          /\ Cardinality(Recent(runs, ClientOf[PairFor(r)], passNow'[r])) < DailyLimit
      BY <2>2, <3>1 DEF RequestPassesQuota, LockQuota, Used, Recent, RunIds
    <3>3. QED
      BY <3>1, <3>2, QuotaChecked
  <2>3. QED
    BY <1>1, <2>1, <2>2, AdvanceOrQuiet, QuotaQuiet, QuotaCollision, QuotaInsert
       DEF Advances
<1>4. QED
  BY <1>1, <1>2, <1>3 DEF QuotaInv

\* No client starts more runs in any window than its daily limit, for any number
\* of workers, requests and clients: check_daily_quota, with the advisory lock
\* held until the run is committed.
THEOREM QuotaIsKept == Spec => []QuotaHolds
<1>1. Init => QuotaInv
  <2> SUFFICES ASSUME Init PROVE QuotaInv
    OBVIOUS
  <2>1. LockIsHeld /\ PairIsFree /\ OnePendingPerPair /\ QuotaLeft
    BY DEF Init, LockIsHeld, PairIsFree, OnePendingPerPair, RunIds, QuotaLeft
  <2>2. PassesAreTimely
    BY TimesAreNaturals DEF Init, PassesAreTimely, Busy
  <2>3. \A c, t : Window(runs, c, t) = {}
    BY DEF Init, Window, RunIds
  <2>4. WindowsBounded
    <3>1. 0 <= DailyLimit
      BY TimesAreNaturals
    <3>2. QED
      BY <2>3, <3>1, FS_EmptySet DEF WindowsBounded
  <2>5. QED
    BY <2>1, <2>2, <2>4, InitTypeInv DEF QuotaInv, PendingInv
<1>2. QuotaInv => QuotaHolds
  BY QuotaIsWindows DEF QuotaInv
<1>3. QED
  BY <1>1, <1>2, QuotaStep, PTL DEF Spec

-----------------------------------------------------------------------------
(***************************************************************************)
(* What becomes of the calls made for one queue item: an item is sent to a *)
(* provider again only after its last run failed, and, where nobody        *)
(* cancels, the queue implements the promise of module Occurrence.         *)
(***************************************************************************)

\* A run that was answered with an error, or whose worker died before it called
\* anybody: what happened to it is known and it will not change.
Failed(r) == runs[r].status \in {"error", "unlinked"}

\* A run whose worker was killed between the insert and the link, or is there now.
Orphan(r) == runs[r].status = "pending" /\ \A i \in Items : items[i].runId # r

RunsOf(i) == {r \in RunIds : runs[r].item = i}

\* Nobody has been called for the item since its last failure.
Uncalled(i) == \A r \in RunsOf(i) : Failed(r) \/ Orphan(r)

MayBeClaimed(i) ==
  items[i].status \in Claimable \/ (items[i].status = "leased" /\ items[i].runId = 0)

RunsNameTheirItem ==
  \A r \in RunIds : runs[r].item \in Items => runs[r].pair = PairOf[runs[r].item]

LinksAreTrue == \A i \in Items : items[i].runId # 0 => items[i].runId \in RunsOf(i)

AbsentIsNew ==
  \A i \in Items : items[i].status = "none" => RunsOf(i) = {} /\ items[i].runId = 0

NotYetCalled == \A i \in Items : MayBeClaimed(i) => Uncalled(i)

\* The run the worker has inserted for its item is pending and no older than its pass.
Calling(w) ==
  /\ run[w] \in RunsOf(hand[w]) /\ runs[run[w]].status = "pending"
  /\ runs[run[w]].startedAt >= passNow[w]

\* What a worker knows of its item's runs, by the place it has reached.
CallOK(w) ==
  /\ pc[w] \in {"admit", "pair", "insert", "link"} => Uncalled(hand[w])
  /\ pc[w] \in {"link", "call"} => Calling(w)
  /\ pc[w] \in {"call", "answered"} => items[hand[w]].runId = run[w]
  /\ pc[w] = "answered" => run[w] \in RunsOf(hand[w]) /\ runs[run[w]].status = "success"
  /\ pc[w] \in Failures => \A r \in RunsOf(hand[w]) : Failed(r)

\* A request's run belongs to no item.
ManualOK == \A r \in Requests : pc[r] = "call" => run[r] \in RunsOf(Manual)

CallInv ==
  /\ RunsNameTheirItem /\ LinksAreTrue /\ AbsentIsNew /\ NotYetCalled
  /\ \A w \in Workers : CallOK(w)
  /\ ManualOK /\ CalledAgainOnlyAfterFailure

QueueInv == LeaseInv /\ PendingInv /\ CallInv

USE DEF Procs

-----------------------------------------------------------------------------
(* What the lemmas below keep needing *)

LEMMA QueueTypes ==
  ASSUME QueueInv
  PROVE  /\ RunIds = 1..Len(runs) /\ Len(runs) \in Nat /\ runs \in Seq(Run)
         /\ \A r \in RunIds : runs[r] \in Run /\ r # 0
         /\ items \in [Items -> Item]
         /\ pc \in [Procs -> WorkerPcs \cup RequestPcs]
         /\ hand \in [Workers -> Items \cup {Nobody}]
         /\ \A w \in Workers : pc[w] \in ItemPcs => hand[w] \in Items
         /\ \A w \in Workers : hand[w] \in Items => pc[w] \in ItemPcs
<1>1. TypeInv
  BY DEF QueueInv, LeaseInv
<1>2. runs \in Seq(Run)
  BY <1>1 DEF TypeInv, TypeOK
<1>3. RunIds = 1..Len(runs) /\ Len(runs) \in Nat /\ \A r \in RunIds : runs[r] \in Run /\ r # 0
  BY <1>2 DEF RunIds
<1>4. \A w \in Workers : pc[w] \in ItemPcs <=> hand[w] # Nobody
  BY <1>1 DEF TypeInv, HandOK
<1>5. QED
  BY <1>1, <1>2, <1>3, <1>4, NamesAreDistinct DEF TypeInv, TypeOK

\* Two workers have different items, and nobody's item is up for grabs.
LEMMA HandsDiffer ==
  ASSUME QueueInv, NEW w \in Workers, pc[w] \in ItemPcs
  PROVE  /\ hand[w] \in Items /\ items[hand[w]].status \notin Claimable \cup {"none"}
         /\ \A v \in Workers : v # w => hand[v] # hand[w]
<1>1. hand[w] \in Items /\ hand[w] # Nobody
  BY QueueTypes, NamesAreDistinct
<1>2. QED
  BY <1>1 DEF QueueInv, LeaseInv, HandedRow, ClaimExclusive

\* A run that has not failed is its item's last one, and the others have failed.
LEMMA OthersFailed ==
  ASSUME QueueInv, NEW i \in Items, NEW r \in RunsOf(i), ~Failed(r)
  PROVE  \A s \in RunsOf(i) : s # r => Failed(s)
<1>1. SUFFICES ASSUME NEW s \in RunsOf(i), s # r PROVE Failed(s)
  OBVIOUS
<1>2. r \in RunIds /\ s \in RunIds /\ r \in Nat /\ s \in Nat
  BY QueueTypes DEF RunsOf
<1>3. runs[r].item = i /\ runs[s].item = i /\ i # Manual
  BY NamesAreDistinct DEF RunsOf
<1>4. CASE r < s
  BY <1>2, <1>3, <1>4 DEF QueueInv, CallInv, CalledAgainOnlyAfterFailure, Failed
<1>5. CASE s < r
  BY <1>2, <1>3, <1>5 DEF QueueInv, CallInv, CalledAgainOnlyAfterFailure, Failed
<1>6. QED
  BY <1>1, <1>2, <1>4, <1>5

-----------------------------------------------------------------------------
(* Steps that leave the runs alone *)

\* Nobody gets an item that was called, or past the insert.
NobodyCalls ==
  /\ \A w \in Workers : pc'[w] \in ItemPcs =>
       \/ /\ UNCHANGED <<hand[w], run[w], passNow[w]>>
          /\ pc'[w] = pc[w] \/ {pc[w], pc'[w]} \subseteq {"admit", "pair", "insert"}
       \/ pc'[w] = "admit" /\ Uncalled(hand'[w]) /\ hand'[w] \in Items
  /\ \A r \in Requests : pc'[r] = "call" => pc[r] = "call" /\ run'[r] = run[r]

\* No row's link changes, no row disappears, and a row that is given back to the
\* queue was not called since its last failure.
RowsKept ==
  \A i \in Items :
    /\ items'[i].runId = items[i].runId
    /\ items'[i].status = "none" => items[i].status = "none"
    /\ MayBeClaimed(i)' => Uncalled(i)

LEMMA RunsUntouched ==
  ASSUME runs' = runs, \A i \in Items : items'[i].runId = items[i].runId, NEW i
  PROVE  /\ RunIds' = RunIds /\ RunsOf(i)' = RunsOf(i)
         /\ \A r : (Failed(r)' <=> Failed(r)) /\ (Orphan(r)' <=> Orphan(r))
         /\ Uncalled(i) => Uncalled(i)'
<1>1. RunIds' = RunIds /\ RunsOf(i)' = RunsOf(i)
  BY DEF RunIds, RunsOf
<1>2. \A r : (Failed(r)' <=> Failed(r)) /\ (Orphan(r)' <=> Orphan(r))
  BY DEF Failed, Orphan
<1>3. QED
  BY <1>1, <1>2 DEF Uncalled

LEMMA UncalledWhereverUsed ==
  ASSUME QueueInv, runs' = runs, \A i \in Items : items'[i].runId = items[i].runId,
         NobodyCalls, NEW w \in Workers
  PROVE  CallOK(w)'
<1>1. CASE pc'[w] \notin ItemPcs
  BY <1>1 DEF CallOK, ItemPcs, Failures
<1>2. CASE pc'[w] = "admit" /\ Uncalled(hand'[w]) /\ hand'[w] \in Items
  <2>1. Uncalled(hand[w])'
    BY <1>2, RunsUntouched DEF Uncalled, RunsOf, RunIds, Failed, Orphan
  <2>2. QED
    BY <1>2, <2>1 DEF CallOK, Failures
<1>3. ASSUME pc'[w] \in ItemPcs, UNCHANGED <<hand[w], run[w], passNow[w]>>,
             pc'[w] = pc[w] \/ {pc[w], pc'[w]} \subseteq {"admit", "pair", "insert"}
      PROVE  CallOK(w)'
  <2>1. CallOK(w) /\ pc[w] \in ItemPcs
    BY <1>3 DEF QueueInv, CallInv, ItemPcs
  <2>2. hand[w] \in Items
    BY <2>1, QueueTypes
  <2>3. RunsOf(hand[w])' = RunsOf(hand[w])
    BY <1>3, RunsUntouched DEF RunsOf, RunIds
  <2>4. Uncalled(hand[w]) => Uncalled(hand[w])'
    BY <1>3, <2>3, RunsUntouched DEF Uncalled
  <2>5. items'[hand'[w]].runId = items[hand[w]].runId
    BY <1>3, <2>2
  <2>6. Calling(w) => Calling(w)'
    BY <1>3, <2>3 DEF Calling
  <2>7. (\A r \in RunsOf(hand[w]) : Failed(r)) => (\A r \in RunsOf(hand[w]) : Failed(r))'
    BY <2>3, RunsUntouched
  <2>8. /\ pc'[w] \in {"admit", "pair", "insert", "link"}
             => pc[w] \in {"admit", "pair", "insert", "link"}
        /\ pc'[w] \in {"link", "call", "answered"} \cup Failures => pc'[w] = pc[w]
    BY <1>3 DEF Failures
  <2>9. QED
    BY <1>3, <2>1, <2>3, <2>4, <2>5, <2>6, <2>7, <2>8 DEF CallOK
<1>4. QED
  BY <1>1, <1>2, <1>3 DEF NobodyCalls

LEMMA RowsKeptSuffices ==
  ASSUME QueueInv, runs' = runs, RowsKept, NobodyCalls
  PROVE  CallInv'
<1>0. \A i \in Items : items'[i].runId = items[i].runId
  BY DEF RowsKept
<1>1. RunsNameTheirItem' /\ CalledAgainOnlyAfterFailure'
  BY DEF QueueInv, CallInv, RunsNameTheirItem, CalledAgainOnlyAfterFailure, RunIds
<1>2. LinksAreTrue' /\ AbsentIsNew'
  BY <1>0, RunsUntouched DEF QueueInv, CallInv, LinksAreTrue, AbsentIsNew, RowsKept
<1>3. NotYetCalled'
  BY <1>0, RunsUntouched DEF NotYetCalled, RowsKept
<1>4. \A w \in Workers : CallOK(w)'
  BY <1>0, UncalledWhereverUsed
<1>5. ManualOK'
  BY <1>0, RunsUntouched DEF QueueInv, CallInv, ManualOK, NobodyCalls
<1>6. QED
  BY <1>1, <1>2, <1>3, <1>4, <1>5 DEF CallInv

\* A row that is not given back to the queue.
LEMMA ItemsUntouched ==
  ASSUME QueueInv, items' = items PROVE RowsKept
BY DEF RowsKept, QueueInv, CallInv, NotYetCalled, MayBeClaimed

LEMMA OneRowKept ==
  ASSUME QueueInv, NEW i \in Items, NEW row \in Item, items' = [items EXCEPT ![i] = row],
         row.runId = items[i].runId, row.status # "none",
         row.status \in Terminal \/ Uncalled(i)
  PROVE  RowsKept
<1>1. items \in [Items -> Item]
  BY QueueTypes
<1>2. ASSUME NEW j \in Items, j # i
      PROVE  items'[j] = items[j] /\ (MayBeClaimed(j) => Uncalled(j))
  BY <1>1, <1>2 DEF QueueInv, CallInv, NotYetCalled
<1>3. items'[i] = row /\ (MayBeClaimed(i)' => Uncalled(i))
  BY <1>1 DEF MayBeClaimed, Terminal, Claimable
<1>4. QED
  BY <1>2, <1>3 DEF RowsKept, MayBeClaimed

\* The end of a pass: its process has nothing in hand.
LEMMA PassOver ==
  ASSUME QueueInv, NEW p \in Procs, NEW l, l \notin ItemPcs, Goto(p, l),
         hand' = [w \in Workers |-> IF w = p THEN Nobody ELSE hand[w]],
         run' = [run EXCEPT ![p] = 0], passNow' = [passNow EXCEPT ![p] = 0]
  PROVE  NobodyCalls
<1>1. /\ pc \in [Procs -> WorkerPcs \cup RequestPcs] /\ run \in [Procs -> Nat]
      /\ passNow \in [Procs -> 0..MaxClock]
  BY DEF QueueInv, LeaseInv, TypeInv, TypeOK
<1>2. l # "call"
  BY DEF ItemPcs
<1>3. QED
  BY <1>1, <1>2 DEF NobodyCalls, Goto

LEMMA FinishOver ==
  ASSUME QueueInv, NEW p \in Procs, Finish(p) PROVE NobodyCalls
<1>1. "idle" \notin ItemPcs /\ "over" \notin ItemPcs
  BY DEF ItemPcs, Failures
<1>2. QED
  BY <1>1, PassOver DEF Finish

\* The loop around process_claimed_item, but for reconcile_interrupted_runs.
LEMMA LoopKeepsCalls ==
  ASSUME QueueInv, NEW w \in Workers,
         BeginPass(w) \/ ReleaseLeases(w) \/ Claim(w) \/ NothingDue(w)
  PROVE  CallInv'
<1>0. /\ items \in [Items -> Item] /\ pc \in [Procs -> WorkerPcs \cup RequestPcs]
      /\ hand \in [Workers -> Items \cup {Nobody}] /\ w \notin Requests
      /\ passNow \in [Procs -> 0..MaxClock]
  BY NamesAreDistinct DEF QueueInv, LeaseInv, TypeInv, TypeOK
<1>1. CASE BeginPass(w)
  <2>1. NobodyCalls
    BY <1>0, <1>1 DEF BeginPass, Goto, NobodyCalls, ItemPcs, Failures
  <2>2. QED
    BY <1>1, <2>1, ItemsUntouched, RowsKeptSuffices DEF BeginPass
<1>2. CASE ReleaseLeases(w)
  <2>1. NobodyCalls
    BY <1>0, <1>2 DEF ReleaseLeases, Goto, NobodyCalls, ItemPcs, Failures
  <2>2. ASSUME NEW i \in Items
        PROVE  /\ items'[i].runId = items[i].runId
               /\ items'[i].status = "none" => items[i].status = "none"
               /\ MayBeClaimed(i)' => MayBeClaimed(i)
    <3>1. items[i] \in Item
      BY <1>0
    <3>2. CASE Expired(i, passNow[w])
      BY <1>2, <3>1, <3>2 DEF ReleaseLeases, Expired, MayBeClaimed, Item
    <3>3. CASE ~Expired(i, passNow[w])
      BY <1>2, <3>3 DEF ReleaseLeases, MayBeClaimed
    <3>4. QED
      BY <3>2, <3>3
  <2>3. RowsKept
    BY <2>2 DEF RowsKept, QueueInv, CallInv, NotYetCalled
  <2>4. QED
    BY <1>2, <2>1, <2>3, RowsKeptSuffices DEF ReleaseLeases
<1>3. CASE Claim(w)
  <2>1. PICK i \in Due(passNow[w]) :
          /\ items' = [items EXCEPT ![i] =
                          [@ EXCEPT !.status = "leased",
                                    !.leasedUntil = passNow[w] + Lease,
                                    !.attempts = Lesser(items[i].attempts + 1, Len(Backoff))]]
          /\ hand' = [hand EXCEPT ![w] = i]
    BY <1>3 DEF Claim
  <2>2. i \in Items /\ items[i].status \in Claimable /\ Uncalled(i)
    BY DEF Due, QueueInv, CallInv, NotYetCalled, MayBeClaimed
  <2>3. NobodyCalls
    BY <1>0, <1>3, <2>1, <2>2 DEF Claim, Goto, NobodyCalls
  <2>4. items' \in [Items -> Item]
    BY <1>3, NextType DEF QueueInv, LeaseInv, TypeInv, TypeOK, Next, WorkerStep
  <2>5. items'[i].runId = items[i].runId /\ items'[i].status = "leased"
    BY <1>0, <2>1, <2>2 DEF Item
  <2>6. items' = [items EXCEPT ![i] = items'[i]]
    BY <1>0, <2>1, <2>2
  <2>7. RowsKept
    BY <2>2, <2>4, <2>5, <2>6, OneRowKept
  <2>8. QED
    BY <1>3, <2>3, <2>7, RowsKeptSuffices DEF Claim
<1>4. CASE NothingDue(w)
  BY <1>4, FinishOver, ItemsUntouched, RowsKeptSuffices DEF NothingDue
<1>5. QED
  BY <1>1, <1>2, <1>3, <1>4

\* What the commits at the end of a pass do to a row's status and link.
LEMMA RowFields ==
  ASSUME NEW x \in Item, NEW status, NEW t, NEW n
  PROVE  /\ LET y == [x EXCEPT !.status = status, !.leasedUntil = 0]
            IN  y.status = status /\ y.runId = x.runId
         /\ LET y == [x EXCEPT !.status = status, !.leasedUntil = 0, !.scheduledFor = t,
                               !.transport = n]
            IN  y.status = status /\ y.runId = x.runId
         /\ LET y == [x EXCEPT !.status = status, !.leasedUntil = 0, !.transport = n]
            IN  y.status = status /\ y.runId = x.runId
BY DEF Item

\* The passes that end with a commit of the item's status.  What goes back to the
\* queue was not called, or its call has failed.
LEMMA PassEndKeepsCalls ==
  ASSUME QueueInv, NEW w \in Workers,
         \/ SkipStale(w) \/ SkipInactive(w) \/ SkipOverQuota(w) \/ DeferCollision(w)
         \/ SkipDryRun(w) \/ MarkDone(w) \/ DeferBilling(w) \/ Requeue(w) \/ MarkError(w)
  PROVE  CallInv'
<1>0. items \in [Items -> Item] /\ items' \in [Items -> Item]
  BY NextType DEF QueueInv, LeaseInv, TypeInv, TypeOK, Next, WorkerStep
<1>1. pc[w] \in ItemPcs /\ Finish(w) /\ runs' = runs
  BY DEF SkipStale, SkipInactive, SkipOverQuota, DeferCollision, SkipDryRun, MarkDone,
         DeferBilling, Requeue, MarkError, Settle, Postpone, ItemPcs, Failures
<1>2. hand[w] \in Items /\ items[hand[w]] \in Item
  BY <1>0, <1>1, QueueTypes
<1>3. items' = [items EXCEPT ![hand[w]] = items'[hand[w]]]
  BY <1>0, <1>2
     DEF SkipStale, SkipInactive, SkipOverQuota, DeferCollision, SkipDryRun, MarkDone,
         DeferBilling, Requeue, MarkError, Settle, Postpone
<1>4. /\ items'[hand[w]].runId = items[hand[w]].runId
      /\ items'[hand[w]].status \in Terminal \cup Claimable
      /\ items'[hand[w]].status \in Claimable => pc[w] \in {"pair"} \cup Failures
  <2>1. ASSUME NEW status, Settle(w, status)
        PROVE  items'[hand[w]].runId = items[hand[w]].runId /\ items'[hand[w]].status = status
    BY <1>0, <1>2, <2>1, RowFields DEF Settle
  <2>2. ASSUME NEW status, NEW minutes, NEW tries, Postpone(w, status, minutes, tries)
        PROVE  items'[hand[w]].runId = items[hand[w]].runId /\ items'[hand[w]].status = status
    BY <1>0, <1>2, <2>2, RowFields DEF Postpone
  <2>3. CASE DeferCollision(w) \/ DeferBilling(w) \/ Requeue(w)
    BY <2>2, <2>3 DEF DeferCollision, DeferBilling, Requeue, Claimable, Failures
  <2>4. CASE MarkError(w)
    BY <1>0, <1>2, <2>4, RowFields DEF MarkError, Terminal, Claimable
  <2>5. CASE \/ SkipStale(w) \/ SkipInactive(w) \/ SkipOverQuota(w) \/ SkipDryRun(w)
             \/ MarkDone(w)
    BY <2>1, <2>5
       DEF SkipStale, SkipInactive, SkipOverQuota, SkipDryRun, MarkDone, Claimable, Terminal
  <2>6. QED
    BY <2>3, <2>4, <2>5
<1>5. pc[w] \in {"pair"} \cup Failures => Uncalled(hand[w])
  BY DEF QueueInv, CallInv, CallOK, Uncalled
<1>6. RowsKept
  BY <1>0, <1>2, <1>3, <1>4, <1>5, OneRowKept DEF Terminal, Claimable
<1>7. QED
  BY <1>1, <1>6, FinishOver, RowsKeptSuffices

\* What happens to rows outside the worker's loop.
LEMMA UserKeepsCalls == QueueInv /\ UserStep => CallInv'
<1> SUFFICES ASSUME QueueInv, NEW i \in Items, NEW j \in Items,
                    Enqueue(i) \/ CancelRead(i) \/ CancelWrite(i) \/ Retry(i, j)
             PROVE  CallInv'
  BY DEF UserStep
<1>0. items \in [Items -> Item] /\ clock \in Nat
  BY DEF QueueInv, LeaseInv, TypeInv, TypeOK
<1>1. runs' = runs /\ NobodyCalls
  BY DEF NobodyCalls, Enqueue, CancelRead, CancelWrite, Retry
<1>2. ASSUME NEW k \in Items, NEW due \in Nat, items[k].status = "none",
             items' = [items EXCEPT ![k] = NewItem(due)]
      PROVE  RowsKept
  <2>1. RunsOf(k) = {} /\ items[k].runId = 0
    BY <1>2 DEF QueueInv, CallInv, AbsentIsNew
  <2>2. NewItem(due) \in Item
    BY <1>0, NewItemType
  <2>3. NewItem(due).runId = 0 /\ NewItem(due).status = "queued"
    BY DEF NewItem, NoItem
  <2>4. Uncalled(k)
    BY <2>1 DEF Uncalled
  <2>5. QED
    BY <1>2, <2>1, <2>2, <2>3, <2>4, OneRowKept
<1>3. CASE Enqueue(i)
  <2>1. PICK late \in 0..Lesser(Grace, clock) :
               items' = [items EXCEPT ![i] = NewItem(clock - late)]
    BY <1>3 DEF Enqueue
  <2>2. clock - late \in Nat
    BY <1>0, TimesTyped DEF Lesser
  <2>3. QED
    BY <1>1, <1>2, <1>3, <2>1, <2>2, RowsKeptSuffices DEF Enqueue
<1>4. CASE CancelRead(i)
  BY <1>1, <1>4, ItemsUntouched, RowsKeptSuffices DEF CancelRead
<1>5. CASE CancelWrite(i)
  <2>1. [items[i] EXCEPT !.status = "cancelled", !.leasedUntil = 0] \in Item
    BY <1>0, RowTypes, StatusTypes
  <2>2. items' = [items EXCEPT ![i] = [items[i] EXCEPT !.status = "cancelled", !.leasedUntil = 0]]
    BY <1>0, <1>5 DEF CancelWrite
  <2>3. items[i] \in Item
    BY <1>0
  <2>4. RowsKept
    BY <2>1, <2>2, <2>3, OneRowKept DEF Terminal, Item
  <2>5. QED
    BY <1>1, <2>4, RowsKeptSuffices
<1>6. CASE Retry(i, j)
  BY <1>0, <1>1, <1>2, <1>6, RowsKeptSuffices DEF Retry
<1>7. QED
  BY <1>3, <1>4, <1>5, <1>6

\* The checks before a run, a refused request, a crash and time.
LEMMA OthersKeepCalls ==
  ASSUME QueueInv,
         \/ \E w \in Workers : PassQuota(w)
         \/ \E p \in Procs : NoCollision(p) \/ Crash(p)
         \/ \E r \in Requests : RequestPassesQuota(r) \/ RequestRefused(r)
         \/ Tick \/ UNCHANGED vars
  PROVE  CallInv'
<1>0. /\ pc \in [Procs -> WorkerPcs \cup RequestPcs] /\ passNow \in [Procs -> 0..MaxClock]
      /\ Workers \cap Requests = {}
  BY NamesAreDistinct DEF QueueInv, LeaseInv, TypeInv, TypeOK
<1>1. UNCHANGED <<items, runs>>
  BY DEF PassQuota, NoCollision, Crash, RequestPassesQuota, RequestRefused, Tick, vars
<1>2. SUFFICES NobodyCalls
  BY <1>1, ItemsUntouched, RowsKeptSuffices
<1>3. ASSUME NEW w \in Workers, PassQuota(w) PROVE NobodyCalls
  BY <1>0, <1>3 DEF PassQuota, LockQuota, Goto, NobodyCalls
<1>4. ASSUME NEW p \in Procs, NoCollision(p) PROVE NobodyCalls
  BY <1>0, <1>4 DEF NoCollision, Goto, NobodyCalls
<1>5. ASSUME NEW p \in Procs, Crash(p) PROVE NobodyCalls
  <2>1. "down" \notin ItemPcs /\ "over" \notin ItemPcs
    BY DEF ItemPcs, Failures
  <2>2. QED
    BY <1>5, <2>1, PassOver DEF Crash
<1>6. ASSUME NEW r \in Requests, RequestPassesQuota(r) PROVE NobodyCalls
  BY <1>0, <1>6 DEF RequestPassesQuota, LockQuota, Goto, NobodyCalls
<1>7. ASSUME NEW r \in Requests, RequestRefused(r) PROVE NobodyCalls
  BY <1>7, FinishOver DEF RequestRefused
<1>8. CASE Tick \/ UNCHANGED vars
  BY <1>8 DEF Tick, vars, NobodyCalls
<1>9. QED
  BY <1>3, <1>4, <1>5, <1>6, <1>7, <1>8

-----------------------------------------------------------------------------
(* Steps that write the runs *)

\* The insert: the item's earlier runs have failed, for a pending one would have the
\* same pair and the collision check would have found it.
LEMMA EarlierFailed ==
  ASSUME QueueInv, NEW w \in Workers, pc[w] = "insert"
  PROVE  \A r \in RunsOf(hand[w]) : Failed(r)
<1>1. SUFFICES ASSUME NEW r \in RunsOf(hand[w]), ~Failed(r) PROVE FALSE
  OBVIOUS
<1>2. hand[w] \in Items /\ pc[w] \in ItemPcs
  BY HandsDiffer DEF ItemPcs
<1>3. Uncalled(hand[w])
  BY DEF QueueInv, CallInv, CallOK
<1>4. r \in PendingRuns
  BY <1>1, <1>3 DEF Uncalled, Orphan, RunsOf, PendingRuns
<1>5. runs[r].pair = PairFor(w)
  BY <1>1, <1>2 DEF QueueInv, CallInv, RunsNameTheirItem, RunsOf, PairFor
<1>6. PendingOn(PairFor(w)) = {}
  BY DEF QueueInv, PendingInv, PairIsFree
<1>7. QED
  BY <1>4, <1>5, <1>6 DEF PendingOn

LEMMA InsertKeepsCalls ==
  ASSUME QueueInv, NEW p \in Procs, InsertRun(p)
  PROVE  CallInv'
<1> DEFINE form == IF p \in Workers THEN hand[p] ELSE Manual
<1>a. PICK n : n = Len(runs) + 1
  OBVIOUS
<1>0. /\ pc \in [Procs -> WorkerPcs \cup RequestPcs] /\ run \in [Procs -> Nat]
      /\ clock \in Nat /\ \A q \in Procs : passNow[q] <= clock
      /\ Workers \cap Requests = {} /\ Manual \notin Items
  BY NamesAreDistinct DEF QueueInv, LeaseInv, TypeInv, TypeOK, PassesAreTimely
<1>1. PICK new : /\ runs' = Append(runs, new)
                 /\ new.pair = PairFor(p) /\ new.item = form
                 /\ new.status = "pending" /\ new.startedAt = clock
  BY DEF InsertRun
<1>2. /\ RunIds' = RunIds \cup {n} /\ n \notin RunIds /\ n # 0
      /\ \A r \in RunIds : runs'[r] = runs[r] /\ r < n
      /\ runs'[n] = new
  BY <1>a, <1>1, QueueTypes DEF RunIds
<1>3. /\ UNCHANGED <<items, hand, passNow>> /\ run' = [run EXCEPT ![p] = n]
      /\ pc' = [pc EXCEPT ![p] = IF p \in Workers THEN "link" ELSE "call"]
      /\ pc[p] = "insert"
  BY <1>a DEF InsertRun, Goto
<1>4. p \in Workers => hand[p] \in Items /\ pc[p] \in ItemPcs
  BY <1>3, HandsDiffer DEF ItemPcs
<1>5. \A i : RunsOf(i)' = IF i = form THEN RunsOf(i) \cup {n} ELSE RunsOf(i)
  BY <1>1, <1>2 DEF RunsOf
<1>6. \A r \in RunIds : (Failed(r)' <=> Failed(r)) /\ (Orphan(r)' <=> Orphan(r))
  BY <1>2, <1>3 DEF Failed, Orphan
<1>7. Orphan(n)'
  <2>1. \A i \in Items : items[i].runId # n
    BY <1>2 DEF QueueInv, CallInv, LinksAreTrue, RunsOf
  <2>2. QED
    BY <1>1, <1>2, <1>3, <2>1 DEF Orphan
<1>8. \A i \in Items : Uncalled(i) => Uncalled(i)'
  <2>1. SUFFICES ASSUME NEW i \in Items, Uncalled(i), NEW r \in RunsOf(i)'
                 PROVE  Failed(r)' \/ Orphan(r)'
    BY DEF Uncalled
  <2>2. CASE r = n
    BY <1>7, <2>2
  <2>3. CASE r # n
    <3>1. r \in RunsOf(i) /\ r \in RunIds
      BY <1>5, <2>1, <2>3 DEF RunsOf
    <3>2. QED
      BY <1>6, <2>1, <3>1 DEF Uncalled
  <2>4. QED
    BY <2>2, <2>3
<1>9. RunsNameTheirItem'
  <2>1. new.item \in Items => new.pair = PairOf[new.item]
    BY <1>0, <1>1 DEF PairFor
  <2>2. \A r \in RunIds : runs[r].item \in Items => runs[r].pair = PairOf[runs[r].item]
    BY DEF QueueInv, CallInv, RunsNameTheirItem
  <2>3. QED
    BY <1>2, <2>1, <2>2 DEF RunsNameTheirItem
<1>10. LinksAreTrue'
  BY <1>3, <1>5 DEF QueueInv, CallInv, LinksAreTrue
<1>11. AbsentIsNew'
  <2>1. p \in Workers => items[hand[p]].status # "none"
    BY <1>4, HandsDiffer
  <2>2. QED
    BY <1>0, <1>3, <1>5, <2>1 DEF QueueInv, CallInv, AbsentIsNew
<1>12. NotYetCalled'
  BY <1>3, <1>8 DEF QueueInv, CallInv, NotYetCalled, MayBeClaimed
<1>13. ASSUME NEW w \in Workers PROVE CallOK(w)'
  <2>1. CASE w = p
    <3>1. Uncalled(hand[w])'
      BY <1>3, <1>4, <1>8, <2>1 DEF QueueInv, CallInv, CallOK, Uncalled, RunsOf, Failed, Orphan, RunIds
    <3>2. Calling(w)'
      BY <1>0, <1>1, <1>2, <1>3, <1>5, <2>1 DEF Calling
    <3>3. pc'[w] = "link"
      BY <1>0, <1>3, <2>1
    <3>4. QED
      BY <3>1, <3>2, <3>3 DEF CallOK, Failures
  <2>2. CASE w # p /\ pc[w] \in ItemPcs
    <3>1. CallOK(w) /\ hand[w] \in Items /\ hand[w] # form
      BY <1>0, <1>4, <2>2, HandsDiffer DEF QueueInv, CallInv
    <3>2. RunsOf(hand[w])' = RunsOf(hand[w])
      BY <1>3, <1>5, <3>1 DEF RunsOf
    <3>3. Uncalled(hand[w]) => Uncalled(hand[w])'
      BY <1>6, <3>2 DEF Uncalled, RunsOf
    <3>4. Calling(w) => Calling(w)'
      BY <1>0, <1>2, <1>3, <2>2, <3>2 DEF Calling, RunsOf
    <3>5. (\A r \in RunsOf(hand[w]) : Failed(r)) => (\A r \in RunsOf(hand[w]) : Failed(r))'
      BY <1>6, <3>2 DEF RunsOf
    <3>6. pc'[w] = pc[w] /\ run'[w] = run[w] /\ items'[hand'[w]] = items[hand[w]]
      BY <1>0, <1>3, <2>2
    <3>7. pc[w] = "answered" => run[w] \in RunIds
      BY <3>1 DEF CallOK, RunsOf
    <3>8. QED
      BY <1>2, <1>3, <3>1, <3>2, <3>3, <3>4, <3>5, <3>6, <3>7 DEF CallOK
  <2>3. CASE w # p /\ pc[w] \notin ItemPcs
    <3>1. pc'[w] \notin ItemPcs
      BY <1>0, <1>3, <2>3
    <3>2. QED
      BY <3>1 DEF CallOK, ItemPcs, Failures
  <2>4. QED
    BY <2>1, <2>2, <2>3
<1>14. ManualOK'
  BY <1>0, <1>3, <1>5 DEF QueueInv, CallInv, ManualOK
<1>15. CalledAgainOnlyAfterFailure'
  <2>1. SUFFICES ASSUME NEW r \in RunIds', NEW s \in RunIds', r < s,
                        runs'[r].item = runs'[s].item, runs'[r].item # Manual
                 PROVE  Failed(r)'
    BY DEF CalledAgainOnlyAfterFailure, Failed
  <2>2. r \in RunIds
    BY <1>a, <1>2, <2>1, QueueTypes
  <2>3. CASE s \in RunIds
    BY <1>2, <1>6, <2>1, <2>2, <2>3 DEF QueueInv, CallInv, CalledAgainOnlyAfterFailure, Failed
  <2>4. CASE s = n
    <3>1. p \in Workers /\ r \in RunsOf(hand[p])
      BY <1>1, <1>2, <2>1, <2>2, <2>4 DEF RunsOf
    <3>2. QED
      BY <1>3, <1>6, <2>2, <3>1, EarlierFailed
  <2>5. QED
    BY <1>2, <2>3, <2>4
<1>16. QED
  BY <1>9, <1>10, <1>11, <1>12, <1>13, <1>14, <1>15 DEF CallInv
\* The link: only now does the item name its run, and only its worker has it.
LEMMA LinkKeepsCalls ==
  ASSUME QueueInv, NEW w \in Workers, LinkRun(w)
  PROVE  CallInv'
<1>0. /\ pc \in [Procs -> WorkerPcs \cup RequestPcs] /\ items \in [Items -> Item]
      /\ w \notin Requests
  BY QueueTypes, NamesAreDistinct
<1>1. /\ UNCHANGED <<runs, hand, run, passNow>> /\ pc' = [pc EXCEPT ![w] = "call"]
      /\ pc[w] = "link" /\ items' = [items EXCEPT ![hand[w]].runId = run[w]]
  BY DEF LinkRun, Goto
<1>2. /\ hand[w] \in Items /\ items[hand[w]].status \notin Claimable \cup {"none"}
      /\ \A v \in Workers : v # w => hand[v] # hand[w]
  BY <1>1, HandsDiffer DEF ItemPcs
<1>3. CallOK(w) /\ Calling(w)
  BY <1>1 DEF QueueInv, CallInv, CallOK
<1>4. run[w] \in RunIds /\ run[w] # 0 /\ run[w] \in RunsOf(hand[w])
  BY <1>3, QueueTypes DEF Calling, RunsOf
<1>5. /\ items'[hand[w]].runId = run[w] /\ items'[hand[w]].status = items[hand[w]].status
      /\ \A i \in Items : i # hand[w] => items'[i] = items[i]
  <2>1. items[hand[w]] \in Item
    BY <1>0, <1>2
  <2>2. QED
    BY <1>0, <1>1, <1>2, <2>1 DEF Item
<1>6. RunIds' = RunIds /\ \A i : RunsOf(i)' = RunsOf(i)
  BY <1>1 DEF RunIds, RunsOf
<1>7. \A r : Failed(r)' <=> Failed(r)
  BY <1>1 DEF Failed
<1>8. \A i \in Items : i # hand[w] => (Uncalled(i) => Uncalled(i)')
  <2>1. SUFFICES ASSUME NEW i \in Items, i # hand[w], Uncalled(i), NEW r \in RunsOf(i)
                 PROVE  Failed(r)' \/ Orphan(r)'
    BY <1>6 DEF Uncalled
  <2>2. r # run[w]
    BY <1>4, <2>1 DEF RunsOf
  <2>3. Orphan(r) => Orphan(r)'
    BY <1>1, <1>5, <2>2 DEF Orphan
  <2>4. QED
    BY <1>7, <2>1, <2>3 DEF Uncalled
<1>9. RunsNameTheirItem' /\ CalledAgainOnlyAfterFailure'
  BY <1>1, <1>6 DEF QueueInv, CallInv, RunsNameTheirItem, CalledAgainOnlyAfterFailure
<1>10. LinksAreTrue' /\ AbsentIsNew'
  BY <1>2, <1>4, <1>5, <1>6 DEF QueueInv, CallInv, LinksAreTrue, AbsentIsNew
<1>11. NotYetCalled'
  BY <1>2, <1>4, <1>5, <1>8 DEF QueueInv, CallInv, NotYetCalled, MayBeClaimed
<1>12. ASSUME NEW v \in Workers PROVE CallOK(v)'
  <2>1. CASE v = w
    <3>1. Calling(w)'
      BY <1>1, <1>3, <1>6 DEF Calling
    <3>2. pc'[w] = "call" /\ items'[hand'[w]].runId = run'[w]
      BY <1>0, <1>1, <1>5
    <3>3. QED
      BY <2>1, <3>1, <3>2 DEF CallOK, Failures
  <2>2. CASE v # w /\ pc[v] \in ItemPcs
    <3>1. CallOK(v) /\ hand[v] \in Items /\ hand[v] # hand[w]
      BY <1>2, <2>2, QueueTypes DEF QueueInv, CallInv
    <3>2. Uncalled(hand[v]) => Uncalled(hand[v])'
      BY <1>1, <1>6, <1>8, <3>1 DEF Uncalled, RunsOf
    <3>3. pc'[v] = pc[v] /\ items'[hand'[v]] = items[hand[v]] /\ hand'[v] = hand[v]
      BY <1>0, <1>1, <1>5, <2>2, <3>1
    <3>4. RunsOf(hand[v])' = RunsOf(hand[v])
      BY <1>6, <3>3 DEF RunsOf
    <3>5. Calling(v) => Calling(v)'
      BY <1>1, <3>4 DEF Calling
    <3>6. QED
      BY <1>1, <1>7, <3>1, <3>2, <3>3, <3>4, <3>5 DEF CallOK
  <2>3. CASE v # w /\ pc[v] \notin ItemPcs
    <3>1. pc'[v] \notin ItemPcs
      BY <1>0, <1>1, <2>3
    <3>2. QED
      BY <3>1 DEF CallOK, ItemPcs, Failures
  <2>4. QED
    BY <2>1, <2>2, <2>3
<1>13. ManualOK'
  BY <1>0, <1>1, <1>6 DEF QueueInv, CallInv, ManualOK
<1>14. QED
  BY <1>9, <1>10, <1>11, <1>12, <1>13 DEF CallInv
\* A run's end changes nothing else about it; a failed one stays as it is.
LEMMA EndRunFields ==
  ASSUME QueueInv, NEW p \in Procs, NEW status, EndRun(p, status), run[p] \in RunIds
  PROVE  /\ RunIds' = RunIds /\ runs'[run[p]].status = status
         /\ \A r \in RunIds : /\ runs'[r].item = runs[r].item /\ runs'[r].pair = runs[r].pair
                              /\ runs'[r].startedAt = runs[r].startedAt
         /\ \A r \in RunIds : r # run[p] => runs'[r] = runs[r]
         /\ \A i : RunsOf(i)' = RunsOf(i)
<1>1. \A r \in RunIds : runs[r] \in Run
  BY QueueTypes
<1>2. RunIds' = RunIds /\ runs'[run[p]] = [runs[run[p]] EXCEPT !.status = status]
  BY DEF EndRun, RunIds
<1>3. \A r \in RunIds : r # run[p] => runs'[r] = runs[r]
  BY QueueTypes DEF EndRun, RunIds
<1>4. \A r \in RunIds : /\ runs'[r].item = runs[r].item /\ runs'[r].pair = runs[r].pair
                        /\ runs'[r].startedAt = runs[r].startedAt
  BY <1>1, <1>2, <1>3 DEF Run
<1>5. \A i : RunsOf(i)' = RunsOf(i)
  BY <1>2, <1>4 DEF RunsOf
<1>6. runs'[run[p]].status = status
  BY <1>1, <1>2 DEF Run
<1>7. QED
  BY <1>2, <1>3, <1>4, <1>5, <1>6

\* execute_run's commit concerns the item of the run alone, and no item at all
\* when the run was triggered by hand.
LEMMA EndRunElsewhere ==
  ASSUME QueueInv, NEW p \in Procs, NEW status, EndRun(p, status), items' = items,
         NEW j, run[p] \in RunsOf(j), NEW i \in Items, i # j
  PROVE  /\ Uncalled(i) => Uncalled(i)'
         /\ (\A r \in RunsOf(i) : Failed(r)) => (\A r \in RunsOf(i) : Failed(r))'
<1>1. run[p] \in RunIds
  BY DEF RunsOf
<1>2. RunsOf(i)' = RunsOf(i)
  BY <1>1, EndRunFields
<1>3. \A r \in RunsOf(i) : r # run[p]
  BY DEF RunsOf
<1>4. \A r \in RunsOf(i) : (Failed(r)' <=> Failed(r)) /\ (Orphan(r)' <=> Orphan(r))
  BY <1>1, <1>3, EndRunFields DEF Failed, Orphan, RunsOf
<1>5. QED
  BY <1>2, <1>4 DEF Uncalled
LEMMA EndedRunKeepsFacts ==
  ASSUME QueueInv, NEW p \in Procs, NEW status, EndRun(p, status), items' = items,
         NEW j, run[p] \in RunsOf(j), runs[run[p]].status = "pending" \/ j = Manual
  PROVE  RunsNameTheirItem' /\ LinksAreTrue' /\ AbsentIsNew' /\ CalledAgainOnlyAfterFailure'
<1>1. /\ RunIds' = RunIds /\ \A i : RunsOf(i)' = RunsOf(i)
      /\ \A r \in RunIds : runs'[r].item = runs[r].item /\ runs'[r].pair = runs[r].pair
      /\ \A r \in RunIds : r # run[p] => runs'[r] = runs[r]
  BY EndRunFields DEF RunsOf
<1>2. RunsNameTheirItem' /\ LinksAreTrue' /\ AbsentIsNew'
  BY <1>1 DEF QueueInv, CallInv, RunsNameTheirItem, LinksAreTrue, AbsentIsNew
<1>3. \A r \in RunIds : runs[r].status \in {"error", "unlinked"} /\ runs[r].item # Manual
                          => runs'[r] = runs[r]
  BY <1>1 DEF RunsOf
<1>4. CalledAgainOnlyAfterFailure'
  BY <1>1, <1>3 DEF QueueInv, CallInv, CalledAgainOnlyAfterFailure
<1>5. QED
  BY <1>2, <1>4

\* Another worker has another item, and another run.
LEMMA EndRunCallOK ==
  ASSUME QueueInv, NEW p \in Procs, NEW status, EndRun(p, status), items' = items,
         NEW j, run[p] \in RunsOf(j), NEW v \in Workers, pc[v] \in ItemPcs, hand[v] # j,
         UNCHANGED <<pc[v], hand[v], run[v], passNow[v]>>
  PROVE  CallOK(v)'
<1>1. CallOK(v) /\ hand[v] \in Items
  BY QueueTypes DEF QueueInv, CallInv
<1>2. /\ Uncalled(hand[v]) => Uncalled(hand[v])'
      /\ (\A r \in RunsOf(hand[v]) : Failed(r)) => (\A r \in RunsOf(hand[v]) : Failed(r))'
  <2>1. PICK i \in Items : i = hand[v]
    BY <1>1
  <2>2. /\ Uncalled(i) => Uncalled(i)'
        /\ (\A r \in RunsOf(i) : Failed(r)) => (\A r \in RunsOf(i) : Failed(r))'
    BY <2>1, EndRunElsewhere
  <2>3. hand'[v] = i
    BY <2>1
  <2>4. QED
    BY <2>1, <2>2, <2>3 DEF Uncalled, RunsOf
<1>3. run[p] \in RunIds
  BY DEF RunsOf
<1>4. run[v] \in RunsOf(hand[v]) =>
        /\ run[v] # run[p] /\ run[v] \in RunIds /\ runs'[run[v]] = runs[run[v]]
        /\ run'[v] \in RunsOf(hand[v])'
  <2>1. SUFFICES ASSUME run[v] \in RunsOf(hand[v])
                 PROVE  /\ run[v] # run[p] /\ run[v] \in RunIds
                        /\ runs'[run[v]] = runs[run[v]] /\ run'[v] \in RunsOf(hand[v])'
    OBVIOUS
  <2>2. run[v] # run[p] /\ run[v] \in RunIds
    BY <2>1 DEF RunsOf
  <2>3. runs'[run[v]] = runs[run[v]] /\ RunIds' = RunIds
    BY <1>3, <2>2, EndRunFields
  <2>4. QED
    BY <2>1, <2>2, <2>3 DEF RunsOf
<1>5. Calling(v) => Calling(v)'
  BY <1>4 DEF Calling
<1>6. QED
  BY <1>1, <1>2, <1>4, <1>5 DEF CallOK

\* The provider's answer: the run was the item's last, so after a failure all of
\* the item's runs have failed.
LEMMA AnswerKeepsCalls ==
  ASSUME QueueInv, NEW w \in Workers, ProviderAnswers(w) \/ ProviderFails(w)
  PROVE  CallInv'
<1>0. /\ pc \in [Procs -> WorkerPcs \cup RequestPcs] /\ w \notin Requests
  BY QueueTypes, NamesAreDistinct
<1>1. PICK status, l :
        /\ EndRun(w, status) /\ pc' = [pc EXCEPT ![w] = l]
        /\ \/ status = "success" /\ l = "answered"
           \/ status = "error" /\ l \in Failures
  BY DEF ProviderAnswers, ProviderFails, Goto
<1>2. UNCHANGED <<items, hand, run, passNow>> /\ pc[w] = "call"
  BY DEF ProviderAnswers, ProviderFails
<1>3. /\ hand[w] \in Items /\ items[hand[w]].status \notin Claimable \cup {"none"}
      /\ \A v \in Workers : v # w => hand[v] # hand[w]
  BY <1>2, HandsDiffer DEF ItemPcs
<1>4. PICK j \in Items : j = hand[w]
  BY <1>3
<1>5. /\ run[w] \in RunsOf(j) /\ runs[run[w]].status = "pending" /\ items[j].runId = run[w]
      /\ run[w] \in RunIds /\ run[w] # 0
  BY <1>2, <1>4, QueueTypes DEF QueueInv, CallInv, CallOK, Calling, RunsOf
<1>6. RunsNameTheirItem' /\ LinksAreTrue' /\ AbsentIsNew' /\ CalledAgainOnlyAfterFailure'
  BY <1>1, <1>2, <1>5, EndedRunKeepsFacts
<1>7. NotYetCalled'
  <2>1. SUFFICES ASSUME NEW i \in Items, MayBeClaimed(i) PROVE Uncalled(i)'
    BY <1>2 DEF NotYetCalled, MayBeClaimed
  <2>2. Uncalled(i) /\ i # j
    BY <1>3, <1>4, <1>5, <2>1 DEF QueueInv, CallInv, NotYetCalled, MayBeClaimed
  <2>3. QED
    BY <1>1, <1>2, <1>5, <2>2, EndRunElsewhere
<1>8. CallOK(w)'
  <2>1. /\ pc'[w] = l /\ hand'[w] = j /\ run'[w] = run[w] /\ items'[j].runId = run[w]
        /\ RunsOf(j)' = RunsOf(j) /\ runs'[run[w]].status = status
    BY <1>0, <1>1, <1>2, <1>4, <1>5, EndRunFields
  <2>2. CASE status = "success" /\ l = "answered"
    BY <1>5, <2>1, <2>2 DEF CallOK, Failures, RunsOf
  <2>3. CASE status = "error" /\ l \in Failures
    <3>1. ~Failed(run[w])
      BY <1>5 DEF Failed
    <3>2. \A r \in RunsOf(j) : Failed(r)'
      <4>1. SUFFICES ASSUME NEW r \in RunsOf(j) PROVE Failed(r)'
        OBVIOUS
      <4>2. CASE r = run[w]
        BY <2>1, <2>3, <4>2 DEF Failed
      <4>3. CASE r # run[w]
        <5>1. Failed(r) /\ r \in RunIds
          BY <1>5, <3>1, <4>3, OthersFailed DEF RunsOf
        <5>2. runs'[r] = runs[r]
          BY <1>1, <1>5, <4>3, <5>1, EndRunFields
        <5>3. QED
          BY <5>1, <5>2 DEF Failed
      <4>4. QED
        BY <4>2, <4>3
    <3>3. \A r \in RunsOf(hand[w])' : Failed(r)'
      BY <2>1, <3>2 DEF RunsOf
    <3>4. QED
      BY <2>1, <2>3, <3>3 DEF CallOK, Failures
  <2>4. QED
    BY <1>1, <2>2, <2>3
<1>9. ASSUME NEW v \in Workers, v # w PROVE CallOK(v)'
  <2>1. CASE pc[v] \in ItemPcs
    BY <1>0, <1>1, <1>2, <1>3, <1>4, <1>5, <1>9, <2>1, EndRunCallOK
  <2>2. CASE pc[v] \notin ItemPcs
    <3>1. pc'[v] \notin ItemPcs
      BY <1>0, <1>1, <1>9, <2>2
    <3>2. QED
      BY <3>1 DEF CallOK, ItemPcs, Failures
  <2>3. QED
    BY <2>1, <2>2
<1>10. ManualOK'
  BY <1>0, <1>1, <1>2, <1>5, EndRunFields DEF QueueInv, CallInv, ManualOK
<1>11. QED
  BY <1>6, <1>7, <1>8, <1>9, <1>10 DEF CallInv
LEMMA RequestEndKeepsCalls ==
  ASSUME QueueInv, NEW q \in Requests, RequestEnds(q)
  PROVE  CallInv'
<1>0. /\ pc \in [Procs -> WorkerPcs \cup RequestPcs] /\ run \in [Procs -> Nat]
      /\ passNow \in [Procs -> 0..MaxClock] /\ hand \in [Workers -> Items \cup {Nobody}]
      /\ q \notin Workers /\ Manual \notin Items
  BY NamesAreDistinct DEF QueueInv, LeaseInv, TypeInv, TypeOK
<1>1. PICK status : EndRun(q, status)
  BY DEF RequestEnds
<1>2. /\ items' = items /\ pc[q] = "call" /\ pc' = [pc EXCEPT ![q] = "over"]
      /\ run' = [run EXCEPT ![q] = 0] /\ passNow' = [passNow EXCEPT ![q] = 0]
      /\ \A w \in Workers : hand'[w] = hand[w]
  BY <1>0 DEF RequestEnds, Finish, Goto
<1>3. run[q] \in RunsOf(Manual) /\ run[q] \in RunIds
  BY <1>2 DEF QueueInv, CallInv, ManualOK, RunsOf
<1>4. RunsNameTheirItem' /\ LinksAreTrue' /\ AbsentIsNew' /\ CalledAgainOnlyAfterFailure'
  BY <1>1, <1>2, <1>3, EndedRunKeepsFacts
<1>5. NotYetCalled'
  <2>1. SUFFICES ASSUME NEW i \in Items, MayBeClaimed(i) PROVE Uncalled(i)'
    BY <1>2 DEF NotYetCalled, MayBeClaimed
  <2>2. Uncalled(i) /\ i # Manual
    BY <1>0, <2>1 DEF QueueInv, CallInv, NotYetCalled
  <2>3. QED
    BY <1>1, <1>2, <1>3, <2>2, EndRunElsewhere
<1>6. ASSUME NEW v \in Workers PROVE CallOK(v)'
  <2>1. v # q /\ UNCHANGED <<pc[v], hand[v], run[v], passNow[v]>>
    BY <1>0, <1>2, <1>6
  <2>2. CASE pc[v] \in ItemPcs
    <3>1. hand[v] # Manual
      BY <1>0, <2>2, QueueTypes
    <3>2. QED
      BY <1>1, <1>2, <1>3, <2>1, <2>2, <3>1, EndRunCallOK
  <2>3. CASE pc[v] \notin ItemPcs
    BY <2>1, <2>3 DEF CallOK, ItemPcs, Failures
  <2>4. QED
    BY <2>2, <2>3
<1>7. ManualOK'
  <2>1. \A i : RunsOf(i)' = RunsOf(i)
    BY <1>1, <1>3, EndRunFields
  <2>2. \A r \in Requests : pc'[r] = "call" => pc[r] = "call" /\ run'[r] = run[r]
    BY <1>0, <1>2
  <2>3. QED
    BY <2>1, <2>2 DEF QueueInv, CallInv, ManualOK
<1>8. QED
  BY <1>4, <1>5, <1>6, <1>7 DEF CallInv

-----------------------------------------------------------------------------
(* reconcile_interrupted_runs *)

\* What a sweep does to a run and to a row.
LEMMA SweepFields ==
  ASSUME QueueInv, NEW now, ReconcileAt(now)
  PROVE  /\ RunIds' = RunIds /\ \A i : RunsOf(i)' = RunsOf(i)
         /\ \A r \in RunIds :
              /\ runs'[r].item = runs[r].item /\ runs'[r].pair = runs[r].pair
              /\ runs'[r].startedAt = runs[r].startedAt
              /\ r \notin StaleRuns(now) => runs'[r] = runs[r]
              /\ r \in StaleRuns(now) =>
                   IF \E i \in Items : items[i].runId = r
                   THEN runs'[r].status = "unknown" ELSE runs'[r].status = "unlinked"
         /\ \A i \in Items :
              /\ items'[i].runId = items[i].runId
              /\ items'[i].status = items[i].status \/ items'[i].status = "error"
              /\ items[i].runId \notin StaleRuns(now) => items'[i] = items[i]
<1>1. (\A r \in RunIds : runs[r] \in Run) /\ (\A i \in Items : items[i] \in Item)
  BY QueueTypes
<1>2. RunIds' = RunIds
  BY DEF ReconcileAt, RunIds
<1>3. \A r \in RunIds :
        /\ runs'[r].item = runs[r].item /\ runs'[r].pair = runs[r].pair
        /\ runs'[r].startedAt = runs[r].startedAt
        /\ r \notin StaleRuns(now) => runs'[r] = runs[r]
        /\ r \in StaleRuns(now) =>
             IF \E i \in Items : items[i].runId = r
             THEN runs'[r].status = "unknown" ELSE runs'[r].status = "unlinked"
  BY <1>1 DEF ReconcileAt, Run
<1>4. \A i : RunsOf(i)' = RunsOf(i)
  BY <1>2, <1>3 DEF RunsOf
<1>5. \A i \in Items :
        /\ items'[i].runId = items[i].runId
        /\ items'[i].status = items[i].status \/ items'[i].status = "error"
        /\ items[i].runId \notin StaleRuns(now) => items'[i] = items[i]
  <2>1. SUFFICES ASSUME NEW i \in Items
                 PROVE  /\ items'[i].runId = items[i].runId
                        /\ items'[i].status = items[i].status \/ items'[i].status = "error"
                        /\ items[i].runId \notin StaleRuns(now) => items'[i] = items[i]
    OBVIOUS
  <2>2. \/ items'[i] = items[i]
        \/ /\ items'[i] = [items[i] EXCEPT !.status = "error", !.leasedUntil = 0]
           /\ items[i].runId \in StaleRuns(now)
    BY DEF ReconcileAt
  <2>3. CASE items'[i] = [items[i] EXCEPT !.status = "error", !.leasedUntil = 0]
    <3>1. items[i] \in Item
      BY <1>1
    <3>2. items'[i].status = "error" /\ items'[i].runId = items[i].runId
      BY <2>3, <3>1 DEF Item
    <3>3. QED
      BY <2>2, <3>2
  <2>4. QED
    BY <2>2, <2>3
<1>6. QED
  BY <1>2, <1>3, <1>4, <1>5

\* A run whose process is alive is too young for the sweep.
LEMMA LiveRunsAreFresh ==
  ASSUME QueueInv, NEW now \in Nat, now <= clock, NEW w \in Workers,
         pc[w] \in {"link", "call"}
  PROVE  run[w] \notin StaleRuns(now)
<1>1. Calling(w) /\ run[w] \in RunIds
  BY DEF QueueInv, CallInv, CallOK, Calling, RunsOf
<1>2. /\ runs[run[w]].startedAt \in Nat /\ passNow[w] \in Nat /\ clock \in Nat
      /\ MaxPass \in Nat /\ Cutoff \in Nat /\ MaxPass <= Cutoff
  <2>1. runs[run[w]] \in Run
    BY <1>1, QueueTypes
  <2>2. passNow[w] \in Nat /\ clock \in Nat
    BY TimesTyped DEF QueueInv, LeaseInv, TypeInv, TypeOK
  <2>3. MaxPass \in Nat /\ Cutoff \in Nat /\ MaxPass <= Cutoff
    BY TimesAreNaturals, PassesAreShort
  <2>4. QED
    BY <2>1, <2>2, <2>3 DEF Run
<1>3. Busy(w)
  BY DEF Busy
<1>4. clock <= passNow[w] + MaxPass
  BY <1>3 DEF QueueInv, LeaseInv, PassesAreTimely
<1>5. passNow[w] <= runs[run[w]].startedAt
  BY <1>1, <1>2 DEF Calling
<1>6. now <= runs[run[w]].startedAt + Cutoff
  BY <1>2, <1>4, <1>5
<1>7. QED
  BY <1>2, <1>6 DEF StaleRuns

\* A sweep fails the orphans it finds and leaves failed runs alone.
LEMMA SweepKeepsUncalled ==
  ASSUME QueueInv, NEW now, ReconcileAt(now), NEW i \in Items
  PROVE  /\ Uncalled(i) => Uncalled(i)'
         /\ \A r \in RunIds : Failed(r) => Failed(r)'
<1>1. \A r \in RunIds : Failed(r) => Failed(r)'
  BY SweepFields DEF Failed, StaleRuns
<1>2. \A r \in RunIds : Orphan(r) => Failed(r)' \/ Orphan(r)'
  <2>1. SUFFICES ASSUME NEW r \in RunIds, Orphan(r) PROVE Failed(r)' \/ Orphan(r)'
    OBVIOUS
  <2>2. CASE r \in StaleRuns(now)
    BY <2>1, <2>2, SweepFields DEF Orphan, Failed
  <2>3. CASE r \notin StaleRuns(now)
    BY <2>1, <2>3, SweepFields DEF Orphan
  <2>4. QED
    BY <2>2, <2>3
<1>3. RunsOf(i)' = RunsOf(i)
  BY SweepFields
<1>4. QED
  BY <1>1, <1>2, <1>3 DEF Uncalled, RunsOf
LEMMA SweepKeepsCalls ==
  ASSUME QueueInv, NEW now \in Nat, now <= clock, ReconcileAt(now),
         UNCHANGED <<hand, run, passNow>>,
         \A v \in Workers : pc'[v] \in ItemPcs => pc'[v] = pc[v],
         \A q \in Requests : pc'[q] = pc[q]
  PROVE  CallInv'
<1>1. RunIds' = RunIds /\ \A i : RunsOf(i)' = RunsOf(i)
  BY SweepFields
<1>2. RunsNameTheirItem'
  BY <1>1, SweepFields DEF QueueInv, CallInv, RunsNameTheirItem
<1>3. LinksAreTrue' /\ AbsentIsNew'
  BY <1>1, SweepFields DEF QueueInv, CallInv, LinksAreTrue, AbsentIsNew
<1>4. NotYetCalled'
  <2>1. SUFFICES ASSUME NEW i \in Items, MayBeClaimed(i)' PROVE Uncalled(i)'
    BY DEF NotYetCalled
  <2>2. MayBeClaimed(i)
    BY <2>1, SweepFields DEF MayBeClaimed, Claimable
  <2>3. QED
    BY <2>2, SweepKeepsUncalled DEF QueueInv, CallInv, NotYetCalled
<1>5. CalledAgainOnlyAfterFailure'
  <2>1. SUFFICES ASSUME NEW r \in RunIds, NEW s \in RunIds, r < s,
                        runs[r].item = runs[s].item, runs[r].item # Manual
                 PROVE  runs'[r].status \in {"error", "unlinked"}
    BY <1>1, SweepFields DEF CalledAgainOnlyAfterFailure
  <2>2. runs[r].status \in {"error", "unlinked"}
    BY <2>1 DEF QueueInv, CallInv, CalledAgainOnlyAfterFailure
  <2>3. r \notin StaleRuns(now)
    BY <2>2 DEF StaleRuns
  <2>4. QED
    BY <2>2, <2>3, SweepFields
<1>6. ASSUME NEW v \in Workers PROVE CallOK(v)'
  <2>1. CASE pc'[v] \notin ItemPcs
    BY <2>1 DEF CallOK, ItemPcs, Failures
  <2>2. CASE pc'[v] \in ItemPcs
    <3>1. pc'[v] = pc[v] /\ CallOK(v) /\ hand[v] \in Items
      BY <2>2, QueueTypes DEF QueueInv, CallInv
    <3>2. Uncalled(hand[v]) => Uncalled(hand[v])'
      <4>1. PICK i \in Items : i = hand[v]
        BY <3>1
      <4>2. Uncalled(i) => Uncalled(i)'
        BY SweepKeepsUncalled
      <4>3. QED
        BY <4>1, <4>2 DEF Uncalled, RunsOf
    <3>3. RunsOf(hand[v])' = RunsOf(hand[v])
      BY <1>1 DEF RunsOf
    <3>4. (\A r \in RunsOf(hand[v]) : Failed(r)) => (\A r \in RunsOf(hand[v]) : Failed(r))'
      BY <3>1, <3>3, SweepKeepsUncalled DEF RunsOf
    <3>5. items'[hand'[v]].runId = items[hand[v]].runId
      BY <3>1, SweepFields
    <3>6. pc[v] \in {"link", "call"} => Calling(v)'
      BY <3>1, <3>3, SweepFields, LiveRunsAreFresh DEF CallOK, Calling, RunsOf
    <3>7. pc[v] = "answered" =>
             run[v] \in RunsOf(hand[v]) /\ runs'[run[v]].status = "success"
      BY <3>1, SweepFields DEF CallOK, RunsOf, StaleRuns
    <3>8. QED
      BY <3>1, <3>2, <3>3, <3>4, <3>5, <3>6, <3>7 DEF CallOK
  <2>3. QED
    BY <2>1, <2>2
<1>7. ManualOK'
  BY <1>1 DEF QueueInv, CallInv, ManualOK
<1>8. QED
  BY <1>2, <1>3, <1>4, <1>5, <1>6, <1>7 DEF CallInv

-----------------------------------------------------------------------------

\* The invariant is inductive.
LEMMA QueueStep == QueueInv /\ [Next]_vars => QueueInv'
<1> SUFFICES ASSUME QueueInv, [Next]_vars PROVE CallInv'
  BY LeaseStep, PendingStep DEF QueueInv
<1>0. /\ pc \in [Procs -> WorkerPcs \cup RequestPcs] /\ Workers \cap Requests = {}
      /\ passNow \in [Procs -> 0..MaxClock] /\ clock \in Nat
      /\ \A p \in Procs : passNow[p] <= clock
  BY NamesAreDistinct DEF QueueInv, LeaseInv, TypeInv, TypeOK, PassesAreTimely
<1>1. ASSUME NEW w \in Workers, Reconcile(w) \/ Restart(w) PROVE CallInv'
  <2>1. PICK now \in Nat : now <= clock /\ ReconcileAt(now)
    BY <1>0, <1>1 DEF Reconcile, Restart
  <2>2. UNCHANGED <<hand, run, passNow>>
    BY <1>1 DEF Reconcile, Restart
  <2>3. \E l : l \notin ItemPcs /\ pc' = [pc EXCEPT ![w] = l]
    BY <1>1 DEF Reconcile, Restart, Goto, ItemPcs, Failures
  <2>4. \A v \in Workers : pc'[v] \in ItemPcs => pc'[v] = pc[v]
    BY <1>0, <2>3
  <2>5. \A q \in Requests : pc'[q] = pc[q]
    BY <1>0, <2>3
  <2>6. QED
    BY <2>1, <2>2, <2>4, <2>5, SweepKeepsCalls
<1>2. ASSUME NEW w \in Workers, WorkerStep(w) PROVE CallInv'
  BY <1>1, <1>2, LoopKeepsCalls, PassEndKeepsCalls, OthersKeepCalls, InsertKeepsCalls,
     LinkKeepsCalls, AnswerKeepsCalls DEF WorkerStep
<1>3. ASSUME NEW q \in Requests, RequestStep(q) PROVE CallInv'
  BY <1>3, OthersKeepCalls, InsertKeepsCalls, RequestEndKeepsCalls DEF RequestStep
<1>4. CASE Tick \/ UNCHANGED vars \/ \E p \in Procs : Crash(p)
  BY <1>4, OthersKeepCalls
<1>5. QED
  BY <1>1, <1>2, <1>3, <1>4, UserKeepsCalls DEF Next

LEMMA InitQueueInv == Init => QueueInv
<1> SUFFICES ASSUME Init PROVE QueueInv
  OBVIOUS
<1>1. RunIds = {} /\ \A i : RunsOf(i) = {}
  BY DEF Init, RunIds, RunsOf
<1>2. CallInv
  BY <1>1 DEF Init, CallInv, RunsNameTheirItem, LinksAreTrue, AbsentIsNew, NotYetCalled,
     Uncalled, CallOK, Failures, ManualOK, CalledAgainOnlyAfterFailure, NoItem
<1>3. LeaseInv
  BY InitTypeInv, TimesAreNaturals
     DEF Init, LeaseInv, PassesAreTimely, Busy, HandedRow, ClaimExclusive
<1>4. PendingInv
  BY <1>1, InitTypeInv DEF Init, PendingInv, LockIsHeld, PairIsFree, OnePendingPerPair
<1>5. QED
  BY <1>2, <1>3, <1>4 DEF QueueInv

\* No planned occurrence is sent to a provider again unless its last run is known to
\* have failed or was never sent, for any number of workers, kills, retries, expired
\* leases and sweeps (decision 13, queue.py:364-367).
THEOREM NoSecondCall == Spec => []CalledAgainOnlyAfterFailure
<1>1. QueueInv => CalledAgainOnlyAfterFailure
  BY DEF QueueInv, CallInv
<1>2. QED
  BY <1>1, InitQueueInv, QueueStep, PTL DEF Spec
-----------------------------------------------------------------------------
(* The queue implements Occurrence, where nobody cancels *)

\* Without cancellations the item in hand stays leased, and so does the item of
\* every pending run: nobody writes a row behind a worker's back.
NoCancel ==
  /\ cancelling = {} /\ \A i \in Items : items[i].status # "cancelled"
  /\ \A w \in Workers : hand[w] # Nobody => items[hand[w]].status = "leased"
  /\ \A i \in Items : items[i].runId \in PendingRuns => items[i].status = "leased"

PromiseInv == QueueInv /\ NoCancel

\* The item has a run that ended this way.
Had(i, status) == \E r \in RunsOf(i) : runs[r].status = status

LEMMA LatestCallIs ==
  ASSUME NEW i
  PROVE  LatestCall(i) = IF items[i].runId \in PendingRuns THEN "pending"
                         ELSE IF Had(i, "success") THEN "answered"
                         ELSE IF Had(i, "unknown") THEN "unknown"
                         ELSE IF Had(i, "error") THEN "failed" ELSE "none"
BY DEF LatestCall, Had, RunsOf

LEMMA LatestCallWillBe ==
  ASSUME NEW i
  PROVE  LatestCall(i)' = IF items'[i].runId \in PendingRuns' THEN "pending"
                          ELSE IF Had(i, "success")' THEN "answered"
                          ELSE IF Had(i, "unknown")' THEN "unknown"
                          ELSE IF Had(i, "error")' THEN "failed" ELSE "none"
BY DEF LatestCall, Had, RunsOf

\* LatestCall forgets pending runs nobody links to and runs that were never sent.
LEMMA SameCall ==
  ASSUME NEW i, items'[i].runId \in PendingRuns' <=> items[i].runId \in PendingRuns,
         \A s \in {"success", "unknown", "error"} : Had(i, s)' <=> Had(i, s)
  PROVE  LatestCall(i)' = LatestCall(i)
BY LatestCallIs, LatestCallWillBe

LEMMA UncalledHasNoCall ==
  ASSUME QueueInv, NEW i \in Items, Uncalled(i)
  PROVE  LatestCall(i) \in {"none", "failed"} /\ items[i].runId \notin PendingRuns
<1>1. items[i].runId \notin PendingRuns
  <2>1. SUFFICES ASSUME items[i].runId \in PendingRuns PROVE FALSE
    OBVIOUS
  <2>2. items[i].runId \in RunIds /\ items[i].runId # 0
    BY <2>1, QueueTypes DEF PendingRuns
  <2>3. items[i].runId \in RunsOf(i)
    BY <2>2 DEF QueueInv, CallInv, LinksAreTrue
  <2>4. QED
    BY <2>1, <2>3 DEF Uncalled, Failed, Orphan, PendingRuns
<1>2. ~Had(i, "success") /\ ~Had(i, "unknown")
  BY DEF Had, Uncalled, Failed, Orphan
<1>3. QED
  BY <1>1, <1>2, LatestCallIs

\* Where the worker stands tells what became of its item's latest call.
LEMMA HandCall ==
  ASSUME PromiseInv, NEW w \in Workers, pc[w] \in ItemPcs
  PROVE  /\ hand[w] \in Items /\ items[hand[w]].status = "leased"
         /\ pc[w] \in {"admit", "pair", "insert", "link"} \cup Failures
              => /\ LatestCall(hand[w]) \in {"none", "failed"}
                 /\ items[hand[w]].runId \notin PendingRuns
         /\ pc[w] = "call" => LatestCall(hand[w]) = "pending"
         /\ pc[w] = "answered" => /\ LatestCall(hand[w]) = "answered"
                                  /\ items[hand[w]].runId \notin PendingRuns
<1>1. hand[w] \in Items /\ items[hand[w]].status = "leased"
  BY HandsDiffer, NamesAreDistinct DEF PromiseInv, NoCancel
<1>2. CallOK(w) /\ QueueInv
  BY DEF PromiseInv, QueueInv, CallInv
<1>3. CASE pc[w] \in {"admit", "pair", "insert", "link"} \cup Failures
  <2>1. Uncalled(hand[w])
    BY <1>2, <1>3 DEF CallOK, Uncalled
  <2>2. QED
    BY <1>1, <1>2, <1>3, <2>1, UncalledHasNoCall DEF Failures
<1>4. CASE pc[w] = "call"
  <2>1. items[hand[w]].runId \in PendingRuns
    BY <1>2, <1>4 DEF CallOK, Calling, RunsOf, PendingRuns
  <2>2. QED
    BY <1>1, <1>4, <2>1, LatestCallIs DEF Failures
<1>5. CASE pc[w] = "answered"
  <2>1. items[hand[w]].runId \notin PendingRuns /\ Had(hand[w], "success")
    BY <1>2, <1>5 DEF CallOK, RunsOf, PendingRuns, Had
  <2>2. QED
    BY <1>1, <1>5, <2>1, LatestCallIs DEF Failures
<1>6. QED
  BY <1>1, <1>3, <1>4, <1>5 DEF ItemPcs
\* What Occurrence sees of an item, and a step it allows.
Seen(i) == [stage |-> Stage(i), call |-> LatestCall(i)]

Promised(i) == Seen(i)' = Seen(i) \/ Occurrences!Move(Seen(i), Seen(i)')

LEMMA StageIs ==
  ASSUME NEW i
  PROVE  /\ items[i].status = "none" => Stage(i) = "absent"
         /\ items[i].status = "done" => Stage(i) = "done"
         /\ items[i].status \in {"error", "skipped", "cancelled"} => Stage(i) = "dropped"
         /\ items[i].status \in {"queued", "deferred", "leased"} => Stage(i) = "open"
BY DEF Stage, Terminal

LEMMA StageWillBe ==
  ASSUME NEW i
  PROVE  /\ items'[i].status = "none" => Stage(i)' = "absent"
         /\ items'[i].status = "done" => Stage(i)' = "done"
         /\ items'[i].status \in {"error", "skipped", "cancelled"} => Stage(i)' = "dropped"
         /\ items'[i].status \in {"queued", "deferred", "leased"} => Stage(i)' = "open"
BY DEF Stage, Terminal

\* The moves of an occurrence, in terms of what is seen of it.
LEMMA Moves ==
  ASSUME NEW i,
         \/ Stage(i)' = Stage(i) /\ LatestCall(i)' = LatestCall(i)
         \/ /\ Stage(i) = "absent" /\ Stage(i)' = "open"
            /\ LatestCall(i)' = LatestCall(i)
         \/ /\ Stage(i) = "open" /\ Stage(i)' = "dropped"
            /\ LatestCall(i) \in {"none", "failed"} /\ LatestCall(i)' = LatestCall(i)
         \/ /\ Stage(i) = "open" /\ Stage(i)' = "done"
            /\ LatestCall(i) = "answered" /\ LatestCall(i)' = "answered"
         \/ /\ Stage(i) = "open" /\ Stage(i)' = "open"
            /\ LatestCall(i) \in {"none", "failed"} /\ LatestCall(i)' = "pending"
         \/ /\ Stage(i) = "open" /\ Stage(i)' = "open"
            /\ LatestCall(i) = "pending" /\ LatestCall(i)' \in {"failed", "answered"}
         \/ /\ Stage(i) = "open" /\ Stage(i)' = "dropped"
            /\ LatestCall(i) = "pending" /\ LatestCall(i)' = "unknown"
  PROVE  Promised(i)
<1> USE DEF Promised, Seen, Occurrences!Move
<1>1. CASE Stage(i)' = Stage(i) /\ LatestCall(i)' = LatestCall(i)
  BY <1>1
<1>2. CASE /\ Stage(i) = "absent" /\ Stage(i)' = "open"
           /\ LatestCall(i)' = LatestCall(i)
  BY <1>2 DEF Occurrences!Planned
<1>3. CASE /\ Stage(i) = "open" /\ Stage(i)' = "dropped"
           /\ LatestCall(i) \in {"none", "failed"} /\ LatestCall(i)' = LatestCall(i)
  BY <1>3 DEF Occurrences!Dropped
<1>4. CASE /\ Stage(i) = "open" /\ Stage(i)' = "done"
           /\ LatestCall(i) = "answered" /\ LatestCall(i)' = "answered"
  BY <1>4 DEF Occurrences!Finished
<1>5. CASE /\ Stage(i) = "open" /\ Stage(i)' = "open"
           /\ LatestCall(i) \in {"none", "failed"} /\ LatestCall(i)' = "pending"
  BY <1>5 DEF Occurrences!Called
<1>6. CASE /\ Stage(i) = "open" /\ Stage(i)' = "open"
           /\ LatestCall(i) = "pending" /\ LatestCall(i)' \in {"failed", "answered"}
  BY <1>6 DEF Occurrences!Returned
<1>7. CASE /\ Stage(i) = "open" /\ Stage(i)' = "dropped"
           /\ LatestCall(i) = "pending" /\ LatestCall(i)' = "unknown"
  BY <1>7 DEF Occurrences!GivenUp
<1>8. QED
  BY <1>1, <1>2, <1>3, <1>4, <1>5, <1>6, <1>7

\* What a step must do to keep the promise, and to keep rows and workers together.
Faithful == NoCancel' /\ \A i \in Items : Promised(i)

LEMMA CallsUntouched ==
  ASSUME runs' = runs, NEW i \in Items, items'[i].runId = items[i].runId
  PROVE  LatestCall(i)' = LatestCall(i) /\ PendingRuns' = PendingRuns
<1>1. PendingRuns' = PendingRuns /\ RunsOf(i)' = RunsOf(i)
  BY DEF PendingRuns, RunIds, RunsOf
<1>2. QED
  BY <1>1, SameCall DEF Had

\* The row of one item changes, and keeps its link.
LEMMA OneRowFaithful ==
  ASSUME PromiseInv, runs' = runs, cancelling' = cancelling, NEW i \in Items,
         \A j \in Items : j # i => items'[j] = items[j],
         items'[i].runId = items[i].runId,
         items'[i].status = "leased" \/ items[i].runId \notin PendingRuns,
         items'[i].status # "cancelled",
         \A w \in Workers : hand'[w] # Nobody =>
           IF hand'[w] = i THEN items'[i].status = "leased" ELSE hand'[w] = hand[w],
         Promised(i)
  PROVE  Faithful
<1>1. \A j \in Items : items'[j].runId = items[j].runId
  OBVIOUS
<1>2. PendingRuns' = PendingRuns
  BY DEF PendingRuns, RunIds
<1>3. \A w \in Workers : hand[w] \in Items \cup {Nobody}
  BY QueueTypes DEF PromiseInv
<1>4. \A w \in Workers : hand'[w] # Nobody => items'[hand'[w]].status = "leased"
  <2>1. SUFFICES ASSUME NEW w \in Workers, hand'[w] # Nobody
                 PROVE  items'[hand'[w]].status = "leased"
    OBVIOUS
  <2>2. CASE hand'[w] = i
    BY <2>1, <2>2
  <2>3. CASE hand'[w] # i
    BY <1>3, <2>1, <2>3 DEF PromiseInv, NoCancel
  <2>4. QED
    BY <2>2, <2>3
<1>5. NoCancel'
  BY <1>1, <1>2, <1>4 DEF PromiseInv, NoCancel
<1>6. ASSUME NEW j \in Items, j # i PROVE Promised(j)
  <2>1. LatestCall(j)' = LatestCall(j)
    BY <1>1, CallsUntouched
  <2>2. Stage(j)' = Stage(j)
    BY <1>6 DEF Stage
  <2>3. QED
    BY <2>1, <2>2, Moves
<1>7. QED
  BY <1>5, <1>6 DEF Faithful

\* Nothing the promise speaks of changes.
LEMMA NothingSeen ==
  ASSUME PromiseInv, UNCHANGED <<runs, items, cancelling>>,
         \A w \in Workers : hand'[w] # Nobody => hand'[w] = hand[w]
  PROVE  Faithful
<1>1. NoCancel'
  BY DEF PromiseInv, NoCancel, PendingRuns, RunIds
<1>2. ASSUME NEW i \in Items PROVE Promised(i)
  <2>1. LatestCall(i)' = LatestCall(i) /\ Stage(i)' = Stage(i)
    BY CallsUntouched DEF Stage
  <2>2. QED
    BY <2>1, Moves
<1>3. QED
  BY <1>1, <1>2 DEF Faithful
\* Before the claim, the refused and checked requests, kills and time.
LEMMA UnseenSteps ==
  ASSUME PromiseInv,
         \/ \E w \in Workers : BeginPass(w) \/ NothingDue(w) \/ PassQuota(w)
         \/ \E p \in Procs : NoCollision(p) \/ Crash(p)
         \/ \E r \in Requests : RequestPassesQuota(r) \/ RequestRefused(r)
         \/ Tick \/ UNCHANGED vars
  PROVE  Faithful
<1>1. UNCHANGED <<runs, items, cancelling>>
  BY DEF BeginPass, NothingDue, PassQuota, NoCollision, Crash, RequestPassesQuota,
         RequestRefused, Tick, vars
<1>2. \A w \in Workers : hand'[w] # Nobody => hand'[w] = hand[w]
  BY DEF BeginPass, NothingDue, PassQuota, NoCollision, Crash, RequestPassesQuota,
         RequestRefused, Tick, vars, Finish
<1>3. QED
  BY <1>1, <1>2, NothingSeen

LEMMA UserFaithful ==
  ASSUME PromiseInv, Cancellable = {}, UserStep PROVE Faithful
<1>1. PICK i \in Items, j \in Items :
         Enqueue(i) \/ CancelRead(i) \/ CancelWrite(i) \/ Retry(i, j)
  BY DEF UserStep
<1>2. ~CancelRead(i) /\ ~CancelWrite(i)
  BY DEF CancelRead, CancelWrite, PromiseInv, NoCancel
<1>3. PICK k \in Items : /\ items[k].status = "none"
                         /\ \E due : items' = [items EXCEPT ![k] = NewItem(due)]
  BY <1>1, <1>2 DEF Enqueue, Retry
<1>4. UNCHANGED <<runs, hand, cancelling>>
  BY <1>1, <1>2 DEF Enqueue, Retry
<1>5. /\ items'[k].status = "queued" /\ items'[k].runId = 0
      /\ \A l \in Items : l # k => items'[l] = items[l]
  BY <1>3, QueueTypes DEF NewItem, NoItem, PromiseInv
<1>6. items[k].runId = 0 /\ 0 \notin PendingRuns
  BY <1>3, QueueTypes DEF PromiseInv, QueueInv, CallInv, AbsentIsNew, PendingRuns
<1>7. \A w \in Workers : hand'[w] # Nobody => hand'[w] # k /\ hand'[w] = hand[w]
  BY <1>3, <1>4 DEF PromiseInv, NoCancel
<1>8. Promised(k)
  <2>1. Stage(k) = "absent" /\ Stage(k)' = "open"
    BY <1>3, <1>5, StageIs, StageWillBe
  <2>2. LatestCall(k)' = LatestCall(k)
    BY <1>4, <1>5, <1>6, CallsUntouched
  <2>3. QED
    BY <2>1, <2>2, Moves
<1>9. QED
  BY <1>4, <1>5, <1>6, <1>7, <1>8, OneRowFaithful

LEMMA ReleaseFaithful ==
  ASSUME PromiseInv, NEW w \in Workers, ReleaseLeases(w) PROVE Faithful
<1>1. UNCHANGED <<runs, hand, cancelling>>
  BY DEF ReleaseLeases
<1>2. ASSUME NEW i \in Items
      PROVE  /\ items'[i].runId = items[i].runId
             /\ ~Expired(i, passNow[w]) => items'[i] = items[i]
             /\ Expired(i, passNow[w]) => /\ items[i].status = "leased"
                                          /\ items[i].runId = 0
                                          /\ items'[i].status = "queued"
  <2>1. items[i] \in Item
    BY QueueTypes DEF PromiseInv
  <2>2. CASE Expired(i, passNow[w])
    <3>1. items'[i] = [items[i] EXCEPT !.status = "queued", !.leasedUntil = 0]
      BY <2>2 DEF ReleaseLeases
    <3>2. items'[i].status = "queued" /\ items'[i].runId = items[i].runId
      BY <2>1, <3>1 DEF Item
    <3>3. QED
      BY <2>2, <3>2 DEF Expired
  <2>3. CASE ~Expired(i, passNow[w])
    BY <2>3 DEF ReleaseLeases
  <2>4. QED
    BY <2>2, <2>3
<1>3. \A v \in Workers : hand[v] # Nobody => hand[v] \in Items /\ ~Expired(hand[v], passNow[w])
  BY LeaseOutlastsPass, QueueTypes DEF PromiseInv, QueueInv
<1>4. 0 \notin PendingRuns /\ PendingRuns' = PendingRuns
  BY <1>1, QueueTypes DEF PromiseInv, PendingRuns, RunIds
<1>5. NoCancel'
  <2>1. \A i \in Items : items'[i].status # "cancelled"
    BY <1>2 DEF PromiseInv, NoCancel
  <2>2. \A v \in Workers : hand'[v] # Nobody => items'[hand'[v]].status = "leased"
    BY <1>1, <1>2, <1>3 DEF PromiseInv, NoCancel
  <2>3. \A i \in Items : items'[i].runId \in PendingRuns' => items'[i].status = "leased"
    BY <1>2, <1>4 DEF PromiseInv, NoCancel
  <2>4. QED
    BY <1>1, <2>1, <2>2, <2>3 DEF PromiseInv, NoCancel
<1>6. ASSUME NEW i \in Items PROVE Promised(i)
  <2>1. LatestCall(i)' = LatestCall(i)
    BY <1>1, <1>2, CallsUntouched
  <2>2. Stage(i)' = Stage(i)
    BY <1>2, StageIs, StageWillBe DEF Stage
  <2>3. QED
    BY <2>1, <2>2, Moves
<1>7. QED
  BY <1>5, <1>6 DEF Faithful

LEMMA ClaimFaithful ==
  ASSUME PromiseInv, NEW w \in Workers, Claim(w) PROVE Faithful
<1>0. /\ items \in [Items -> Item] /\ hand \in [Workers -> Items \cup {Nobody}]
  BY QueueTypes DEF PromiseInv
<1>1. PICK i \in Due(passNow[w]) :
        /\ items' = [items EXCEPT ![i] =
                        [@ EXCEPT !.status = "leased",
                                  !.leasedUntil = passNow[w] + Lease,
                                  !.attempts = Lesser(items[i].attempts + 1, Len(Backoff))]]
        /\ hand' = [hand EXCEPT ![w] = i]
  BY DEF Claim
<1>2. i \in Items /\ items[i].status \in Claimable
  BY DEF Due
<1>3. /\ items'[i].status = "leased" /\ items'[i].runId = items[i].runId
      /\ \A j \in Items : j # i => items'[j] = items[j]
  BY <1>0, <1>1, <1>2 DEF Item
<1>4. UNCHANGED <<runs, cancelling>>
  BY DEF Claim
<1>5. Promised(i)
  <2>1. LatestCall(i)' = LatestCall(i)
    BY <1>2, <1>3, <1>4, CallsUntouched
  <2>2. Stage(i)' = Stage(i)
    BY <1>2, <1>3, StageIs, StageWillBe DEF Claimable
  <2>3. QED
    BY <2>1, <2>2, Moves
<1>6. \A v \in Workers : v # w => hand'[v] = hand[v]
  BY <1>0, <1>1
<1>7. hand'[w] = i
  BY <1>0, <1>1
<1>8. QED
  BY <1>2, <1>3, <1>4, <1>5, <1>6, <1>7, OneRowFaithful

\* A pass ends: the item is open again, or settled as its latest call demands.
LEMMA PassEndFaithful ==
  ASSUME PromiseInv, NEW w \in Workers,
         \/ SkipStale(w) \/ SkipInactive(w) \/ SkipOverQuota(w) \/ DeferCollision(w)
         \/ SkipDryRun(w) \/ MarkDone(w) \/ DeferBilling(w) \/ Requeue(w) \/ MarkError(w)
  PROVE  Faithful
<1>0. items \in [Items -> Item]
  BY QueueTypes DEF PromiseInv
<1>1. /\ pc[w] \in {"admit", "pair", "answered"} \cup Failures
      /\ Finish(w) /\ UNCHANGED <<runs, cancelling>>
  BY DEF SkipStale, SkipInactive, SkipOverQuota, DeferCollision, SkipDryRun, MarkDone,
         DeferBilling, Requeue, MarkError, Settle, Postpone, Failures
<1>2. /\ hand[w] \in Items /\ items[hand[w]].status = "leased"
      /\ items[hand[w]].runId \notin PendingRuns
      /\ pc[w] # "answered" => LatestCall(hand[w]) \in {"none", "failed"}
      /\ pc[w] = "answered" => LatestCall(hand[w]) = "answered"
  BY <1>1, HandCall DEF ItemPcs, Failures
<1>3. PICK i \in Items : i = hand[w]
  BY <1>2
<1>4. items[i] \in Item
  BY <1>0
<1>5. /\ \A j \in Items : j # i => items'[j] = items[j]
      /\ items'[i].runId = items[i].runId
      /\ \/ items'[i].status \in {"queued", "deferred"}
         \/ items'[i].status \in {"skipped", "error"} /\ pc[w] # "answered"
         \/ items'[i].status = "done" /\ pc[w] = "answered"
  <2>1. ASSUME NEW status, Settle(w, status)
        PROVE  /\ items'[i].runId = items[i].runId /\ items'[i].status = status
               /\ \A j \in Items : j # i => items'[j] = items[j]
    BY <1>0, <1>3, <1>4, <2>1, RowFields DEF Settle
  <2>2. ASSUME NEW status, NEW minutes, NEW tries, Postpone(w, status, minutes, tries)
        PROVE  /\ items'[i].runId = items[i].runId /\ items'[i].status = status
               /\ \A j \in Items : j # i => items'[j] = items[j]
    BY <1>0, <1>3, <1>4, <2>2, RowFields DEF Postpone
  <2>3. CASE DeferCollision(w) \/ DeferBilling(w) \/ Requeue(w)
    BY <2>2, <2>3 DEF DeferCollision, DeferBilling, Requeue
  <2>4. CASE MarkError(w)
    BY <1>0, <1>3, <1>4, <2>4, RowFields DEF MarkError
  <2>5. CASE SkipStale(w) \/ SkipInactive(w) \/ SkipOverQuota(w) \/ SkipDryRun(w)
    BY <2>1, <2>5 DEF SkipStale, SkipInactive, SkipOverQuota, SkipDryRun
  <2>6. CASE MarkDone(w)
    BY <2>1, <2>6 DEF MarkDone
  <2>7. QED
    BY <2>3, <2>4, <2>5, <2>6
<1>6. Promised(i)
  <2>1. LatestCall(i)' = LatestCall(i)
    BY <1>1, <1>5, CallsUntouched
  <2>2. Stage(i) = "open"
    BY <1>2, <1>3, StageIs
  <2>3. CASE items'[i].status \in {"queued", "deferred"}
    BY <2>1, <2>2, <2>3, StageWillBe, Moves
  <2>4. CASE items'[i].status \in {"skipped", "error"} /\ pc[w] # "answered"
    BY <1>2, <1>3, <2>1, <2>2, <2>4, StageWillBe, Moves
  <2>5. CASE items'[i].status = "done" /\ pc[w] = "answered"
    BY <1>2, <1>3, <2>1, <2>2, <2>5, StageWillBe, Moves
  <2>6. QED
    BY <1>5, <2>3, <2>4, <2>5
<1>7. \A v \in Workers : hand'[v] # Nobody => hand'[v] = hand[v] /\ hand'[v] # i
  <2>1. \A v \in Workers : v # w => hand[v] # hand[w]
    BY <1>1, HandsDiffer DEF PromiseInv, ItemPcs, Failures
  <2>2. QED
    BY <1>1, <1>3, <2>1 DEF Finish
<1>8. QED
  BY <1>1, <1>2, <1>3, <1>5, <1>6, <1>7, OneRowFaithful
\* The link is the moment of the call.
LEMMA LinkFaithful ==
  ASSUME PromiseInv, NEW w \in Workers, LinkRun(w) PROVE Faithful
<1>0. items \in [Items -> Item] /\ QueueInv
  BY QueueTypes DEF PromiseInv
<1>1. /\ UNCHANGED <<runs, hand, cancelling>> /\ pc[w] = "link"
      /\ items' = [items EXCEPT ![hand[w]].runId = run[w]]
  BY DEF LinkRun
<1>2. PICK i \in Items : i = hand[w]
  BY <1>1, HandCall DEF ItemPcs
<1>3. items[i].status = "leased" /\ LatestCall(i) \in {"none", "failed"}
  BY <1>1, <1>2, HandCall DEF ItemPcs
<1>4. items[i] \in Item
  BY <1>0
<1>5. /\ items'[i].runId = run[w] /\ items'[i].status = "leased"
      /\ \A j \in Items : j # i => items'[j] = items[j]
  BY <1>0, <1>1, <1>2, <1>3, <1>4 DEF Item
<1>6. PendingRuns' = PendingRuns /\ run[w] \in PendingRuns
  BY <1>0, <1>1 DEF PendingRuns, RunIds, QueueInv, CallInv, CallOK, Calling, RunsOf
<1>7. NoCancel'
  <2>1. \A v \in Workers : hand[v] # Nobody => hand[v] \in Items
    BY QueueTypes DEF PromiseInv
  <2>2. \A v \in Workers : hand[v] # Nobody => items'[hand[v]].status = "leased"
    BY <1>5, <2>1 DEF PromiseInv, NoCancel
  <2>3. \A j \in Items : items'[j].status # "cancelled"
    BY <1>5 DEF PromiseInv, NoCancel
  <2>4. \A j \in Items : items'[j].runId \in PendingRuns => items'[j].status = "leased"
    BY <1>5 DEF PromiseInv, NoCancel
  <2>5. QED
    BY <1>1, <1>6, <2>2, <2>3, <2>4 DEF PromiseInv, NoCancel
<1>8. Promised(i)
  <2>1. LatestCall(i)' = "pending"
    BY <1>5, <1>6, LatestCallWillBe
  <2>2. QED
    BY <1>3, <1>5, <2>1, StageIs, StageWillBe, Moves
<1>9. ASSUME NEW j \in Items, j # i PROVE Promised(j)
  <2>1. LatestCall(j)' = LatestCall(j)
    BY <1>1, <1>5, <1>9, CallsUntouched
  <2>2. Stage(j)' = Stage(j)
    BY <1>5, <1>9 DEF Stage
  <2>3. QED
    BY <2>1, <2>2, Moves
<1>10. QED
  BY <1>7, <1>8, <1>9 DEF Faithful

\* A run nobody links to is not seen.
LEMMA InsertFaithful ==
  ASSUME PromiseInv, NEW p \in Procs, InsertRun(p) PROVE Faithful
<1>0. QueueInv
  BY DEF PromiseInv
<1>1. UNCHANGED <<items, hand, cancelling>>
  BY DEF InsertRun
<1>2. PICK n, new : /\ n = Len(runs) + 1 /\ runs' = Append(runs, new)
                    /\ new.status = "pending"
  BY DEF InsertRun
<1>3. /\ RunIds' = RunIds \cup {n} /\ n \notin RunIds /\ n # 0
      /\ \A r \in RunIds : runs'[r] = runs[r]
      /\ runs'[n] = new
  BY <1>0, <1>2, QueueTypes DEF RunIds
<1>4. PendingRuns' = PendingRuns \cup {n}
  BY <1>2, <1>3 DEF PendingRuns
<1>5. \A i \in Items : items[i].runId # n
  BY <1>0, <1>3 DEF QueueInv, CallInv, LinksAreTrue, RunsOf
<1>6. NoCancel'
  BY <1>1, <1>4, <1>5 DEF PromiseInv, NoCancel
<1>7. ASSUME NEW i \in Items PROVE Promised(i)
  <2>1. \A s \in {"success", "unknown", "error"} : Had(i, s)' <=> Had(i, s)
    BY <1>2, <1>3 DEF Had, RunsOf
  <2>2. items'[i].runId \in PendingRuns' <=> items[i].runId \in PendingRuns
    BY <1>1, <1>4, <1>5
  <2>3. LatestCall(i)' = LatestCall(i) /\ Stage(i)' = Stage(i)
    BY <1>1, <2>1, <2>2, SameCall DEF Stage
  <2>4. QED
    BY <2>3, Moves
<1>8. QED
  BY <1>6, <1>7 DEF Faithful

\* The end of a run is seen by the item it belongs to, and by no other.
LEMMA EndRunUnseen ==
  ASSUME PromiseInv, NEW p \in Procs, NEW status, EndRun(p, status), items' = items,
         NEW j, run[p] \in RunsOf(j), NEW i \in Items, i # j
  PROVE  Promised(i)
<1>0. QueueInv /\ run[p] \in RunIds
  BY DEF PromiseInv, RunsOf
<1>1. /\ RunIds' = RunIds /\ RunsOf(i)' = RunsOf(i)
      /\ \A r \in RunIds : r # run[p] => runs'[r] = runs[r]
  BY <1>0, EndRunFields
<1>2. \A r \in RunsOf(i) : r # run[p] /\ r \in RunIds /\ runs'[r] = runs[r]
  BY <1>1 DEF RunsOf
<1>3. items[i].runId = 0 \/ items[i].runId \in RunsOf(i)
  BY <1>0 DEF QueueInv, CallInv, LinksAreTrue
<1>4. items'[i].runId \in PendingRuns' <=> items[i].runId \in PendingRuns
  BY <1>0, <1>1, <1>2, <1>3, QueueTypes DEF PendingRuns
<1>5. \A s : Had(i, s)' <=> Had(i, s)
  BY <1>1, <1>2 DEF Had
<1>6. LatestCall(i)' = LatestCall(i) /\ Stage(i)' = Stage(i)
  BY <1>4, <1>5, SameCall DEF Stage
<1>7. QED
  BY <1>6, Moves

\* A run that ends leaves rows and workers together.
LEMMA EndRunNoCancel ==
  ASSUME PromiseInv, NEW p \in Procs, NEW status, status # "pending", EndRun(p, status),
         run[p] \in RunIds, UNCHANGED <<items, cancelling>>,
         \A w \in Workers : hand'[w] # Nobody => hand'[w] = hand[w]
  PROVE  NoCancel' /\ PendingRuns' = PendingRuns \ {run[p]}
<1>1. PendingRuns' = PendingRuns \ {run[p]}
  BY EndRunFields DEF PendingRuns, PromiseInv
<1>2. QED
  BY <1>1 DEF PromiseInv, NoCancel

LEMMA AnswerFaithful ==
  ASSUME PromiseInv, NEW w \in Workers, ProviderAnswers(w) \/ ProviderFails(w)
  PROVE  Faithful
<1>0. QueueInv
  BY DEF PromiseInv
<1>1. PICK status \in {"success", "error"} : EndRun(w, status)
  BY DEF ProviderAnswers, ProviderFails
<1>2. UNCHANGED <<items, hand, cancelling>> /\ pc[w] = "call"
  BY DEF ProviderAnswers, ProviderFails
<1>3. PICK i \in Items : i = hand[w]
  BY <1>2, HandCall DEF ItemPcs
<1>4. items[i].status = "leased" /\ LatestCall(i) = "pending"
  BY <1>2, <1>3, HandCall DEF ItemPcs
<1>5. /\ items[i].runId = run[w] /\ run[w] \in RunsOf(i) /\ run[w] \in RunIds
      /\ runs[run[w]].status = "pending"
  BY <1>0, <1>2, <1>3 DEF QueueInv, CallInv, CallOK, Calling, RunsOf
<1>6. NoCancel' /\ PendingRuns' = PendingRuns \ {run[w]}
  BY <1>1, <1>2, <1>5, EndRunNoCancel
<1>7. Promised(i)
  <2>1. /\ RunsOf(i)' = RunsOf(i) /\ runs'[run[w]].status = status
        /\ \A r \in RunIds : r # run[w] => runs'[r] = runs[r]
    BY <1>0, <1>1, <1>5, EndRunFields
  <2>2. \A r \in RunsOf(i) : r # run[w] => runs'[r].status \in {"error", "unlinked"}
    <3>1. \A r \in RunsOf(i) : r # run[w] => Failed(r)
      BY <1>0, <1>5, OthersFailed DEF Failed
    <3>2. QED
      BY <2>1, <3>1 DEF Failed, RunsOf
  <2>3. items'[i].runId \notin PendingRuns'
    BY <1>2, <1>5, <1>6
  <2>4. CASE status = "success"
    <3>1. Had(i, "success")'
      BY <1>5, <2>1, <2>4 DEF Had
    <3>2. LatestCall(i)' = "answered"
      BY <2>3, <3>1, LatestCallWillBe
    <3>3. QED
      BY <1>2, <1>4, <3>2, StageIs, StageWillBe, Moves
  <2>5. CASE status = "error"
    <3>1. Had(i, "error")' /\ ~Had(i, "success")' /\ ~Had(i, "unknown")'
      BY <1>5, <2>1, <2>2, <2>5 DEF Had
    <3>2. LatestCall(i)' = "failed"
      BY <2>3, <3>1, LatestCallWillBe
    <3>3. QED
      BY <1>2, <1>4, <3>2, StageIs, StageWillBe, Moves
  <2>6. QED
    BY <2>4, <2>5
<1>8. ASSUME NEW j \in Items, j # i PROVE Promised(j)
  BY <1>1, <1>2, <1>5, <1>8, EndRunUnseen
<1>9. QED
  BY <1>6, <1>7, <1>8 DEF Faithful

LEMMA RequestEndFaithful ==
  ASSUME PromiseInv, NEW q \in Requests, RequestEnds(q) PROVE Faithful
<1>1. PICK status \in {"success", "error"} : EndRun(q, status)
  BY DEF RequestEnds
<1>2. /\ UNCHANGED <<items, cancelling>> /\ pc[q] = "call"
      /\ \A w \in Workers : hand'[w] # Nobody => hand'[w] = hand[w]
  BY DEF RequestEnds, Finish
<1>3. run[q] \in RunsOf(Manual) /\ run[q] \in RunIds
  BY <1>2 DEF PromiseInv, QueueInv, CallInv, ManualOK, RunsOf
<1>4. NoCancel'
  BY <1>1, <1>2, <1>3, EndRunNoCancel
<1>5. ASSUME NEW i \in Items PROVE Promised(i)
  BY <1>1, <1>2, <1>3, NamesAreDistinct, EndRunUnseen
<1>6. QED
  BY <1>4, <1>5 DEF Faithful
\* The sweep gives up the calls whose worker is gone, and sees no other.
LEMMA SweepFaithful ==
  ASSUME PromiseInv, NEW now \in Nat, now <= clock, ReconcileAt(now),
         UNCHANGED <<hand, cancelling>>
  PROVE  Faithful
<1>0. QueueInv
  BY DEF PromiseInv
<1>1. \A v \in Workers : hand[v] # Nobody =>
         hand[v] \in Items /\ items[hand[v]].runId \notin StaleRuns(now)
  <2>1. SUFFICES ASSUME NEW v \in Workers, hand[v] # Nobody
                 PROVE  hand[v] \in Items /\ items[hand[v]].runId \notin StaleRuns(now)
    OBVIOUS
  <2>2. hand[v] \in Items /\ pc[v] \in ItemPcs
    BY <1>0, <2>1, QueueTypes
  <2>3. CASE pc[v] = "call"
    BY <1>0, <2>2, <2>3, LiveRunsAreFresh DEF QueueInv, CallInv, CallOK
  <2>4. CASE pc[v] # "call"
    <3>1. items[hand[v]].runId \notin PendingRuns
      BY <2>2, <2>4, HandCall DEF ItemPcs
    <3>2. QED
      BY <2>2, <3>1 DEF PendingRuns, StaleRuns
  <2>5. QED
    BY <2>3, <2>4
<1>2. PendingRuns' = PendingRuns \ StaleRuns(now)
  BY <1>0, SweepFields DEF PendingRuns, StaleRuns
<1>3. NoCancel'
  <2>1. \A i \in Items : items'[i].status # "cancelled"
    BY <1>0, SweepFields DEF PromiseInv, NoCancel
  <2>2. \A v \in Workers : hand[v] # Nobody => items'[hand[v]].status = "leased"
    BY <1>0, <1>1, SweepFields DEF PromiseInv, NoCancel
  <2>3. \A i \in Items : items'[i].runId \in PendingRuns' => items'[i].status = "leased"
    BY <1>0, <1>2, SweepFields DEF PromiseInv, NoCancel
  <2>4. QED
    BY <2>1, <2>2, <2>3 DEF PromiseInv, NoCancel
<1>4. ASSUME NEW i \in Items, items[i].runId \in StaleRuns(now) PROVE Promised(i)
  <2>1. /\ items[i].runId \in PendingRuns /\ items[i].runId # 0
        /\ runs[items[i].runId].status = "pending"
    BY <1>0, <1>4, QueueTypes DEF PendingRuns, StaleRuns
  <2>2. Stage(i) = "open" /\ LatestCall(i) = "pending" /\ items[i].status = "leased"
    BY <2>1, StageIs, LatestCallIs DEF PromiseInv, NoCancel
  <2>3. items[i].runId \in RunsOf(i)
    BY <1>0, <2>1 DEF QueueInv, CallInv, LinksAreTrue
  <2>4. items'[i].status = "error" /\ items'[i].runId = items[i].runId
    <3>1. items[i] \in Item
      BY <1>0, QueueTypes
    <3>2. items'[i] = [items[i] EXCEPT !.status = "error", !.leasedUntil = 0]
      BY <1>4, <2>2 DEF ReconcileAt
    <3>3. QED
      BY <3>1, <3>2 DEF Item
  <2>5. runs'[items[i].runId].status = "unknown" /\ RunsOf(i)' = RunsOf(i)
    BY <1>0, <1>4, <2>3, SweepFields DEF RunsOf
  <2>6. ~Had(i, "success")'
    <3>1. \A r \in RunsOf(i) : r # items[i].runId => Failed(r) /\ r \in RunIds
      BY <1>0, <2>1, <2>3, OthersFailed DEF Failed, RunsOf
    <3>2. \A r \in RunsOf(i) : r # items[i].runId => runs'[r].status # "success"
      BY <1>0, <3>1, SweepFields DEF Failed, StaleRuns
    <3>3. QED
      BY <2>5, <3>2 DEF Had
  <2>7. LatestCall(i)' = "unknown"
    <3>1. Had(i, "unknown")'
      BY <2>3, <2>5 DEF Had
    <3>2. items'[i].runId \notin PendingRuns'
      BY <1>2, <1>4, <2>4
    <3>3. QED
      BY <2>6, <3>1, <3>2, LatestCallWillBe
  <2>8. QED
    BY <2>2, <2>4, <2>7, StageWillBe, Moves
<1>5. ASSUME NEW i \in Items, items[i].runId \notin StaleRuns(now) PROVE Promised(i)
  <2>1. items'[i] = items[i] /\ RunsOf(i)' = RunsOf(i)
    BY <1>0, <1>5, SweepFields
  <2>2. \A r \in RunsOf(i) : \A j \in Items : r \in StaleRuns(now) => items[j].runId # r
    <3>1. SUFFICES ASSUME NEW r \in RunsOf(i), NEW j \in Items, r \in StaleRuns(now),
                          items[j].runId = r
                   PROVE  FALSE
      OBVIOUS
    <3>2. r # 0 /\ r \in RunIds
      BY <1>0, QueueTypes DEF RunsOf
    <3>3. r \in RunsOf(j)
      BY <1>0, <3>1, <3>2 DEF QueueInv, CallInv, LinksAreTrue
    <3>4. i = j
      BY <3>3 DEF RunsOf
    <3>5. QED
      BY <1>5, <3>1, <3>4
  <2>3. \A r \in RunsOf(i) : \/ runs'[r] = runs[r]
                             \/ runs[r].status = "pending" /\ runs'[r].status = "unlinked"
    BY <1>0, <2>2, SweepFields DEF RunsOf, StaleRuns
  <2>4. \A s \in {"success", "unknown", "error"} : Had(i, s)' <=> Had(i, s)
    BY <2>1, <2>3 DEF Had
  <2>5. items'[i].runId \in PendingRuns' <=> items[i].runId \in PendingRuns
    BY <1>2, <1>5, <2>1
  <2>6. LatestCall(i)' = LatestCall(i) /\ Stage(i)' = Stage(i)
    BY <2>1, <2>4, <2>5, SameCall DEF Stage
  <2>7. QED
    BY <2>6, Moves
<1>6. QED
  BY <1>3, <1>4, <1>5 DEF Faithful

\* Every step keeps the promise.
LEMMA FaithfulStep ==
  ASSUME Cancellable = {}, PromiseInv, [Next]_vars PROVE Faithful
<1>1. ASSUME NEW w \in Workers, Reconcile(w) \/ Restart(w) PROVE Faithful
  <2>1. PICK now \in Nat : now <= clock /\ ReconcileAt(now)
    <3>1. passNow[w] \in Nat /\ passNow[w] <= clock /\ clock \in Nat
      BY DEF PromiseInv, QueueInv, LeaseInv, TypeInv, TypeOK, PassesAreTimely
    <3>2. QED
      BY <1>1, <3>1 DEF Reconcile, Restart
  <2>2. UNCHANGED <<hand, cancelling>>
    BY <1>1 DEF Reconcile, Restart
  <2>3. QED
    BY <2>1, <2>2, SweepFaithful
<1>2. ASSUME NEW w \in Workers, WorkerStep(w) PROVE Faithful
  BY <1>1, <1>2, UnseenSteps, ReleaseFaithful, ClaimFaithful, PassEndFaithful,
     InsertFaithful, LinkFaithful, AnswerFaithful DEF WorkerStep
<1>3. ASSUME NEW q \in Requests, RequestStep(q) PROVE Faithful
  BY <1>3, UnseenSteps, InsertFaithful, RequestEndFaithful DEF RequestStep
<1>4. CASE Tick \/ UNCHANGED vars \/ \E p \in Procs : Crash(p)
  BY <1>4, UnseenSteps
<1>5. QED
  BY <1>1, <1>2, <1>3, <1>4, UserFaithful DEF Next

LEMMA PromiseStep ==
  ASSUME Cancellable = {}
  PROVE  PromiseInv /\ [Next]_vars =>
           /\ PromiseInv'
           /\ [Occurrences!Next]_([i \in Items |-> [stage |-> Stage(i), call |-> LatestCall(i)]])
<1> SUFFICES ASSUME PromiseInv, [Next]_vars
             PROVE  PromiseInv' /\ Occurrences!Next
  OBVIOUS
<1>1. Faithful /\ QueueInv'
  BY FaithfulStep, QueueStep DEF PromiseInv
<1>2. PromiseInv'
  BY <1>1 DEF Faithful, PromiseInv
<1>3. ASSUME NEW i \in Items PROVE Seen(i)' \in Occurrences!Occ
  <2>1. Stage(i)' \in {"absent", "open", "done", "dropped"}
    BY DEF Stage
  <2>2. LatestCall(i)' \in {"none", "pending", "failed", "answered", "unknown"}
    BY LatestCallWillBe
  <2>3. QED
    BY <2>1, <2>2 DEF Seen, Occurrences!Occ
<1>4. \A i \in Items : Promised(i)
  BY <1>1 DEF Faithful
<1>5. Occurrences!Next
  BY <1>3, <1>4 DEF Seen, Promised, Occurrences!Next
<1>6. QED
  BY <1>2, <1>5

LEMMA InitPromise == Init => PromiseInv /\ Occurrences!Init
<1> SUFFICES ASSUME Init PROVE PromiseInv /\ Occurrences!Init
  OBVIOUS
<1>1. NoCancel
  BY DEF Init, NoCancel, NoItem, PendingRuns, RunIds
<1>2. \A i \in Items : Stage(i) = "absent"
  BY StageIs DEF Init, NoItem
<1>3. \A i \in Items : LatestCall(i) = "none"
  <2>1. RunIds = {}
    BY DEF Init, RunIds
  <2>2. QED
    BY <2>1, LatestCallIs DEF PendingRuns, Had, RunsOf
<1>4. Occurrences!Init
  BY <1>2, <1>3 DEF Occurrences!Init, Occurrences!Unplanned
<1>5. QED
  BY <1>1, <1>4, InitQueueInv DEF PromiseInv

\* As long as nobody cancels an item, workers, leases, links, sweeps, retries and
\* kills implement Occurrence, for every number of workers and items: no call after
\* an answer or an unknown outcome, no answer reported as a failure, and what is
\* settled stays settled (worker.py, queue.py, decision 13).
THEOREM QueueKeepsItsPromise ==
  ASSUME Cancellable = {} PROVE Spec => ImplementsOccurrence
<1>1. PromiseInv /\ [Next]_vars =>
           /\ PromiseInv'
           /\ [Occurrences!Next]_([i \in Items |-> [stage |-> Stage(i), call |-> LatestCall(i)]])
  BY PromiseStep
<1>2. QED
  BY <1>1, InitPromise, PTL DEF Spec, ImplementsOccurrence, Occurrences!Spec
=============================================================================

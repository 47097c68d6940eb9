----------------------- MODULE VerificationQueue_proofs -----------------------
(***************************************************************************)
(* What holds of the verification queue for every number of workers,       *)
(* clickers, responses and citations, every budget and every fault, as     *)
(* long as no two workers release expired leases at the same time.         *)
(***************************************************************************)
EXTENDS VerificationQueue, TLAPS, FiniteSetTheorems

JobPhases == {"capture", "quote", "judge", "reply", "finish"}

Existing == {j \in Jobs : jobs[j].status # "none"}

\* The job a worker has in hand.
InHand(w) == work[w].job # 0

JobsInOrder ==
  \A i, j \in Jobs : i < j /\ jobs[j].status # "none" => jobs[i].status # "none"

\* A worker has had its job for no longer than the budget and one overrun, and its
\* lease was taken when it began.
Lasting(w) ==
  InHand(w) =>
    /\ JobOf(w).attempts >= 1 /\ JobOf(w).leasedUntil = work[w].start + Lease
    /\ work[w].last <= clock /\ clock <= work[w].start + Budget + Overrun
    /\ work[w].phase = "reply" => InBudget(w)
    /\ work[w].waits => JobOf(w).attempts < MaxAttempts

\* What a worker has read as expired is leased to nobody until it writes it back.
StaleIsNobodys ==
  /\ \A w \in Workers : \A j \in work[w].stale :
       jobs[j].status = "leased" /\ \A v \in Workers : work[v].job # j
  /\ \A v, w \in Workers : work[v].stale # {} /\ work[w].stale # {} => v = w

IdleIsClean ==
  \A w \in Workers : /\ work[w].phase = "idle" => work[w] = Idle
                     /\ work[w].stale # {} => work[w].phase = "release"

HoldInv ==
  /\ TypeOK /\ JobsInOrder /\ JobHeldByOne
  /\ \A w \in Workers : Lasting(w)
  /\ StaleIsNobodys /\ IdleIsClean

-----------------------------------------------------------------------------
(* Types *)

LEMMA Constants ==
  /\ Lease \in Nat /\ CaptureBudget \in Nat /\ Budget \in Nat /\ Overrun \in Nat
  /\ MaxJobs \in Nat /\ MaxArrival \in Nat /\ MaxClock \in Nat /\ MaxFaults \in Nat
  /\ MaxClock >= 1
  /\ MaxAttempts \in Nat /\ MaxAttempts >= 1
  /\ \A n \in 1..MaxAttempts : Backoff[n] \in Nat
  /\ CaptureBudget <= Budget /\ Budget + Overrun <= Lease
<1>1. Backoff \in [1..MaxAttempts -> Nat] /\ MaxAttempts \in Nat
  BY BoundsAreNaturals DEF MaxAttempts
<1>2. MaxAttempts # 0
  BY BoundsAreNaturals DEF MaxAttempts
<1>3. QED
  BY <1>1, <1>2, BoundsAreNaturals, JobsAreShort

LEMMA NoJobTyped == NoJob \in Job /\ NoJob.status = "none" /\ NoJob.attempts = 0
<1>1. (CHOOSE r \in Responses : TRUE) \in Responses
  BY ResponsesAreKnown
<1>2. QED
  BY <1>1 DEF NoJob, Job, Ended, Active

LEMMA IdleTyped == Idle \in Work /\ [Idle EXCEPT !.phase = "down"] \in Work
<1>1. Idle \in Work
  BY Constants DEF Idle, Work, Phases
<1>2. "down" \in Phases
  BY DEF Phases
<1>3. QED
  BY <1>1, <1>2 DEF Work

LEMMA CitedTyped == \A r : Cited(r) \subseteq Citations
BY DEF Cited

\* A worker with a job.
LEMMA InHandTyped ==
  ASSUME TypeOK, NEW w \in Workers
  PROVE  /\ work[w] \in Work /\ work[w].job \in 0..MaxJobs
         /\ InHand(w) <=> work[w].phase \in JobPhases
         /\ InHand(w) => work[w].job \in Jobs /\ JobOf(w) \in Job /\ ResponseOf(w) \in Responses
<1>1. work[w] \in Work /\ work[w].job \in 0..MaxJobs
  BY DEF TypeOK, Work
<1>2. InHand(w) => work[w].job \in Jobs
  BY <1>1, Constants DEF InHand, Jobs
<1>3. \A j \in Jobs : jobs[j] \in Job /\ jobs[j].response \in Responses
  BY DEF TypeOK, Job
<1>4. QED
  BY <1>1, <1>2, <1>3 DEF TypeOK, InHand, JobPhases, JobOf, ResponseOf

\* What a worker remembers stays typed.
LEMMA WorkTypes ==
  ASSUME NEW x \in Work, NEW phase \in Phases, NEW todo \in SUBSET Citations, NEW t \in Nat,
         NEW cut \in BOOLEAN
  PROVE  /\ [x EXCEPT !.todo = todo, !.last = t] \in Work
         /\ [x EXCEPT !.phase = phase, !.todo = todo, !.cut = cut] \in Work
         /\ [x EXCEPT !.phase = phase, !.cut = cut, !.todo = todo] \in Work
         /\ [x EXCEPT !.todo = todo, !.waits = TRUE, !.last = t] \in Work
         /\ [x EXCEPT !.phase = phase] \in Work
         /\ [x EXCEPT !.phase = phase, !.todo = todo, !.last = t] \in Work
BY DEF Work

-----------------------------------------------------------------------------
(* A worker's steps within its job *)

\* What a step within a job may change of what its worker remembers.
Onward(w, x) ==
  /\ x \in Work /\ x.phase \in JobPhases
  /\ x.job = work[w].job /\ x.start = work[w].start /\ x.stale = work[w].stale
  /\ x.last \in {work[w].last, clock}
  /\ x.phase = "reply" => InBudget(w) /\ x.last = work[w].last
  /\ x.waits => work[w].waits \/ ~LastAttempt(w)

DataTyped ==
  /\ documents \in [Citations -> Results \cup {"none"}]
  /\ rows \in [Jobs -> [Citations -> Nat]]
  /\ newest \in [Citations -> 0..MaxJobs]
  /\ calls \in [Jobs -> [Citations -> Nat]]

WithinJob(w) ==
  /\ UNCHANGED <<clock, jobs, owing, clicked, faults>>
  /\ DataTyped'
  /\ InHand(w)
  /\ \E x : Onward(w, x) /\ work' = [work EXCEPT ![w] = x]

\* How a worker with a job is typed, unfolded.
LEMMA Unfolded ==
  ASSUME TypeOK, NEW w \in Workers
  PROVE  /\ work[w] \in Work /\ clock \in Nat /\ work[w].last \in Nat /\ work[w].start \in Nat
         /\ work \in [Workers -> Work] /\ work[w].todo \in SUBSET Citations
         /\ DataTyped
BY InHandTyped, Constants DEF TypeOK, Work, DataTyped

LEMMA CutTyped ==
  ASSUME NEW w
  PROVE  (~InCaptureBudget(w)) \in BOOLEAN
BY Zenon

LEMMA CaptureIsWithin ==
  ASSUME TypeOK, NEW w \in Workers,
         CaptureEnds(w) \/ \E c \in Citations : CaptureUrl(w, c)
  PROVE  WithinJob(w)
<1>1. InHand(w) /\ work[w].phase = "capture"
  BY InHandTyped DEF CaptureEnds, EndCapture, CaptureUrl, JobPhases
<1>2. ASSUME NEW c \in Citations, CaptureUrl(w, c) PROVE WithinJob(w)
  <2> DEFINE x == [work[w] EXCEPT !.todo = @ \ {c}, !.last = clock]
  <2>1. Onward(w, x)
    BY <1>1, Unfolded DEF Onward, Work, JobPhases
  <2>2. work' = [work EXCEPT ![w] = x]
    BY <1>2, Unfolded DEF CaptureUrl
  <2>3. documents' \in [Citations -> Results \cup {"none"}]
    BY <1>2, Unfolded, ResponsesAreKnown DEF CaptureUrl, DataTyped
  <2>4. QED
    BY <1>1, <1>2, <2>1, <2>2, <2>3, Unfolded DEF WithinJob, CaptureUrl, DataTyped
<1>3. CASE CaptureEnds(w)
  <2> DEFINE x == [work[w] EXCEPT !.phase = AfterCapture(w), !.todo = Cited(ResponseOf(w)),
                                  !.cut = ~InCaptureBudget(w)]
  <2>1. AfterCapture(w) \in {"quote", "judge", "finish"}
    BY DEF AfterCapture
  <2>2. x \in Work
    BY <2>1, CutTyped, CitedTyped, WorkTypes, Unfolded DEF Phases
  <2>3. Onward(w, x)
    BY <2>1, <2>2, Unfolded DEF Onward, Work, JobPhases
  <2>4. work' = [work EXCEPT ![w] = x]
    BY <1>3, Unfolded DEF CaptureEnds, EndCapture
  <2>5. QED
    BY <1>1, <1>3, <2>3, <2>4, Unfolded DEF WithinJob, CaptureEnds, EndCapture, DataTyped
<1>4. QED
  BY <1>2, <1>3
-----------------------------------------------------------------------------
(* The jobs that exist *)

\* Job identifiers are given in order: a job's number never exceeds how many there are.
LEMMA ExistingCounted ==
  ASSUME NEW S \in SUBSET Jobs
  PROVE  /\ IsFiniteSet(S) /\ Cardinality(S) \in 0..MaxJobs
         /\ \A j \in Jobs : 1..j \subseteq S => j <= Cardinality(S)
         /\ \A R \in SUBSET S : Cardinality(R) <= Cardinality(S)
<1>1. IsFiniteSet(Jobs) /\ Cardinality(Jobs) = MaxJobs
  <2>1. 1 \in Int /\ MaxJobs \in Int
    BY Constants
  <2>2. IsFiniteSet(1..MaxJobs) /\ Cardinality(1..MaxJobs) = IF 1 > MaxJobs THEN 0 ELSE MaxJobs - 1 + 1
    BY <2>1, FS_Interval
  <2>3. QED
    BY <2>2, Constants DEF Jobs
<1>2. IsFiniteSet(S) /\ Cardinality(S) <= Cardinality(Jobs)
  BY <1>1, FS_Subset
<1>3. Cardinality(S) \in Nat
  BY <1>2, FS_CardinalityType
<1>4. ASSUME NEW j \in Jobs, 1..j \subseteq S PROVE j <= Cardinality(S)
  <2>1. 1 \in Int /\ j \in Int /\ j >= 1
    BY Constants DEF Jobs
  <2>2. IsFiniteSet(1..j) /\ Cardinality(1..j) = IF 1 > j THEN 0 ELSE j - 1 + 1
    BY <2>1, FS_Interval
  <2>3. Cardinality(1..j) <= Cardinality(S)
    BY <1>2, <1>4, FS_Subset
  <2>4. QED
    BY <2>1, <2>2, <2>3
<1>5. ASSUME NEW R \in SUBSET S PROVE Cardinality(R) <= Cardinality(S)
  BY <1>2, FS_Subset
<1>6. QED
  BY <1>1, <1>2, <1>3, <1>4, <1>5, Constants

LEMMA WriteTyped ==
  ASSUME TypeOK, NEW w \in Workers, InHand(w), NEW c \in Citations, Write(w, c)
  PROVE  /\ rows' \in [Jobs -> [Citations -> Nat]] /\ newest' \in [Citations -> 0..MaxJobs]
         /\ \A j \in Jobs, d \in Citations :
              rows'[j][d] = IF j = work[w].job /\ d = c THEN rows[j][d] + 1 ELSE rows[j][d]
         /\ \A d \in Citations : newest'[d] = IF d = c THEN Cardinality(Existing) ELSE newest[d]
<1>1. work[w].job \in Jobs
  BY InHandTyped
<1>2. Cardinality({j \in Jobs : jobs[j].status # "none"}) \in 0..MaxJobs
  BY ExistingCounted
<1>3. rows \in [Jobs -> [Citations -> Nat]] /\ newest \in [Citations -> 0..MaxJobs]
  BY DEF TypeOK
<1>4. /\ rows' \in [Jobs -> [Citations -> Nat]]
      /\ \A j \in Jobs, d \in Citations :
           rows'[j][d] = IF j = work[w].job /\ d = c THEN rows[j][d] + 1 ELSE rows[j][d]
  BY <1>1, <1>3 DEF Write
<1>5. QED
  BY <1>2, <1>3, <1>4 DEF Write, Existing

-----------------------------------------------------------------------------
(* The checks within a job *)

\* A citation is dealt with: it is struck off, with or without a verdict.
LEMMA StruckOff ==
  ASSUME TypeOK, NEW w \in Workers, NEW c \in Citations, work[w].phase \in {"quote", "judge"},
         UNCHANGED <<clock, jobs, owing, clicked, faults>>, DataTyped',
         work' = [work EXCEPT ![w].todo = @ \ {c}, ![w].last = clock]
  PROVE  WithinJob(w)
<1> DEFINE x == [work[w] EXCEPT !.todo = @ \ {c}, !.last = clock]
<1>1. InHand(w)
  BY InHandTyped DEF JobPhases
<1>2. Onward(w, x)
  BY Unfolded DEF Onward, Work, JobPhases
<1>3. work' = [work EXCEPT ![w] = x]
  BY Unfolded
<1>4. QED
  BY <1>1, <1>2, <1>3 DEF WithinJob

LEMMA CheckIsWithin ==
  ASSUME TypeOK, NEW w \in Workers, NEW c \in Citations,
         \/ SkipCitation(w, c) \/ CheckQuote(w, c) \/ ArchiveUnavailable(w, c)
         \/ JudgeForFree(w, c) \/ JudgeCalls(w, c) \/ JudgeReplies(w, c)
  PROVE  WithinJob(w)
<1>0. InHand(w)
  BY InHandTyped DEF JobPhases, SkipCitation, CheckQuote, ArchiveUnavailable, JudgeForFree,
                     JudgeCalls, JudgeReplies
<1>1. CASE SkipCitation(w, c)
  BY <1>1, StruckOff, Unfolded DEF SkipCitation, DataTyped
<1>2. CASE CheckQuote(w, c)
  <2>1. DataTyped'
    BY <1>0, <1>2, WriteTyped, Unfolded DEF CheckQuote, DataTyped
  <2>2. QED
    BY <1>2, <2>1, StruckOff DEF CheckQuote
<1>3. CASE ArchiveUnavailable(w, c)
  <2> DEFINE x == [work[w] EXCEPT !.todo = @ \ {c}, !.waits = TRUE, !.last = clock]
  <2>1. work[w].phase = "quote" /\ ~LastAttempt(w)
    BY <1>3 DEF ArchiveUnavailable
  <2>2. x \in Work
    BY Unfolded DEF Work
  <2>3. Onward(w, x)
    BY <2>1, <2>2, Unfolded DEF Onward, Work, JobPhases
  <2>4. work' = [work EXCEPT ![w] = x]
    BY <1>3, Unfolded DEF ArchiveUnavailable
  <2>5. QED
    BY <1>0, <1>3, <2>3, <2>4, Unfolded DEF WithinJob, ArchiveUnavailable, DataTyped
<1>4. CASE JudgeForFree(w, c)
  <2>1. DataTyped'
    BY <1>0, <1>4, WriteTyped, Unfolded DEF JudgeForFree, DataTyped
  <2>2. QED
    BY <1>4, <2>1, StruckOff DEF JudgeForFree
<1>5. CASE JudgeCalls(w, c)
  <2> DEFINE x == [work[w] EXCEPT !.phase = "reply"]
  <2>1. x \in Work
    BY Unfolded, WorkTypes DEF Phases
  <2>2. Onward(w, x)
    BY <1>5, <2>1, Unfolded DEF Onward, Work, JobPhases, JudgeCalls
  <2>3. work' = [work EXCEPT ![w] = x]
    BY <1>5, Unfolded DEF JudgeCalls
  <2>4. work[w].job \in Jobs /\ calls \in [Jobs -> [Citations -> Nat]]
    BY <1>0, InHandTyped DEF TypeOK
  <2>5. calls' \in [Jobs -> [Citations -> Nat]]
    BY <1>5, <2>4 DEF JudgeCalls
  <2>6. QED
    BY <1>0, <1>5, <2>2, <2>3, <2>5, Unfolded DEF WithinJob, JudgeCalls, DataTyped
<1>6. CASE JudgeReplies(w, c)
  <2> DEFINE x == [work[w] EXCEPT !.phase = "judge", !.todo = @ \ {c}, !.last = clock]
  <2>1. x \in Work
    BY Unfolded, WorkTypes DEF Phases
  <2>2. Onward(w, x)
    BY <2>1, Unfolded DEF Onward, Work, JobPhases
  <2>3. work' = [work EXCEPT ![w] = x]
    BY <1>6, Unfolded DEF JudgeReplies
  <2>4. QED
    BY <1>0, <1>6, <2>2, <2>3, WriteTyped, Unfolded DEF WithinJob, JudgeReplies, DataTyped
<1>7. QED
  BY <1>1, <1>2, <1>3, <1>4, <1>5, <1>6

LEMMA EndIsWithin ==
  ASSUME TypeOK, NEW w \in Workers, ChecksEnd(w)
  PROVE  WithinJob(w)
<1> DEFINE cut == work[w].cut \/ work[w].todo # {}
           x == [work[w] EXCEPT !.phase = "finish", !.cut = cut, !.todo = {}]
<1>1. InHand(w)
  BY InHandTyped DEF JobPhases, ChecksEnd
<1>2. cut \in BOOLEAN
  BY Zenon
<1>3. x \in Work
  <2> HIDE DEF cut
  <2>1. "finish" \in Phases /\ {} \in SUBSET Citations
    BY DEF Phases
  <2>2. QED
    BY <1>2, <2>1, Unfolded, WorkTypes
<1>4. Onward(w, x)
  <2> HIDE DEF cut
  <2> QED
    BY <1>3, Unfolded DEF Onward, Work, JobPhases
<1>5. work' = [work EXCEPT ![w] = x]
  BY Unfolded DEF ChecksEnd
<1>6. QED
  BY <1>1, <1>4, <1>5, Unfolded DEF WithinJob, ChecksEnd, DataTyped
-----------------------------------------------------------------------------
(* The jobs in hand, kept by every step *)

LEMMA HoldUnfolded ==
  ASSUME HoldInv
  PROVE  /\ TypeOK /\ JobsInOrder /\ StaleIsNobodys /\ IdleIsClean
         /\ work \in [Workers -> Work] /\ jobs \in [Jobs -> Job] /\ clock \in Nat
         /\ \A w \in Workers :
              /\ work[w] \in Work /\ work[w].phase \in Phases
              /\ InHand(w) <=> work[w].phase \in JobPhases
              /\ InHand(w) => /\ work[w].job \in Jobs /\ jobs[work[w].job].status = "leased"
                              /\ JobOf(w) = jobs[work[w].job]
                              /\ \A v \in Workers : work[v].job = work[w].job => v = w
                              /\ Lasting(w)
<1>1. TypeOK /\ JobsInOrder /\ JobHeldByOne /\ (\A w \in Workers : Lasting(w))
      /\ StaleIsNobodys /\ IdleIsClean
  BY DEF HoldInv
<1>3. QED
  BY <1>1, InHandTyped, Constants DEF TypeOK, JobHeldByOne, InHand, JobOf, Work

LEMMA WithinKeeps ==
  ASSUME HoldInv, NEW w \in Workers, WithinJob(w)
  PROVE  HoldInv'
<1>1. PICK x : Onward(w, x) /\ work' = [work EXCEPT ![w] = x]
  BY DEF WithinJob
<1>2. UNCHANGED <<clock, jobs, owing, clicked, faults>> /\ DataTyped' /\ InHand(w)
  BY DEF WithinJob
<1>3. /\ work' \in [Workers -> Work] /\ work'[w] = x
      /\ \A v \in Workers : v # w => work'[v] = work[v]
  BY <1>1, HoldUnfolded DEF Onward
<1>4. /\ x.phase \in JobPhases /\ x.job = work[w].job /\ x.stale = work[w].stale
      /\ \A v \in Workers : work'[v].job = work[v].job /\ work'[v].stale = work[v].stale
  BY <1>1, <1>3 DEF Onward
<1>5. TypeOK'
  BY <1>2, <1>3, <1>4, HoldUnfolded DEF TypeOK, DataTyped, JobPhases, InHand
<1>6. JobsInOrder' /\ JobHeldByOne'
  BY <1>2, <1>4 DEF HoldInv, JobsInOrder, JobHeldByOne
<1>7. ASSUME NEW v \in Workers PROVE Lasting(v)'
  <2>1. CASE v # w
    BY <1>2, <1>3, <2>1 DEF HoldInv, Lasting, InHand, JobOf, InBudget
  <2>2. CASE v = w
    <3>1. Lasting(w)
      BY DEF HoldInv
    <3>2. work[w] \in Work /\ JobOf(w) \in Job /\ clock \in Nat
      BY <1>2, HoldUnfolded, InHandTyped
    <3>3. x.start = work[w].start /\ x.last \in {work[w].last, clock}
          /\ (x.phase = "reply" => InBudget(w) /\ x.last = work[w].last)
          /\ (x.waits => work[w].waits \/ ~LastAttempt(w))
      BY <1>1 DEF Onward
    <3>4. JobOf(w)' = JobOf(w)
      BY <1>2, <1>3, <1>4 DEF JobOf
    <3>5. x.waits => JobOf(w).attempts < MaxAttempts
      BY <1>2, <3>1, <3>2, <3>3, Constants DEF Lasting, LastAttempt, Job
    <3>6. QED
      BY <1>2, <1>3, <2>2, <3>1, <3>2, <3>3, <3>4, <3>5 DEF Lasting, InBudget, Work
  <2>3. QED
    BY <2>1, <2>2
<1>8. StaleIsNobodys'
  BY <1>2, <1>4, HoldUnfolded DEF StaleIsNobodys
<1>9. IdleIsClean'
  <2>1. work[w].stale = {}
    BY <1>2, HoldUnfolded DEF IdleIsClean, JobPhases
  <2>2. QED
    BY <1>3, <1>4, <2>1, HoldUnfolded DEF IdleIsClean, JobPhases
<1>10. QED
  BY <1>5, <1>6, <1>7, <1>8, <1>9 DEF HoldInv

\* What may be written to the row of a job that a worker leaves.
Ends(w, row) ==
  /\ row.status # "none"
  /\ row.attempts = JobOf(w).attempts /\ row.kind = JobOf(w).kind
  /\ row.response = JobOf(w).response
  /\ row.status = "done" => work[w].phase = "finish" /\ ~work[w].cut /\ ~work[w].waits

\* A worker is done with its job or is interrupted; the row may be written, of its job.
Leaves(w) ==
  /\ UNCHANGED <<clock, documents, rows, newest, calls, owing, clicked>>
  /\ faults' \in 0..MaxFaults
  /\ \E x \in {Idle, [Idle EXCEPT !.phase = "down"]} : work' = [work EXCEPT ![w] = x]
  /\ \/ jobs' = jobs
     \/ InHand(w) /\ \E row \in Job : /\ Ends(w, row)
                                      /\ jobs' = [jobs EXCEPT ![work[w].job] = row]

LEMMA LeavingKeeps ==
  ASSUME HoldInv, NEW w \in Workers, Leaves(w)
  PROVE  HoldInv'
<1>1. PICK x \in {Idle, [Idle EXCEPT !.phase = "down"]} : work' = [work EXCEPT ![w] = x]
  BY DEF Leaves
<1>2. /\ x \in Work /\ x.phase \in {"idle", "down"} /\ x.job = 0 /\ x.stale = {}
      /\ x.phase = "idle" => x = Idle
  <2>1. x \in Work
    BY <1>1, IdleTyped
  <2>2. CASE x = Idle
    BY <2>1, <2>2 DEF Idle
  <2>3. CASE x = [Idle EXCEPT !.phase = "down"]
    BY <2>1, <2>3 DEF Idle
  <2>4. QED
    BY <1>1, <2>2, <2>3
<1>3. /\ work' \in [Workers -> Work] /\ work'[w] = x
      /\ \A v \in Workers : v # w => work'[v] = work[v]
  BY <1>1, <1>2, HoldUnfolded
<1>4. /\ jobs' \in [Jobs -> Job]
      /\ \A j \in Jobs : jobs[j].status # "none" <=> jobs'[j].status # "none"
      /\ \A j \in Jobs : jobs'[j] = jobs[j] \/ (InHand(w) /\ j = work[w].job)
  BY HoldUnfolded DEF Leaves, Ends
<1>5. UNCHANGED <<clock, documents, rows, newest, calls, owing, clicked>> /\ faults' \in 0..MaxFaults
  BY DEF Leaves
<1>6. TypeOK'
  BY <1>2, <1>3, <1>4, <1>5, HoldUnfolded DEF TypeOK
<1>7. ASSUME NEW v \in Workers, v # w, InHand(v)
      PROVE  work[v].job \in Jobs /\ jobs'[work[v].job] = jobs[work[v].job]
  <2>1. work[v].job \in Jobs /\ work[v].job # work[w].job
    BY <1>7, HoldUnfolded
  <2>2. QED
    BY <1>4, <2>1
<1>8. JobsInOrder'
  BY <1>4, HoldUnfolded DEF JobsInOrder
<1>9. JobHeldByOne'
  BY <1>2, <1>3, <1>7 DEF HoldInv, JobHeldByOne, InHand
<1>10. ASSUME NEW v \in Workers PROVE Lasting(v)'
  <2>1. CASE v = w
    BY <1>2, <1>3, <2>1 DEF Lasting, InHand
  <2>2. CASE v # w
    <3>1. Lasting(v)
      BY DEF HoldInv
    <3>2. InHand(v) => JobOf(v)' = JobOf(v)
      BY <1>3, <1>7, <2>2 DEF JobOf
    <3>3. QED
      BY <1>3, <1>5, <2>2, <3>1, <3>2 DEF Lasting, InHand, InBudget
  <2>3. QED
    BY <2>1, <2>2
<1>11. StaleIsNobodys'
  <2>1. ASSUME NEW v \in Workers, NEW j \in work'[v].stale
        PROVE  jobs'[j].status = "leased" /\ \A u \in Workers : work'[u].job # j
    <3>1. v # w /\ work'[v] = work[v]
      BY <1>2, <1>3, <2>1
    <3>2. j \in Jobs /\ j # 0
      BY <1>3, Constants DEF Work, Jobs
    <3>3. jobs[j].status = "leased" /\ \A u \in Workers : work[u].job # j
      BY <3>1, HoldUnfolded DEF StaleIsNobodys
    <3>4. QED
      BY <1>2, <1>3, <1>4, <3>2, <3>3
  <2>2. \A u, v \in Workers : work'[v].stale # {} /\ work'[u].stale # {} => v = u
    BY <1>2, <1>3, HoldUnfolded DEF StaleIsNobodys
  <2>3. QED
    BY <2>1, <2>2 DEF StaleIsNobodys
<1>12. IdleIsClean'
  BY <1>2, <1>3, HoldUnfolded DEF IdleIsClean
<1>13. QED
  BY <1>6, <1>8, <1>9, <1>10, <1>11, <1>12 DEF HoldInv
\* What is written to a row stays typed.
LEMMA JobTypes ==
  ASSUME NEW row \in Job, NEW n \in Nat, NEW status \in Ended \cup Active \cup {"none"}
  PROVE  /\ row.attempts \in Nat /\ row.due \in Nat /\ row.leasedUntil \in Nat
         /\ [row EXCEPT !.status = status] \in Job /\ [row EXCEPT !.status = status].status = status
         /\ [row EXCEPT !.status = "deferred", !.due = n] \in Job
         /\ [row EXCEPT !.status = "deferred", !.due = n].status = "deferred"
         /\ [row EXCEPT !.status = "queued", !.leasedUntil = 0] \in Job
         /\ [row EXCEPT !.status = "queued", !.leasedUntil = 0].status = "queued"
         /\ [row EXCEPT !.status = "leased", !.attempts = @ + 1, !.leasedUntil = n] \in Job
<1>1. row.attempts \in Nat /\ row.due \in Nat /\ row.leasedUntil \in Nat
  BY DEF Job
<1>2. [row EXCEPT !.status = status] \in Job /\ [row EXCEPT !.status = status].status = status
  BY DEF Job
<1>3. {"deferred", "queued", "leased"} \subseteq Ended \cup Active \cup {"none"}
  BY DEF Active
<1>4. /\ [row EXCEPT !.status = "deferred", !.due = n] \in Job
      /\ [row EXCEPT !.status = "deferred", !.due = n].status = "deferred"
  BY <1>3 DEF Job
<1>5. /\ [row EXCEPT !.status = "queued", !.leasedUntil = 0] \in Job
      /\ [row EXCEPT !.status = "queued", !.leasedUntil = 0].status = "queued"
  BY <1>3 DEF Job
<1>6. row.attempts + 1 \in Nat
  BY <1>1
<1>7. [row EXCEPT !.status = "leased", !.attempts = @ + 1, !.leasedUntil = n] \in Job
  BY <1>3, <1>6 DEF Job
<1>8. QED
  BY <1>1, <1>2, <1>4, <1>5, <1>7

LEMMA EndsLeave ==
  ASSUME HoldInv, NEW w \in Workers,
         \/ FinishCut(w) \/ FinishWaiting(w) \/ FinishDone(w)
         \/ Exception(w) \/ ConnectionBreaks(w) \/ Kill(w) \/ Restart(w)
  PROVE  Leaves(w)
<1>0. faults \in 0..MaxFaults /\ work \in [Workers -> Work] /\ jobs \in [Jobs -> Job]
  BY HoldUnfolded DEF TypeOK
<1>1. ASSUME Fault PROVE faults' \in 0..MaxFaults
  BY <1>0, <1>1, Constants DEF Fault
<1>2. ASSUME NEW row \in Job, Ends(w, row), InHand(w), Leave(w, row),
             faults' \in 0..MaxFaults
      PROVE  Leaves(w)
  <2> DEFINE new == [row EXCEPT !.leasedUntil = 0]
  <2>1. new \in Job /\ Ends(w, new)
    BY <1>2 DEF Job, Ends
  <2>2. jobs' = [jobs EXCEPT ![work[w].job] = new]
    BY <1>2 DEF Leave
  <2>3. work' = [work EXCEPT ![w] = Idle]
    BY <1>2 DEF Leave
  <2>4. QED
    BY <1>2, <2>1, <2>2, <2>3 DEF Leaves, Leave
<1>3. ASSUME InHand(w)
      PROVE  /\ JobOf(w) \in Job /\ JobOf(w).attempts \in Nat /\ JobOf(w).attempts >= 1
             /\ work[w].start \in Nat
             /\ work[w].waits => ~LastAttempt(w)
             /\ [JobOf(w) EXCEPT !.status = "error"] \in Job
             /\ Ends(w, [JobOf(w) EXCEPT !.status = "error"])
             /\ \A n \in Nat : Deferred(w, n) \in Job /\ Ends(w, Deferred(w, n))
             /\ ~LastAttempt(w) => Backoff[JobOf(w).attempts] \in Nat
  <2>1. JobOf(w) \in Job /\ Lasting(w) /\ work[w].start \in Nat
    BY <1>3, HoldUnfolded, InHandTyped DEF Work
  <2>2. JobOf(w).attempts \in Nat /\ JobOf(w).attempts >= 1
    BY <1>3, <2>1 DEF Lasting, Job
  <2>3. /\ [JobOf(w) EXCEPT !.status = "error"] \in Job
        /\ Ends(w, [JobOf(w) EXCEPT !.status = "error"])
    BY <2>1 DEF Job, Ended, Ends
  <2>4. \A n \in Nat : Deferred(w, n) \in Job /\ Ends(w, Deferred(w, n))
    <3>1. ASSUME NEW n \in Nat PROVE work[w].start + n \in Nat
      BY <2>1
    <3>2. QED
      BY <2>1, <3>1, JobTypes DEF Deferred, Ends, Job
  <2>5. ~LastAttempt(w) => Backoff[JobOf(w).attempts] \in Nat
    BY <2>2, Constants DEF LastAttempt
  <2>6. work[w].waits => ~LastAttempt(w)
    BY <1>3, <2>1, <2>2, Constants DEF Lasting, LastAttempt
  <2>7. QED
    BY <2>1, <2>2, <2>3, <2>4, <2>5, <2>6
<1>4. 1 \in 1..MaxAttempts /\ Backoff[1] \in Nat
  BY Constants
<1>5. CASE FinishCut(w)
  <2>1. InHand(w)
    BY <1>5, HoldUnfolded DEF FinishCut, JobPhases
  <2> DEFINE row == IF LastAttempt(w) THEN [JobOf(w) EXCEPT !.status = "error"]
                                      ELSE Deferred(w, Backoff[1])
  <2>2. row \in Job /\ Ends(w, row)
    BY <1>3, <1>4, <2>1
  <2>3. Leave(w, row) /\ faults' \in 0..MaxFaults
    BY <1>0, <1>5 DEF FinishCut
  <2>4. QED
    BY <1>2, <2>1, <2>2, <2>3
<1>6. CASE FinishWaiting(w)
  <2>1. InHand(w) /\ work[w].waits
    BY <1>6, HoldUnfolded DEF FinishWaiting, JobPhases
  <2> DEFINE row == Deferred(w, Backoff[JobOf(w).attempts])
  <2>2. row \in Job /\ Ends(w, row)
    BY <1>3, <2>1
  <2>3. Leave(w, row) /\ faults' \in 0..MaxFaults
    BY <1>0, <1>6 DEF FinishWaiting
  <2>4. QED
    BY <1>2, <2>1, <2>2, <2>3
<1>7. CASE FinishDone(w)
  <2>1. InHand(w)
    BY <1>7, HoldUnfolded DEF FinishDone, JobPhases
  <2> DEFINE row == [JobOf(w) EXCEPT !.status = "done"]
  <2>2. row \in Job /\ Ends(w, row)
    BY <1>3, <1>7, <2>1 DEF Job, Ended, Ends, FinishDone
  <2>3. Leave(w, row) /\ faults' \in 0..MaxFaults
    BY <1>0, <1>7 DEF FinishDone
  <2>4. QED
    BY <1>2, <2>1, <2>2, <2>3
<1>8. CASE Exception(w)
  <2>1. InHand(w)
    BY <1>8, HoldUnfolded DEF Exception, InJob, JobPhases
  <2> DEFINE row == IF LastAttempt(w) THEN [JobOf(w) EXCEPT !.status = "error"]
                                      ELSE Deferred(w, Backoff[JobOf(w).attempts])
  <2>2. row \in Job /\ Ends(w, row)
    BY <1>3, <2>1
  <2>3. Leave(w, row) /\ faults' \in 0..MaxFaults
    BY <1>1, <1>8 DEF Exception
  <2>4. QED
    BY <1>2, <2>1, <2>2, <2>3
<1>9. CASE ConnectionBreaks(w)
  BY <1>1, <1>9 DEF ConnectionBreaks, Leaves
<1>10. CASE Kill(w)
  BY <1>1, <1>10 DEF Kill, Leaves
<1>11. CASE Restart(w)
  BY <1>0, <1>11 DEF Restart, Leaves
<1>12. QED
  BY <1>5, <1>6, <1>7, <1>8, <1>9, <1>10, <1>11

LEMMA ClaimKeepsHold ==
  ASSUME HoldInv, NEW w \in Workers, ClaimJob(w)
  PROVE  HoldInv'
<1>1. PICK j \in Due :
        /\ jobs' = [jobs EXCEPT ![j].status = "leased", ![j].attempts = @ + 1,
                                ![j].leasedUntil = clock + Lease]
        /\ work' = [work EXCEPT ![w].job = j, ![w].phase = jobs[j].kind,
                                ![w].start = clock, ![w].last = clock,
                                ![w].todo = Cited(jobs[j].response)]
  BY DEF ClaimJob
<1>2. UNCHANGED <<clock, documents, rows, newest, calls, owing, clicked, faults>>
  BY DEF ClaimJob
<1>3. /\ j \in Jobs /\ jobs[j] \in Job /\ jobs[j].status \in {"queued", "deferred"}
      /\ jobs[j].kind \in {"capture", "judge"} /\ j # 0
  BY HoldUnfolded, Constants DEF Due, Job, Jobs
<1>4. work[w] = Idle
  BY HoldUnfolded DEF IdleIsClean, ClaimJob
<1> DEFINE row == [jobs[j] EXCEPT !.status = "leased", !.attempts = @ + 1,
                                  !.leasedUntil = clock + Lease]
           x == [Idle EXCEPT !.job = j, !.phase = jobs[j].kind, !.start = clock, !.last = clock,
                             !.todo = Cited(jobs[j].response)]
<1>5. row \in Job /\ row.status = "leased" /\ row.attempts = jobs[j].attempts + 1
      /\ row.leasedUntil = clock + Lease /\ row.attempts >= 1
  <2>1. jobs[j].attempts \in Nat /\ clock + Lease \in Nat
    BY <1>3, HoldUnfolded, Constants DEF Job
  <2>2. row \in Job
    BY <1>3, <2>1, JobTypes DEF Ended
  <2>3. QED
    BY <1>3, <2>1, <2>2 DEF Job
<1>6. jobs' = [jobs EXCEPT ![j] = row]
  BY <1>1, <1>3, HoldUnfolded
<1>7. /\ x \in Work /\ x.job = j /\ x.phase = jobs[j].kind /\ x.start = clock
      /\ x.last = clock /\ x.stale = {} /\ x.waits = FALSE /\ x.cut = FALSE
      /\ x.todo = Cited(jobs[j].response)
  <2>1. Cited(jobs[j].response) \in SUBSET Citations /\ j \in 0..MaxJobs
        /\ jobs[j].kind \in Phases
    BY <1>3, CitedTyped, Constants DEF Jobs, Phases
  <2>2. x \in Work
    BY <2>1, HoldUnfolded, IdleTyped DEF Work
  <2>3. QED
    BY <2>1, <2>2 DEF Idle
<1>8. work' = [work EXCEPT ![w] = x]
  BY <1>1, <1>4, HoldUnfolded
<1> HIDE DEF row, x
<1>9. /\ jobs' \in [Jobs -> Job] /\ work' \in [Workers -> Work]
      /\ jobs'[j] = row /\ work'[w] = x
      /\ \A i \in Jobs : i # j => jobs'[i] = jobs[i]
      /\ \A v \in Workers : v # w => work'[v] = work[v]
  BY <1>3, <1>5, <1>6, <1>7, <1>8, HoldUnfolded
<1>10. TypeOK'
  BY <1>2, <1>3, <1>7, <1>9, HoldUnfolded DEF TypeOK
<1>11. JobsInOrder'
  BY <1>3, <1>5, <1>9, HoldUnfolded DEF JobsInOrder
<1>12. \A v \in Workers : InHand(v) => work[v].job # j
  BY <1>3, HoldUnfolded
<1>13. JobHeldByOne'
  <2>1. ASSUME NEW v \in Workers, work'[v].job # 0
        PROVE  /\ jobs'[work'[v].job].status = "leased"
               /\ \A u \in Workers : work'[u].job = work'[v].job => u = v
    <3>1. CASE v = w
      BY <1>3, <1>5, <1>7, <1>9, <1>12, <3>1 DEF InHand
    <3>2. CASE v # w
      <4>1. InHand(v) /\ work'[v] = work[v]
        BY <1>9, <2>1, <3>2 DEF InHand
      <4>2. /\ work[v].job \in Jobs /\ work[v].job # j /\ jobs[work[v].job].status = "leased"
            /\ \A u \in Workers : work[u].job = work[v].job => u = v
        BY <1>12, <4>1, HoldUnfolded
      <4>3. QED
        BY <1>7, <1>9, <4>1, <4>2
    <3>3. QED
      BY <3>1, <3>2
  <2>2. QED
    BY <2>1 DEF JobHeldByOne
<1>14. ASSUME NEW v \in Workers PROVE Lasting(v)'
  <2>1. CASE v = w
    <3>1. JobOf(w)' = row
      BY <1>7, <1>9 DEF JobOf
    <3>2. clock <= clock + Budget + Overrun /\ clock <= clock
      BY HoldUnfolded, Constants
    <3>3. QED
      BY <1>2, <1>3, <1>5, <1>7, <1>9, <2>1, <3>1, <3>2 DEF Lasting
  <2>2. CASE v # w
    <3>1. Lasting(v)
      BY DEF HoldInv
    <3>2. InHand(v) => JobOf(v)' = JobOf(v)
      BY <1>9, <1>12, <2>2, HoldUnfolded DEF JobOf
    <3>3. QED
      BY <1>2, <1>9, <2>2, <3>1, <3>2 DEF Lasting, InHand, InBudget
  <2>3. QED
    BY <2>1, <2>2
<1>15. StaleIsNobodys'
  <2>1. ASSUME NEW v \in Workers, NEW i \in work'[v].stale
        PROVE  jobs'[i].status = "leased" /\ \A u \in Workers : work'[u].job # i
    <3>1. v # w /\ work'[v] = work[v]
      BY <1>7, <1>9, <2>1
    <3>2. i \in Jobs
      BY <1>9, <2>1 DEF Work
    <3>3. jobs[i].status = "leased" /\ \A u \in Workers : work[u].job # i
      BY <2>1, <3>1, HoldUnfolded DEF StaleIsNobodys
    <3>4. QED
      BY <1>3, <1>7, <1>9, <3>2, <3>3
  <2>2. \A u, v \in Workers : work'[v].stale # {} /\ work'[u].stale # {} => v = u
    BY <1>7, <1>9, HoldUnfolded DEF StaleIsNobodys
  <2>3. QED
    BY <2>1, <2>2 DEF StaleIsNobodys
<1>16. IdleIsClean'
  BY <1>3, <1>7, <1>9, HoldUnfolded DEF IdleIsClean
<1>17. QED
  BY <1>10, <1>11, <1>13, <1>14, <1>15, <1>16 DEF HoldInv
\* The lease of a job in hand has not run out.
LEMMA HeldIsNotExpired ==
  ASSUME HoldInv, NEW w \in Workers, InHand(w)
  PROVE  ~Expired(work[w].job)
<1>1. Lasting(w) /\ work[w] \in Work /\ clock \in Nat /\ JobOf(w) = jobs[work[w].job]
  BY HoldUnfolded
<1>2. jobs[work[w].job].leasedUntil = work[w].start + Lease
      /\ clock <= work[w].start + Budget + Overrun /\ work[w].start \in Nat
  BY <1>1 DEF Lasting, Work
<1>3. QED
  BY <1>1, <1>2, Constants DEF Expired

LEMMA ReleaseReadsKeepsHold ==
  ASSUME HoldInv, ~Overlapping, NEW w \in Workers, ReleaseReads(w)
  PROVE  HoldInv'
<1> DEFINE expired == {j \in Jobs : Expired(j)}
           x == [Idle EXCEPT !.phase = "release", !.stale = expired]
<1>1. UNCHANGED <<clock, jobs, documents, rows, newest, calls, owing, clicked, faults>>
      /\ \A v \in Workers : work[v].stale = {}
  BY DEF ReleaseReads
<1>2. work[w] = Idle
  BY HoldUnfolded DEF IdleIsClean, ReleaseReads
<1>3. x \in Work /\ x.phase = "release" /\ x.job = 0 /\ x.stale = expired
  <2>1. "release" \in Phases /\ expired \in SUBSET Jobs
    BY DEF Phases
  <2> HIDE DEF expired
  <2>2. x \in Work
    BY <2>1, IdleTyped DEF Work
  <2>3. QED
    BY <2>1, <2>2 DEF Idle
<1>4. work' = [work EXCEPT ![w] = x]
  BY <1>2, HoldUnfolded DEF ReleaseReads
<1>5. \A j \in expired : /\ j \in Jobs /\ jobs[j].status = "leased"
                         /\ \A v \in Workers : work[v].job # j
  <2>1. ASSUME NEW j \in expired, NEW v \in Workers, work[v].job = j PROVE FALSE
    <3>1. Expired(work[v].job) /\ work[v].job # 0
      BY <2>1, Constants DEF Jobs
    <3>2. QED
      BY <3>1, HeldIsNotExpired DEF InHand
  <2>2. QED
    BY <2>1 DEF Expired
<1> HIDE DEF x, expired
<1>6. /\ work' \in [Workers -> Work] /\ work'[w] = x
      /\ \A v \in Workers : v # w => work'[v] = work[v]
      /\ \A v \in Workers : work'[v].job = work[v].job
  BY <1>2, <1>3, <1>4, HoldUnfolded DEF Idle
<1>7. TypeOK'
  BY <1>1, <1>3, <1>6, HoldUnfolded DEF TypeOK
<1>8. JobsInOrder' /\ JobHeldByOne'
  BY <1>1, <1>6 DEF HoldInv, JobsInOrder, JobHeldByOne
<1>9. \A v \in Workers : Lasting(v)'
  BY <1>1, <1>3, <1>6 DEF HoldInv, Lasting, InHand, InBudget, JobOf
<1>10. StaleIsNobodys'
  BY <1>1, <1>3, <1>5, <1>6 DEF StaleIsNobodys
<1>11. IdleIsClean'
  BY <1>3, <1>6, HoldUnfolded DEF IdleIsClean
<1>12. QED
  BY <1>7, <1>8, <1>9, <1>10, <1>11 DEF HoldInv

LEMMA ReleaseWritesKeepsHold ==
  ASSUME HoldInv, NEW w \in Workers, ReleaseWrites(w)
  PROVE  HoldInv'
<1>1. UNCHANGED <<clock, documents, rows, newest, calls, owing, clicked, faults>>
      /\ work' = [work EXCEPT ![w] = Idle]
  BY DEF ReleaseWrites
<1>2. /\ work' \in [Workers -> Work] /\ work'[w] = Idle
      /\ \A v \in Workers : v # w => work'[v] = work[v]
      /\ Idle.job = 0 /\ Idle.stale = {} /\ Idle.phase = "idle"
  BY <1>1, IdleTyped, HoldUnfolded DEF Idle
<1>3. \A j \in Jobs : [jobs[j] EXCEPT !.status = "queued", !.leasedUntil = 0] \in Job
                      /\ [jobs[j] EXCEPT !.status = "queued", !.leasedUntil = 0].status = "queued"
  BY JobTypes, HoldUnfolded DEF Active
<1>4. /\ jobs' \in [Jobs -> Job]
      /\ \A j \in Jobs : j \in work[w].stale => jobs'[j].status = "queued"
      /\ \A j \in Jobs : j \notin work[w].stale => jobs'[j] = jobs[j]
  BY <1>3, HoldUnfolded DEF ReleaseWrites
<1>5. \A j \in work[w].stale : jobs[j].status = "leased" /\ \A v \in Workers : work[v].job # j
  BY HoldUnfolded DEF StaleIsNobodys
<1>6. TypeOK'
  BY <1>1, <1>2, <1>4, HoldUnfolded DEF TypeOK
<1>7. JobsInOrder'
  BY <1>4, <1>5, HoldUnfolded DEF JobsInOrder
<1>8. \A v \in Workers : InHand(v) => work[v].job \in Jobs /\ jobs'[work[v].job] = jobs[work[v].job]
  BY <1>4, <1>5, HoldUnfolded
<1>9. JobHeldByOne'
  BY <1>2, <1>8 DEF HoldInv, JobHeldByOne, InHand
<1>10. ASSUME NEW v \in Workers PROVE Lasting(v)'
  <2>1. CASE v = w
    BY <1>2, <2>1 DEF Lasting, InHand
  <2>2. CASE v # w
    <3>1. Lasting(v)
      BY DEF HoldInv
    <3>2. InHand(v) => JobOf(v)' = JobOf(v)
      BY <1>2, <1>8, <2>2 DEF JobOf
    <3>3. QED
      BY <1>1, <1>2, <2>2, <3>1, <3>2 DEF Lasting, InHand, InBudget
  <2>3. QED
    BY <2>1, <2>2
<1>11. StaleIsNobodys'
  <2>1. ASSUME NEW v \in Workers, NEW j \in work'[v].stale
        PROVE  jobs'[j].status = "leased" /\ \A u \in Workers : work'[u].job # j
    <3>1. v # w /\ work'[v] = work[v] /\ work[v].stale # {}
      BY <1>2, <2>1
    <3>2. j \in Jobs /\ j # 0
      BY <1>2, <2>1, Constants DEF Work, Jobs
    <3>3. work[w].stale = {}
      BY <3>1, HoldUnfolded DEF StaleIsNobodys
    <3>4. jobs[j].status = "leased" /\ \A u \in Workers : work[u].job # j
      BY <2>1, <3>1, HoldUnfolded DEF StaleIsNobodys
    <3>5. QED
      BY <1>2, <1>4, <3>2, <3>3, <3>4
  <2>2. \A u, v \in Workers : work'[v].stale # {} /\ work'[u].stale # {} => v = u
    BY <1>2, HoldUnfolded DEF StaleIsNobodys
  <2>3. QED
    BY <2>1, <2>2 DEF StaleIsNobodys
<1>12. IdleIsClean'
  BY <1>2, HoldUnfolded DEF IdleIsClean
<1>13. QED
  BY <1>6, <1>7, <1>9, <1>10, <1>11, <1>12 DEF HoldInv

-----------------------------------------------------------------------------
(* Requests, and time *)

\* A row more, in order.
Arrives(kind, r) ==
  /\ UNCHANGED <<clock, documents, rows, newest, calls, work, faults>>
  /\ owing' \in SUBSET Responses /\ clicked' \in [Clickers -> Click]
  /\ Insert(kind, r)

LEMMA Arrived ==
  ASSUME HoldInv, NEW kind \in {"capture", "judge"}, NEW r \in Responses, Insert(kind, r)
  PROVE  \E j \in Jobs :
           /\ jobs[j].status = "none" /\ \A i \in 1..(j - 1) : jobs[i].status # "none"
           /\ jobs' \in [Jobs -> Job] /\ jobs'[j] = NewJob(kind, r)
           /\ NewJob(kind, r).status = "queued"
           /\ \A i \in Jobs : i # j => jobs'[i] = jobs[i]
<1>1. NewJob(kind, r) \in Job /\ NewJob(kind, r).status = "queued"
  BY HoldUnfolded, NoJobTyped DEF NewJob, Job, Active
<1>2. QED
  BY <1>1, HoldUnfolded DEF Insert

LEMMA ArrivalKeepsHold ==
  ASSUME HoldInv, NEW kind \in {"capture", "judge"}, NEW r \in Responses, Arrives(kind, r)
  PROVE  HoldInv'
<1>1. PICK j \in Jobs :
        /\ jobs[j].status = "none" /\ \A i \in 1..(j - 1) : jobs[i].status # "none"
        /\ jobs' \in [Jobs -> Job] /\ jobs'[j] = NewJob(kind, r)
        /\ NewJob(kind, r).status = "queued"
        /\ \A i \in Jobs : i # j => jobs'[i] = jobs[i]
  BY Arrived DEF Arrives
<1>2. UNCHANGED <<clock, documents, rows, newest, calls, work, faults>>
      /\ owing' \in SUBSET Responses /\ clicked' \in [Clickers -> Click]
  BY DEF Arrives
<1>3. TypeOK'
  BY <1>1, <1>2, HoldUnfolded DEF TypeOK
<1>4. JobsInOrder'
  <2>1. ASSUME NEW i \in Jobs, NEW k \in Jobs, i < k, jobs'[k].status # "none"
        PROVE  jobs'[i].status # "none"
    <3>1. i \in Nat /\ k \in Nat /\ j \in Nat /\ i >= 1
      BY Constants DEF Jobs
    <3>2. CASE k = j
      BY <1>1, <2>1, <3>1, <3>2
    <3>3. CASE k # j
      BY <1>1, <2>1, <3>3, HoldUnfolded DEF JobsInOrder
    <3>4. QED
      BY <3>2, <3>3
  <2>2. QED
    BY <2>1 DEF JobsInOrder
<1>5. \A v \in Workers : InHand(v) => work[v].job \in Jobs /\ jobs'[work[v].job] = jobs[work[v].job]
  BY <1>1, HoldUnfolded
<1>6. JobHeldByOne'
  BY <1>2, <1>5 DEF HoldInv, JobHeldByOne, InHand
<1>7. ASSUME NEW v \in Workers PROVE Lasting(v)'
  BY <1>2, <1>5 DEF HoldInv, Lasting, InHand, InBudget, JobOf
<1>8. StaleIsNobodys'
  <2>1. \A v \in Workers : work[v].stale \subseteq Jobs
    BY HoldUnfolded DEF Work
  <2>2. QED
    BY <1>1, <1>2, <2>1, HoldUnfolded DEF StaleIsNobodys
<1>9. IdleIsClean'
  BY <1>2, HoldUnfolded DEF IdleIsClean
<1>10. QED
  BY <1>3, <1>4, <1>6, <1>7, <1>8, <1>9 DEF HoldInv

LEMMA RequestsKeepHold ==
  ASSUME HoldInv,
         \/ \E r \in Responses : EnqueueCapture(r)
         \/ \E k \in Clickers : \/ BulkReads(k) \/ BackfillReads(k)
                                \/ \E r \in Responses : ButtonReads(k, r) \/ EnqueueClicked(k, r)
  PROVE  /\ HoldInv'
         /\ UNCHANGED <<clock, documents, rows, newest, calls, work, faults>>
         /\ \/ jobs' = jobs
            \/ \E kind \in {"capture", "judge"}, r \in Responses : Insert(kind, r)
<1>0. owing \in SUBSET Responses /\ clicked \in [Clickers -> Click]
  BY HoldUnfolded DEF TypeOK
<1>1. ASSUME NEW r \in Responses, EnqueueCapture(r) PROVE Arrives("capture", r)
  BY <1>0, <1>1 DEF EnqueueCapture, Arrives
<1>2. ASSUME NEW k \in Clickers, NEW r \in Responses, EnqueueClicked(k, r)
      PROVE  clicked[k].kind \in {"capture", "judge"} /\ Arrives(clicked[k].kind, r)
  <2>1. clicked[k] \in Click
    BY <1>0
  <2> DEFINE rest == [clicked[k] EXCEPT !.todo = @ \ {r}]
  <2>2. NoClick \in Click /\ rest \in Click
    BY <2>1 DEF NoClick, Click
  <2>3. clicked' \in [Clickers -> Click]
    <3>1. clicked' = [clicked EXCEPT ![k] = IF clicked[k].todo = {r} THEN NoClick ELSE rest]
      BY <1>2 DEF EnqueueClicked
    <3>2. QED
      <4> HIDE DEF rest
      <4>1. (IF clicked[k].todo = {r} THEN NoClick ELSE rest) \in Click
        BY <2>2
      <4>2. QED
        BY <1>0, <3>1, <4>1
  <2>4. QED
    BY <1>0, <1>2, <2>1, <2>3 DEF EnqueueClicked, Arrives, Click
<1>3. ASSUME NEW k \in Clickers, NEW kind \in {"capture", "judge"}, NEW rs \in SUBSET Responses,
             Decides(k, kind, rs)
      PROVE  HoldInv' /\ UNCHANGED <<clock, documents, rows, newest, calls, work, faults, jobs>>
  <2>1. clicked' \in [Clickers -> Click]
    BY <1>0, <1>3 DEF Decides, Click
  <2>2. UNCHANGED <<clock, jobs, documents, rows, newest, calls, work, owing, faults>>
    BY <1>3 DEF Decides
  <2>3. TypeOK'
    BY <2>1, <2>2, HoldUnfolded DEF TypeOK
  <2>4. QED
    BY <2>2, <2>3 DEF HoldInv, JobsInOrder, JobHeldByOne, Lasting, InHand, JobOf, InBudget,
                      StaleIsNobodys, IdleIsClean
<1>4. Judged \subseteq Responses
  BY ResponsesAreKnown
<1>5. CASE \E r \in Responses : EnqueueCapture(r)
  BY <1>1, <1>5, ArrivalKeepsHold DEF Arrives
<1>6. CASE \E k \in Clickers : BulkReads(k) \/ BackfillReads(k)
  <2>1. PICK k \in Clickers : BulkReads(k) \/ BackfillReads(k)
    BY <1>6
  <2>2. \E kind \in {"capture", "judge"}, rs \in SUBSET Responses : Decides(k, kind, rs)
    BY <1>4, <2>1 DEF BulkReads, BackfillReads
  <2>3. QED
    BY <1>3, <2>2
<1>7. CASE \E k \in Clickers, r \in Responses : ButtonReads(k, r)
  <2>1. PICK k \in Clickers, r \in Responses : Decides(k, "judge", {r})
    BY <1>7 DEF ButtonReads
  <2>2. QED
    BY <1>3, <2>1
<1>8. CASE \E k \in Clickers, r \in Responses : EnqueueClicked(k, r)
  BY <1>2, <1>8, ArrivalKeepsHold DEF Arrives
<1>9. QED
  BY <1>5, <1>6, <1>7, <1>8

LEMMA TickKeepsHold ==
  ASSUME HoldInv, Tick
  PROVE  HoldInv'
<1>1. clock < MaxClock /\ clock' = clock + 1
      /\ UNCHANGED <<jobs, documents, rows, newest, calls, work, owing, clicked, faults>>
  BY DEF Tick
<1>2. TypeOK'
  BY <1>1, HoldUnfolded, Constants DEF TypeOK
<1>3. ASSUME NEW w \in Workers, InHand(w) PROVE Lasting(w)'
  <2>1. Lasting(w) /\ work[w] \in Work /\ work[w].phase \in JobPhases
    BY <1>3, HoldUnfolded
  <2>2. work[w].last \in Nat /\ work[w].start \in Nat /\ clock \in Nat
    BY <2>1, HoldUnfolded DEF Work
  <2>3. Calling(w) /\ clock < work[w].last + Overrun
    BY <2>1 DEF Tick, JobPhases
  <2>4. InBudget(w)
    <3>1. CASE work[w].phase = "reply"
      BY <1>3, <2>1, <3>1 DEF Lasting
    <3>2. CASE InCaptureBudget(w)
      BY <2>2, <3>2, Constants DEF InBudget, InCaptureBudget
    <3>3. QED
      BY <2>3, <3>1, <3>2 DEF Calling
  <2>5. clock + 1 <= work[w].start + Budget + Overrun
    BY <2>2, <2>3, <2>4, Constants DEF InBudget
  <2>6. work[w].last <= clock + 1
    BY <1>3, <2>1, <2>2 DEF Lasting
  <2>7. QED
    BY <1>1, <1>3, <2>1, <2>5, <2>6 DEF Lasting, InHand, JobOf, InBudget
<1>4. \A w \in Workers : Lasting(w)'
  BY <1>1, <1>3 DEF Lasting, InHand
<1>5. QED
  BY <1>1, <1>2, <1>4 DEF HoldInv, JobsInOrder, JobHeldByOne, StaleIsNobodys, IdleIsClean
\* The steps of the queue, by what they do to the jobs in hand.
LEMMA QueueSteps ==
  ASSUME HoldInv, [Next]_vars
  PROVE  \/ \E w \in Workers : WithinJob(w) /\ \/ CaptureEnds(w) \/ ChecksEnd(w)
                                               \/ \E c \in Citations :
                                                    \/ CaptureUrl(w, c) \/ SkipCitation(w, c)
                                                    \/ CheckQuote(w, c) \/ ArchiveUnavailable(w, c)
                                                    \/ JudgeForFree(w, c) \/ JudgeCalls(w, c)
                                                    \/ JudgeReplies(w, c)
         \/ \E w \in Workers : Leaves(w) /\ \/ FinishCut(w) \/ FinishWaiting(w) \/ FinishDone(w)
                                            \/ Exception(w) \/ ConnectionBreaks(w)
                                            \/ Kill(w) \/ Restart(w)
         \/ \E w \in Workers : ReleaseReads(w) \/ ReleaseWrites(w) \/ ClaimJob(w)
         \/ \E r \in Responses : EnqueueCapture(r)
         \/ \E k \in Clickers : \/ BulkReads(k) \/ BackfillReads(k)
                                \/ \E r \in Responses : ButtonReads(k, r) \/ EnqueueClicked(k, r)
         \/ Tick
         \/ UNCHANGED vars
<1>1. \A w \in Workers : CaptureEnds(w) => WithinJob(w)
  BY HoldUnfolded, CaptureIsWithin
<1>2. \A w \in Workers : ChecksEnd(w) => WithinJob(w)
  BY HoldUnfolded, EndIsWithin
<1>3. \A w \in Workers, c \in Citations : CaptureUrl(w, c) => WithinJob(w)
  BY HoldUnfolded, CaptureIsWithin
<1>4. \A w \in Workers, c \in Citations :
        (\/ SkipCitation(w, c) \/ CheckQuote(w, c) \/ ArchiveUnavailable(w, c)
         \/ JudgeForFree(w, c) \/ JudgeCalls(w, c) \/ JudgeReplies(w, c)) => WithinJob(w)
  BY HoldUnfolded, CheckIsWithin
<1>5. \A w \in Workers :
        (\/ FinishCut(w) \/ FinishWaiting(w) \/ FinishDone(w)
         \/ Exception(w) \/ ConnectionBreaks(w) \/ Kill(w) \/ Restart(w)) => Leaves(w)
  BY EndsLeave
<1>6. QED
  BY <1>1, <1>2, <1>3, <1>4, <1>5 DEF Next, WorkerStep

LEMMA HoldInit == Init => HoldInv
<1> SUFFICES ASSUME Init PROVE HoldInv
  OBVIOUS
<1>1. TypeOK
  <2>1. \A w \in Workers : work[w] = Idle /\ Idle \in Work /\ Idle.job = 0 /\ Idle.phase = "idle"
    BY IdleTyped DEF Init, Idle
  <2>2. NoClick \in Click /\ clock \in 1..MaxClock
    BY Constants DEF NoClick, Click, Init
  <2>3. QED
    BY <2>1, <2>2, NoJobTyped, IdleTyped, Constants DEF Init, TypeOK
<1>2. JobsInOrder
  BY NoJobTyped DEF Init, JobsInOrder
<1>3. \A w \in Workers : work[w] = Idle /\ Idle.job = 0 /\ Idle.stale = {}
  BY DEF Init, Idle
<1>4. JobHeldByOne /\ \A w \in Workers : Lasting(w)
  BY <1>3 DEF JobHeldByOne, Lasting, InHand
<1>5. StaleIsNobodys /\ IdleIsClean
  BY <1>3 DEF StaleIsNobodys, IdleIsClean
<1>6. QED
  BY <1>1, <1>2, <1>4, <1>5 DEF HoldInv

LEMMA HoldStep ==
  ASSUME HoldInv, ~Overlapping, [Next]_vars
  PROVE  HoldInv'
<1>1. CASE \E w \in Workers : WithinJob(w)
  BY <1>1, WithinKeeps
<1>2. CASE \E w \in Workers : Leaves(w)
  BY <1>2, LeavingKeeps
<1>3. CASE \E w \in Workers : ReleaseReads(w) \/ ReleaseWrites(w) \/ ClaimJob(w)
  BY <1>3, ReleaseReadsKeepsHold, ReleaseWritesKeepsHold, ClaimKeepsHold
<1>4. CASE \/ \E r \in Responses : EnqueueCapture(r)
           \/ \E k \in Clickers : \/ BulkReads(k) \/ BackfillReads(k)
                                  \/ \E r \in Responses : ButtonReads(k, r) \/ EnqueueClicked(k, r)
  BY <1>4, RequestsKeepHold
<1>5. CASE Tick
  BY <1>5, TickKeepsHold
<1>6. CASE UNCHANGED vars
  BY <1>6 DEF vars, HoldInv, TypeOK, JobsInOrder, JobHeldByOne, Lasting, InHand, JobOf, InBudget,
              StaleIsNobodys, IdleIsClean
<1>7. QED
  BY <1>1, <1>2, <1>3, <1>4, <1>5, <1>6, QueueSteps
\* Jobs are held by one worker, whatever is asked for, interrupted or late
\* (claim_next_job, release_expired_job_leases, process_verification_job).
LEMMA HoldAlways == ASSUME ~Overlapping PROVE Spec => []HoldInv
<1>1. Init => HoldInv
  BY HoldInit
<1>2. HoldInv /\ [Next]_vars => HoldInv'
  BY HoldStep
<1>3. QED
  BY <1>1, <1>2, PTL DEF Spec
-----------------------------------------------------------------------------
(* The verdicts, kept by every step *)

\* A verdict is one of a job that has been tried, and the newest on its citation is no
\* older than that job.
VerdictsCounted ==
  /\ \A j \in Jobs, c \in Citations : rows[j][c] > 0 => newest[c] >= j /\ jobs[j].attempts > 0
  /\ \A j \in Jobs : jobs[j].status = "none" => jobs[j].attempts = 0
  /\ \A c \in Citations : newest[c] <= Cardinality(Existing)

\* The citations a worker may still write a verdict on have none of its job: in the first
\* attempt all that are left, and always the one whose reply it waits for.
Unwritten(w) ==
  InHand(w) =>
    /\ JobOf(w).attempts = 1 =>
         \A c \in Citations :
           (\/ work[w].phase = "capture"
            \/ work[w].phase \in {"quote", "judge", "reply"} /\ c \in work[w].todo)
             => rows[work[w].job][c] = 0
    /\ work[w].phase = "reply" =>
         \A c \in Citations : IsNext(w, c) => rows[work[w].job][c] = 0

VerdictInv == VerdictsCounted /\ OneVerdictPerJob /\ \A w \in Workers : Unwritten(w)

\* A job in hand is among those that exist, and so are all before it.
LEMMA HeldIsCounted ==
  ASSUME HoldInv, NEW w \in Workers, InHand(w)
  PROVE  work[w].job \in Jobs /\ work[w].job <= Cardinality(Existing)
<1>1. work[w].job \in Jobs /\ jobs[work[w].job].status = "leased"
  BY HoldUnfolded
<1>2. ASSUME NEW i \in 1..work[w].job PROVE i \in Existing
  <2>1. i \in Jobs /\ (i < work[w].job \/ i = work[w].job)
    BY <1>1, Constants DEF Jobs
  <2>2. QED
    BY <1>1, <2>1, HoldUnfolded DEF JobsInOrder, Existing
<1>3. Existing \in SUBSET Jobs /\ 1..work[w].job \subseteq Existing
  BY <1>2 DEF Existing
<1>4. QED
  BY <1>1, <1>3, ExistingCounted

\* What does not write a verdict keeps them, if no job vanishes or is tried less.
LEMMA QuietKeepsVerdicts ==
  ASSUME HoldInv, VerdictInv, UNCHANGED <<rows, newest>>,
         \A j \in Jobs : /\ jobs[j].status # "none" => jobs'[j].status # "none"
                         /\ jobs'[j].status = "none" => jobs'[j].attempts = 0
                         /\ jobs[j].attempts > 0 => jobs'[j].attempts > 0,
         \A w \in Workers : Unwritten(w)'
  PROVE  VerdictInv'
<1>1. Cardinality(Existing) <= Cardinality(Existing') /\ Cardinality(Existing) \in Nat
      /\ Cardinality(Existing') \in Nat
  <2>1. Existing \in SUBSET Existing' /\ Existing' \in SUBSET Jobs /\ Existing \in SUBSET Jobs
    BY DEF Existing
  <2>2. QED
    BY <2>1, ExistingCounted, Constants
<1>2. \A c \in Citations : newest[c] \in Nat
  BY HoldUnfolded, Constants DEF TypeOK
<1>3. VerdictsCounted'
  <2>1. \A c \in Citations : newest'[c] <= Cardinality(Existing')
    BY <1>1, <1>2 DEF VerdictInv, VerdictsCounted
  <2>2. \A j \in Jobs, c \in Citations :
          rows'[j][c] > 0 => newest'[c] >= j /\ jobs'[j].attempts > 0
    BY DEF VerdictInv, VerdictsCounted
  <2>3. QED
    BY <2>1, <2>2 DEF VerdictsCounted
<1>4. OneVerdictPerJob'
  <2>1. rows' = rows /\ OneVerdictPerJob
    BY DEF VerdictInv
  <2>2. QED
    BY <2>1 DEF OneVerdictPerJob
<1>5. QED
  BY <1>3, <1>4 DEF VerdictInv

\* The citation at hand, when it is not skipped, has no verdict of this job.
LEMMA NotSkippedIsUnwritten ==
  ASSUME HoldInv, VerdictInv, NEW w \in Workers, NEW c \in Citations,
         work[w].phase \in {"quote", "judge"}, IsNext(w, c), ~Skipped(w, c)
  PROVE  rows[work[w].job][c] = 0
<1>1. InHand(w)
  BY HoldUnfolded DEF JobPhases
<1>2. work[w].job \in Jobs /\ Unwritten(w) /\ Lasting(w) /\ JobOf(w) \in Job
  BY <1>1, HoldUnfolded, InHandTyped DEF VerdictInv
<1>3. CASE JobOf(w).attempts = 1
  BY <1>1, <1>2, <1>3 DEF Unwritten, IsNext
<1>4. CASE JobOf(w).attempts # 1
  <2>1. JobOf(w).attempts > 1
    BY <1>1, <1>2, <1>4 DEF Lasting, Job
  <2>2. ~(newest[c] >= work[w].job)
    BY <2>1 DEF Skipped, AlreadyVerified, Resumes
  <2>3. rows[work[w].job][c] \in Nat
    BY <1>2, HoldUnfolded DEF TypeOK
  <2>4. QED
    BY <1>2, <2>2, <2>3 DEF VerdictInv, VerdictsCounted
<1>5. QED
  BY <1>3, <1>4

LEMMA NextIsOne ==
  ASSUME TypeOK, NEW w \in Workers, NEW c \in Citations, NEW d \in Citations,
         IsNext(w, c), IsNext(w, d)
  PROVE  c = d
BY BoundsAreNaturals DEF IsNext

\* A verdict is written on the citation at hand, which has none of this job.
LEMMA VerdictKeeps ==
  ASSUME HoldInv, VerdictInv, NEW w \in Workers, NEW c \in Citations, InHand(w),
         Write(w, c), rows[work[w].job][c] = 0, UNCHANGED jobs,
         work[w].phase \in {"quote", "judge", "reply"},
         \A v \in Workers : v # w => work'[v] = work[v],
         work'[w].job = work[w].job, work'[w].phase \in {"quote", "judge"},
         work'[w].todo = work[w].todo \ {c}
  PROVE  VerdictInv'
<1>1. /\ work[w].job \in Jobs /\ work[w].job <= Cardinality(Existing)
      /\ Cardinality(Existing) \in Nat /\ work[w].job \in Nat
  <2>1. Existing \in SUBSET Jobs
    BY DEF Existing
  <2>2. QED
    BY <2>1, HeldIsCounted, ExistingCounted, Constants DEF Jobs
<1>2. /\ \A j \in Jobs, d \in Citations :
           rows'[j][d] = IF j = work[w].job /\ d = c THEN rows[j][d] + 1 ELSE rows[j][d]
      /\ \A d \in Citations : newest'[d] = IF d = c THEN Cardinality(Existing) ELSE newest[d]
  BY HoldUnfolded, WriteTyped
<1>3. Existing' = Existing
  BY DEF Existing
<1>4. Lasting(w) /\ JobOf(w) \in Job /\ JobOf(w) = jobs[work[w].job]
  BY HoldUnfolded, InHandTyped
<1>5. jobs[work[w].job].attempts > 0
  BY <1>4 DEF Lasting, Job
<1>6. ASSUME NEW j \in Jobs, NEW d \in Citations, rows'[j][d] > 0
      PROVE  newest'[d] >= j /\ jobs'[j].attempts > 0
  <2>1. CASE j = work[w].job /\ d = c
    BY <1>1, <1>2, <1>5, <2>1
  <2>2. CASE ~(j = work[w].job /\ d = c)
    <3>1. newest[d] >= j /\ jobs[j].attempts > 0 /\ newest[d] <= Cardinality(Existing)
      BY <1>2, <1>6, <2>2 DEF VerdictInv, VerdictsCounted
    <3>2. newest[d] \in Nat /\ j \in Nat
      BY HoldUnfolded, Constants DEF TypeOK, Jobs
    <3>3. QED
      BY <1>1, <1>2, <3>1, <3>2
  <2>3. QED
    BY <2>1, <2>2
<1>7. \A d \in Citations : newest'[d] <= Cardinality(Existing')
  BY <1>1, <1>2, <1>3 DEF VerdictInv, VerdictsCounted
<1>8. VerdictsCounted'
  BY <1>6, <1>7 DEF VerdictInv, VerdictsCounted
<1>9. OneVerdictPerJob'
  BY <1>2 DEF VerdictInv, OneVerdictPerJob
<1>10. ASSUME NEW v \in Workers PROVE Unwritten(v)'
  <2>1. CASE v = w
    <3>1. JobOf(w)' = JobOf(w) /\ InHand(w)' = InHand(w)
      BY DEF JobOf, InHand
    <3>2. Unwritten(w)
      BY DEF VerdictInv
    <3>3. \A d \in Citations : d \in work'[w].todo => rows'[work[w].job][d] = rows[work[w].job][d]
                                                     /\ d \in work[w].todo
      BY <1>1, <1>2
    <3>4. QED
      BY <2>1, <3>1, <3>2, <3>3 DEF Unwritten
  <2>2. CASE v # w
    <3>1. InHand(v) => work[v].job \in Jobs /\ work[v].job # work[w].job
      BY <2>2, HoldUnfolded
    <3>2. InHand(v) => \A d \in Citations : rows'[work[v].job][d] = rows[work[v].job][d]
      BY <1>2, <3>1
    <3>3. QED
      BY <2>2, <3>2 DEF VerdictInv, Unwritten, InHand, JobOf, IsNext
  <2>3. QED
    BY <2>1, <2>2
<1>11. QED
  BY <1>8, <1>9, <1>10 DEF VerdictInv
\* Where the others stand, when one worker's steps touch neither their jobs nor the verdicts.
LEMMA OthersUnwritten ==
  ASSUME VerdictInv, NEW v \in Workers, UNCHANGED rows, work'[v] = work[v],
         InHand(v) => jobs'[work[v].job].attempts = jobs[work[v].job].attempts
  PROVE  Unwritten(v)'
BY DEF VerdictInv, Unwritten, InHand, JobOf, IsNext

\* A step within a job that writes no verdict.
LEMMA NoVerdictKeeps ==
  ASSUME HoldInv, VerdictInv, NEW w \in Workers, InHand(w), UNCHANGED <<rows, newest, jobs>>,
         \A v \in Workers : v # w => work'[v] = work[v],
         work'[w].job = work[w].job,
         work'[w].phase = "capture" => work[w].phase = "capture",
         work'[w].phase \in {"quote", "judge", "reply"} =>
           \/ work[w].phase = "capture"
           \/ work[w].phase \in {"quote", "judge"} /\ work'[w].todo \subseteq work[w].todo,
         work'[w].phase = "reply" =>
           \A c \in Citations : (IsNext(w, c))' => rows[work[w].job][c] = 0
  PROVE  VerdictInv'
<1>1. work[w].phase \in Phases
  BY HoldUnfolded
<1>2. Unwritten(w)
  BY DEF VerdictInv
<1>3. JobOf(w)' = JobOf(w)
  BY DEF JobOf
<1>4. Unwritten(w)'
  BY <1>2, <1>3 DEF Unwritten, InHand
<1>5. \A v \in Workers : Unwritten(v)'
  BY <1>4, OthersUnwritten
<1>6. QED
  BY <1>5, QuietKeepsVerdicts DEF VerdictInv, VerdictsCounted

LEMMA WithinKeepsVerdicts ==
  ASSUME HoldInv, VerdictInv, NEW w \in Workers, WithinJob(w),
         \/ CaptureEnds(w) \/ ChecksEnd(w)
         \/ \E c \in Citations : \/ CaptureUrl(w, c) \/ SkipCitation(w, c) \/ CheckQuote(w, c)
                                 \/ ArchiveUnavailable(w, c) \/ JudgeForFree(w, c)
                                 \/ JudgeCalls(w, c) \/ JudgeReplies(w, c)
  PROVE  VerdictInv'
<1>0. /\ InHand(w) /\ work \in [Workers -> Work] /\ work[w] \in Work
      /\ TypeOK /\ UNCHANGED jobs
  BY HoldUnfolded DEF WithinJob
<1>1. CASE CaptureEnds(w)
  <2>1. AfterCapture(w) # "capture" /\ AfterCapture(w) # "reply"
    BY DEF AfterCapture
  <2>2. /\ UNCHANGED <<rows, newest, jobs>> /\ work[w].phase = "capture"
        /\ \A v \in Workers : v # w => work'[v] = work[v]
        /\ work'[w].job = work[w].job /\ work'[w].phase = AfterCapture(w)
    BY <1>0, <1>1 DEF CaptureEnds, EndCapture, Work
  <2>3. QED
    BY <1>0, <2>1, <2>2, NoVerdictKeeps
<1>2. CASE ChecksEnd(w)
  <2>1. /\ UNCHANGED <<rows, newest, jobs>>
        /\ \A v \in Workers : v # w => work'[v] = work[v]
        /\ work'[w].job = work[w].job /\ work'[w].phase = "finish"
    BY <1>0, <1>2 DEF ChecksEnd, Work
  <2>2. QED
    BY <1>0, <2>1, NoVerdictKeeps
<1>3. ASSUME NEW c \in Citations, CaptureUrl(w, c) PROVE VerdictInv'
  <2>1. /\ UNCHANGED <<rows, newest, jobs>> /\ work[w].phase = "capture"
        /\ \A v \in Workers : v # w => work'[v] = work[v]
        /\ work'[w].job = work[w].job /\ work'[w].phase = "capture"
    BY <1>0, <1>3 DEF CaptureUrl, Work
  <2>2. QED
    BY <1>0, <2>1, NoVerdictKeeps
<1>4. ASSUME NEW c \in Citations, SkipCitation(w, c) \/ ArchiveUnavailable(w, c) PROVE VerdictInv'
  <2>1. /\ UNCHANGED <<rows, newest, jobs>> /\ work[w].phase \in {"quote", "judge"}
        /\ \A v \in Workers : v # w => work'[v] = work[v]
        /\ work'[w].job = work[w].job /\ work'[w].phase = work[w].phase
        /\ work'[w].todo = work[w].todo \ {c}
    <3>1. CASE SkipCitation(w, c)
      BY <1>0, <3>1 DEF SkipCitation, Work
    <3>2. CASE ArchiveUnavailable(w, c)
      BY <1>0, <3>2 DEF ArchiveUnavailable, Work
    <3>3. QED
      BY <1>4, <3>1, <3>2
  <2>2. QED
    BY <1>0, <2>1, NoVerdictKeeps
<1>5. ASSUME NEW c \in Citations, CheckQuote(w, c) \/ JudgeForFree(w, c) PROVE VerdictInv'
  <2>1. /\ Write(w, c) /\ work[w].phase \in {"quote", "judge"}
        /\ IsNext(w, c) /\ ~Skipped(w, c)
        /\ \A v \in Workers : v # w => work'[v] = work[v]
        /\ work'[w].job = work[w].job /\ work'[w].phase = work[w].phase
        /\ work'[w].todo = work[w].todo \ {c}
    BY <1>0, <1>5 DEF CheckQuote, JudgeForFree, Work
  <2>2. rows[work[w].job][c] = 0
    BY <2>1, NotSkippedIsUnwritten
  <2>3. QED
    BY <1>0, <2>1, <2>2, VerdictKeeps
<1>6. ASSUME NEW c \in Citations, JudgeCalls(w, c) PROVE VerdictInv'
  <2>1. /\ UNCHANGED <<rows, newest, jobs>> /\ work[w].phase = "judge"
        /\ IsNext(w, c) /\ ~Skipped(w, c)
        /\ \A v \in Workers : v # w => work'[v] = work[v]
        /\ work'[w].job = work[w].job /\ work'[w].phase = "reply"
        /\ work'[w].todo = work[w].todo
    BY <1>0, <1>6 DEF JudgeCalls, Work
  <2>2. rows[work[w].job][c] = 0
    BY <2>1, NotSkippedIsUnwritten
  <2>3. \A d \in Citations : (IsNext(w, d))' => d = c
    BY <1>0, <2>1, NextIsOne DEF IsNext
  <2>4. \A d \in Citations : (IsNext(w, d))' => rows[work[w].job][d] = 0
    BY <2>2, <2>3
  <2>5. QED
    BY <1>0, <2>1, <2>4, NoVerdictKeeps
<1>7. ASSUME NEW c \in Citations, JudgeReplies(w, c) PROVE VerdictInv'
  <2>1. /\ Write(w, c) /\ work[w].phase = "reply" /\ IsNext(w, c)
        /\ \A v \in Workers : v # w => work'[v] = work[v]
        /\ work'[w].job = work[w].job /\ work'[w].phase = "judge"
        /\ work'[w].todo = work[w].todo \ {c}
    BY <1>0, <1>7 DEF JudgeReplies, Work
  <2>2. rows[work[w].job][c] = 0
    BY <1>0, <2>1 DEF VerdictInv, Unwritten
  <2>3. QED
    BY <1>0, <2>1, <2>2, VerdictKeeps
<1>8. QED
  BY <1>1, <1>2, <1>3, <1>4, <1>5, <1>6, <1>7

\* How the other steps change the jobs.
LEMMA OtherJobs ==
  ASSUME HoldInv, NEW w \in Workers, Leaves(w) \/ ReleaseReads(w) \/ ReleaseWrites(w)
  PROVE  /\ UNCHANGED <<documents, rows, newest, calls>>
         /\ \A j \in Jobs : /\ jobs'[j].status = "none" <=> jobs[j].status = "none"
                            /\ jobs'[j].attempts = jobs[j].attempts
                            /\ jobs'[j].kind = jobs[j].kind
                            /\ jobs'[j].response = jobs[j].response
         /\ \A v \in Workers : v # w => work'[v] = work[v]
         /\ work'[w].job = 0
<1>1. CASE Leaves(w)
  <2>1. UNCHANGED <<documents, rows, newest, calls>>
    BY <1>1 DEF Leaves
  <2>2. PICK x \in {Idle, [Idle EXCEPT !.phase = "down"]} : work' = [work EXCEPT ![w] = x]
    BY <1>1 DEF Leaves
  <2>3. x.job = 0
    <3>1. CASE x = Idle
      BY <3>1 DEF Idle
    <3>2. CASE x = [Idle EXCEPT !.phase = "down"]
      BY <3>2 DEF Idle
    <3>3. QED
      BY <2>2, <3>1, <3>2
  <2>4. work'[w].job = 0 /\ \A v \in Workers : v # w => work'[v] = work[v]
    BY <2>2, <2>3, HoldUnfolded
  <2>5. CASE jobs' = jobs
    BY <2>1, <2>4, <2>5
  <2>6. CASE InHand(w) /\ \E row \in Job : /\ Ends(w, row)
                                          /\ jobs' = [jobs EXCEPT ![work[w].job] = row]
    <3>1. work[w].job \in Jobs /\ JobOf(w) = jobs[work[w].job]
          /\ jobs[work[w].job].status = "leased" /\ jobs \in [Jobs -> Job]
      BY <2>6, HoldUnfolded
    <3>2. QED
      BY <2>1, <2>4, <2>6, <3>1 DEF Ends
  <2>7. QED
    BY <1>1, <2>5, <2>6 DEF Leaves
<1>2. CASE ReleaseReads(w)
  <2>1. work[w] = Idle /\ work \in [Workers -> Work] /\ Idle.job = 0
    BY <1>2, HoldUnfolded DEF ReleaseReads, IdleIsClean, Idle
  <2>2. QED
    BY <1>2, <2>1 DEF ReleaseReads, Work
<1>3. CASE ReleaseWrites(w)
  <2>1. work' = [work EXCEPT ![w] = Idle] /\ Idle.job = 0
    BY <1>3 DEF ReleaseWrites, Idle
  <2>2. \A j \in work[w].stale : jobs[j].status = "leased"
    BY HoldUnfolded DEF StaleIsNobodys
  <2>3. ASSUME NEW j \in Jobs
        PROVE  /\ jobs'[j].status = "none" <=> jobs[j].status = "none"
               /\ jobs'[j].attempts = jobs[j].attempts
               /\ jobs'[j].kind = jobs[j].kind
               /\ jobs'[j].response = jobs[j].response
    <3> DEFINE row == [jobs[j] EXCEPT !.status = "queued", !.leasedUntil = 0]
    <3>1. /\ row.status = "queued" /\ row.attempts = jobs[j].attempts
          /\ row.kind = jobs[j].kind /\ row.response = jobs[j].response
      BY HoldUnfolded DEF Job
    <3>2. jobs'[j] = IF j \in work[w].stale THEN row ELSE jobs[j]
      BY <1>3 DEF ReleaseWrites
    <3> HIDE DEF row
    <3>3. CASE j \in work[w].stale
      BY <2>2, <3>1, <3>2, <3>3
    <3>4. CASE j \notin work[w].stale
      BY <3>2, <3>4
    <3>5. QED
      BY <3>3, <3>4
  <2>4. QED
    BY <1>3, <2>1, <2>3, HoldUnfolded DEF ReleaseWrites
<1>4. QED
  BY <1>1, <1>2, <1>3

LEMMA ClaimedJob ==
  ASSUME HoldInv, NEW w \in Workers, ClaimJob(w)
  PROVE  /\ UNCHANGED <<documents, rows, newest, calls>>
         /\ \A v \in Workers : v # w => work'[v] = work[v]
         /\ work[w] = Idle
         /\ \E j \in Jobs :
              /\ jobs[j].status # "none"
              /\ jobs'[j].status = "leased" /\ jobs'[j].attempts = jobs[j].attempts + 1
              /\ jobs'[j].kind = jobs[j].kind /\ jobs'[j].response = jobs[j].response
              /\ \A i \in Jobs : i # j => jobs'[i] = jobs[i]
              /\ work'[w].job = j /\ work'[w].phase = jobs[j].kind
              /\ work'[w].todo = Cited(jobs[j].response)
              /\ work'[w].cut = FALSE /\ work'[w].waits = FALSE
              /\ \A v \in Workers : work[v].job # j
<1>1. PICK j \in Due :
        /\ jobs' = [jobs EXCEPT ![j].status = "leased", ![j].attempts = @ + 1,
                                ![j].leasedUntil = clock + Lease]
        /\ work' = [work EXCEPT ![w].job = j, ![w].phase = jobs[j].kind,
                                ![w].start = clock, ![w].last = clock,
                                ![w].todo = Cited(jobs[j].response)]
  BY DEF ClaimJob
<1>2. /\ work[w] = Idle /\ work \in [Workers -> Work] /\ jobs \in [Jobs -> Job]
      /\ UNCHANGED <<documents, rows, newest, calls>>
  BY HoldUnfolded DEF IdleIsClean, ClaimJob
<1>3. /\ j \in Jobs /\ jobs[j] \in Job /\ jobs[j].status \in {"queued", "deferred"} /\ j # 0
      /\ \A v \in Workers : InHand(v) => work[v].job # j
  BY HoldUnfolded, Constants DEF Due, Jobs
<1>4. \A v \in Workers : work[v].job # j
  BY <1>3 DEF InHand
<1>5. /\ jobs'[j].status = "leased" /\ jobs'[j].attempts = jobs[j].attempts + 1
      /\ jobs'[j].kind = jobs[j].kind /\ jobs'[j].response = jobs[j].response
      /\ \A i \in Jobs : i # j => jobs'[i] = jobs[i]
  BY <1>1, <1>2, <1>3 DEF Job
<1>6. /\ work'[w].job = j /\ work'[w].phase = jobs[j].kind
      /\ work'[w].todo = Cited(jobs[j].response)
      /\ work'[w].cut = work[w].cut /\ work'[w].waits = work[w].waits
      /\ \A v \in Workers : v # w => work'[v] = work[v]
  BY <1>1, <1>2 DEF Work
<1>7. Idle.cut = FALSE /\ Idle.waits = FALSE
  BY DEF Idle
<1>8. QED
  BY <1>2, <1>3, <1>4, <1>5, <1>6, <1>7
LEMMA VerdictStep ==
  ASSUME HoldInv, VerdictInv, [Next]_vars
  PROVE  VerdictInv'
<1>0. \A w \in Workers : Unwritten(w)
  BY DEF VerdictInv
<1>1. CASE \E w \in Workers :
             WithinJob(w) /\ \/ CaptureEnds(w) \/ ChecksEnd(w)
                             \/ \E c \in Citations :
                                  \/ CaptureUrl(w, c) \/ SkipCitation(w, c)
                                  \/ CheckQuote(w, c) \/ ArchiveUnavailable(w, c)
                                  \/ JudgeForFree(w, c) \/ JudgeCalls(w, c)
                                  \/ JudgeReplies(w, c)
  BY <1>1, WithinKeepsVerdicts
<1>2. ASSUME NEW w \in Workers, Leaves(w) \/ ReleaseReads(w) \/ ReleaseWrites(w)
      PROVE  VerdictInv'
  <2>1. /\ UNCHANGED <<rows, newest>>
        /\ \A j \in Jobs : /\ jobs'[j].status = "none" <=> jobs[j].status = "none"
                           /\ jobs'[j].attempts = jobs[j].attempts
        /\ \A v \in Workers : v # w => work'[v] = work[v]
        /\ work'[w].job = 0
    BY <1>2, OtherJobs
  <2>2. \A v \in Workers : InHand(v) => jobs'[work[v].job].attempts = jobs[work[v].job].attempts
    BY <2>1, HoldUnfolded
  <2>3. \A v \in Workers : v # w => Unwritten(v)'
    BY <2>1, <2>2, OthersUnwritten
  <2>4. Unwritten(w)'
    BY <2>1 DEF Unwritten, InHand
  <2>5. QED
    BY <2>1, <2>3, <2>4, QuietKeepsVerdicts DEF VerdictInv, VerdictsCounted
<1>3. ASSUME NEW w \in Workers, ClaimJob(w) PROVE VerdictInv'
  <2>1. /\ UNCHANGED <<rows, newest>>
        /\ \A v \in Workers : v # w => work'[v] = work[v]
    BY <1>3, ClaimedJob
  <2>2. PICK j \in Jobs :
          /\ jobs[j].status # "none"
          /\ jobs'[j].status = "leased" /\ jobs'[j].attempts = jobs[j].attempts + 1
          /\ \A i \in Jobs : i # j => jobs'[i] = jobs[i]
          /\ work'[w].job = j /\ work'[w].phase = jobs[j].kind
          /\ \A v \in Workers : work[v].job # j
    BY <1>3, ClaimedJob
  <2>3. jobs[j].attempts \in Nat /\ jobs[j].kind \in {"capture", "judge"}
    BY HoldUnfolded DEF Job
  <2>4. Unwritten(w)'
    <3>1. jobs'[j].attempts = 1 => \A c \in Citations : rows[j][c] = 0
      <4>1. \A c \in Citations : rows[j][c] \in Nat
        BY HoldUnfolded DEF TypeOK
      <4>2. QED
        BY <2>2, <2>3, <4>1 DEF VerdictInv, VerdictsCounted
    <3>2. QED
      BY <2>1, <2>2, <2>3, <3>1 DEF Unwritten, JobOf
  <2>5. \A v \in Workers : v # w => Unwritten(v)'
    BY <2>1, <2>2, OthersUnwritten, HoldUnfolded
  <2>6. \A i \in Jobs : /\ jobs[i].status # "none" => jobs'[i].status # "none"
                        /\ jobs'[i].status = "none" => jobs'[i].attempts = 0
                        /\ jobs[i].attempts > 0 => jobs'[i].attempts > 0
    BY <2>2, <2>3 DEF VerdictInv, VerdictsCounted
  <2>7. QED
    BY <2>1, <2>4, <2>5, <2>6, QuietKeepsVerdicts
<1>4. ASSUME UNCHANGED <<rows, newest, jobs, work>> PROVE VerdictInv'
  <2>1. \A v \in Workers : Unwritten(v)'
    BY <1>4, OthersUnwritten
  <2>2. QED
    BY <1>4, <2>1, QuietKeepsVerdicts DEF VerdictInv, VerdictsCounted
<1>5. CASE \/ \E r \in Responses : EnqueueCapture(r)
           \/ \E k \in Clickers : \/ BulkReads(k) \/ BackfillReads(k)
                                  \/ \E r \in Responses : ButtonReads(k, r) \/ EnqueueClicked(k, r)
  <2>1. UNCHANGED <<rows, newest, work>>
    BY <1>5, RequestsKeepHold
  <2>2. CASE jobs' = jobs
    BY <1>4, <2>1, <2>2
  <2>3. CASE \E kind \in {"capture", "judge"}, r \in Responses : Insert(kind, r)
    <3>1. PICK kind \in {"capture", "judge"}, r \in Responses : Insert(kind, r)
      BY <2>3
    <3>2. PICK j \in Jobs :
            /\ jobs[j].status = "none" /\ jobs'[j] = NewJob(kind, r)
            /\ NewJob(kind, r).status = "queued"
            /\ \A i \in Jobs : i # j => jobs'[i] = jobs[i]
      BY <3>1, Arrived
    <3>3. \A v \in Workers : InHand(v) => jobs'[work[v].job] = jobs[work[v].job]
      BY <3>2, HoldUnfolded
    <3>4. \A v \in Workers : Unwritten(v)'
      BY <2>1, <3>3, OthersUnwritten
    <3>5. jobs[j].attempts = 0
      BY <3>2 DEF VerdictInv, VerdictsCounted
    <3>6. \A i \in Jobs : /\ jobs[i].status # "none" => jobs'[i].status # "none"
                          /\ jobs'[i].status = "none" => jobs'[i].attempts = 0
                          /\ jobs[i].attempts > 0 => jobs'[i].attempts > 0
      BY <3>2, <3>5 DEF VerdictInv, VerdictsCounted
    <3>7. QED
      BY <2>1, <3>4, <3>6, QuietKeepsVerdicts
  <2>4. QED
    BY <1>5, <2>2, <2>3, RequestsKeepHold
<1>6. CASE Tick
  BY <1>4, <1>6 DEF Tick
<1>7. CASE UNCHANGED vars
  BY <1>4, <1>7 DEF vars
<1>8. QED
  BY <1>1, <1>2, <1>3, <1>5, <1>6, <1>7, QueueSteps

LEMMA VerdictInit == Init => VerdictInv
<1> SUFFICES ASSUME Init PROVE VerdictInv
  OBVIOUS
<1>1. \A j \in Jobs, c \in Citations : rows[j][c] = 0 /\ newest[c] = 0
  BY DEF Init
<1>2. Cardinality(Existing) \in Nat
  <2>1. Existing \in SUBSET Jobs
    BY DEF Existing
  <2>2. QED
    BY <2>1, ExistingCounted, Constants
<1>3. \A c \in Citations : newest[c] <= Cardinality(Existing)
  <2>1. \A c \in Citations : newest[c] = 0
    BY DEF Init
  <2>2. QED
    BY <1>2, <2>1
<1>4. VerdictsCounted
  BY <1>1, <1>3, NoJobTyped DEF Init, VerdictsCounted
<1>5. OneVerdictPerJob
  BY <1>1 DEF OneVerdictPerJob
<1>6. \A w \in Workers : Unwritten(w)
  <2>1. \A w \in Workers : work[w].job = 0
    BY DEF Init, Idle
  <2>2. QED
    BY <2>1 DEF Unwritten, InHand
<1>7. QED
  BY <1>4, <1>5, <1>6 DEF VerdictInv

LEMMA VerdictAlways == ASSUME ~Overlapping PROVE Spec => [](HoldInv /\ VerdictInv)
<1>1. Init => HoldInv /\ VerdictInv
  BY HoldInit, VerdictInit
<1>2. HoldInv /\ VerdictInv /\ [Next]_vars => (HoldInv /\ VerdictInv)'
  BY HoldStep, VerdictStep
<1>3. QED
  BY <1>1, <1>2, PTL DEF Spec

\* Only a call of the judge is paid for, and the citation it is about has no verdict of the
\* job that pays.
LEMMA OnlyTheUnwrittenIsPaidFor ==
  ASSUME HoldInv, VerdictInv, [Next]_vars, NEW j \in Jobs, NEW c \in Citations,
         calls'[j][c] > calls[j][c]
  PROVE  rows[j][c] = 0
<1>0. calls \in [Jobs -> [Citations -> Nat]] /\ calls[j][c] \in Nat
  BY HoldUnfolded DEF TypeOK
<1>1. calls' # calls
  BY <1>0
<1>2. PICK w \in Workers, d \in Citations : JudgeCalls(w, d)
  <2>1. CASE \E w \in Workers : Leaves(w) \/ ReleaseReads(w) \/ ReleaseWrites(w) \/ ClaimJob(w)
    BY <1>1, <2>1 DEF Leaves, ReleaseReads, ReleaseWrites, ClaimJob
  <2>2. CASE \/ \E r \in Responses : EnqueueCapture(r)
             \/ \E k \in Clickers : \/ BulkReads(k) \/ BackfillReads(k)
                                    \/ \E r \in Responses : ButtonReads(k, r) \/ EnqueueClicked(k, r)
    BY <1>1, <2>2, RequestsKeepHold
  <2>3. CASE Tick \/ UNCHANGED vars
    BY <1>1, <2>3 DEF Tick, vars
  <2>4. CASE \E w \in Workers :
               \/ CaptureEnds(w) \/ ChecksEnd(w)
               \/ \E d \in Citations : \/ CaptureUrl(w, d) \/ SkipCitation(w, d)
                                       \/ CheckQuote(w, d) \/ ArchiveUnavailable(w, d)
                                       \/ JudgeForFree(w, d) \/ JudgeCalls(w, d)
                                       \/ JudgeReplies(w, d)
    <3>1. ASSUME NEW w \in Workers, CaptureEnds(w) \/ ChecksEnd(w) PROVE FALSE
      BY <1>1, <3>1 DEF CaptureEnds, EndCapture, ChecksEnd
    <3>2. ASSUME NEW w \in Workers, NEW d \in Citations,
                 \/ CaptureUrl(w, d) \/ SkipCitation(w, d) \/ CheckQuote(w, d)
                 \/ ArchiveUnavailable(w, d) \/ JudgeForFree(w, d) \/ JudgeReplies(w, d)
          PROVE  FALSE
      BY <1>1, <3>2 DEF CaptureUrl, SkipCitation, CheckQuote, ArchiveUnavailable, JudgeForFree,
                        JudgeReplies
    <3>3. QED
      BY <2>4, <3>1, <3>2
  <2>5. QED
    BY <2>1, <2>2, <2>3, <2>4, QueueSteps
<1>3. InHand(w)
  BY <1>2, HoldUnfolded DEF JudgeCalls, JobPhases
<1>4. j = work[w].job /\ c = d
  <2>1. work[w].job \in Jobs /\ calls' = [calls EXCEPT ![work[w].job][d] = @ + 1]
    BY <1>2, <1>3, HoldUnfolded DEF JudgeCalls
  <2>2. ASSUME j # work[w].job \/ c # d PROVE calls'[j][c] = calls[j][c]
    BY <1>0, <2>1, <2>2
  <2>3. QED
    BY <1>0, <2>2
<1>5. QED
  BY <1>2, <1>4, NotSkippedIsUnwritten DEF JudgeCalls

-----------------------------------------------------------------------------
(* The theorems on leases, verdicts and payments *)

\* A job is held by one worker and its lease outlasts what that worker does with it: the
\* lock of claim_next_job, the deadline of process_verification_job and the expiry of
\* release_expired_job_leases together, while one worker at a time releases leases.
THEOREM HeldByOne ==
  ASSUME ~Overlapping PROVE Spec => []JobHeldByOne
<1>1. HoldInv => JobHeldByOne
  BY DEF HoldInv
<1>2. QED
  BY <1>1, HoldAlways, PTL

\* A job that is interrupted and resumed, however often, writes at most one verdict on a
\* citation: job_since and has_verification_since skip what an earlier attempt committed.
THEOREM OneVerdict ==
  ASSUME ~Overlapping PROVE Spec => []OneVerdictPerJob
<1>1. VerdictInv => OneVerdictPerJob
  BY DEF VerdictInv
<1>2. QED
  BY <1>1, VerdictAlways, PTL

\* judge_citations never calls the LLM for a citation its job has already judged.
THEOREM PaidOnce ==
  ASSUME ~Overlapping PROVE Spec => NeverPaidTwice
<1>1. HoldInv /\ VerdictInv /\ [Next]_vars =>
        [\A j \in Jobs, c \in Citations : calls'[j][c] > calls[j][c] => rows[j][c] = 0]_vars
  BY OnlyTheUnwrittenIsPaidFor
<1>2. QED
  BY <1>1, VerdictAlways, PTL DEF Spec, NeverPaidTwice
-----------------------------------------------------------------------------
(* What a capture job has captured and checked, kept by every step *)

\* A capture job checks the quotes of a response itself; it has a response judged only
\* where the client has opted in.
OptedIn(r) == r \in Judged => r \in AutoVerify

\* In a capture job: what is struck off has been captured or, later, checked.
CheckedSoFar(w) ==
  InHand(w) /\ JobOf(w).kind = "capture" =>
    /\ work[w].phase = "capture" =>
         /\ ~work[w].cut /\ ~work[w].waits
         /\ \A c \in Cited(ResponseOf(w)) \ work[w].todo : documents[c] # "none"
    /\ work[w].phase # "capture" /\ ~work[w].cut =>
         \A c \in Cited(ResponseOf(w)) : documents[c] # "none"
    /\ work[w].phase \in {"quote", "judge", "reply"} /\ ~work[w].cut /\ ~work[w].waits =>
         \A c \in Cited(ResponseOf(w)) \ work[w].todo : newest[c] >= work[w].job
    /\ work[w].phase = "finish" /\ ~work[w].cut /\ ~work[w].waits /\ OptedIn(ResponseOf(w)) =>
         \A c \in Cited(ResponseOf(w)) : newest[c] >= work[w].job

\* And so has everything of a job that is done.
DoneIsCaptured ==
  \A j \in Jobs : jobs[j].kind = "capture" /\ jobs[j].status = "done" =>
    \A c \in Cited(jobs[j].response) :
      documents[c] # "none" /\ (OptedIn(jobs[j].response) => newest[c] >= j)

CaptureInv == (\A w \in Workers : CheckedSoFar(w)) /\ DoneIsCaptured

\* A document is never taken away, and a verdict never gets older.
Grows ==
  \A c \in Citations : /\ documents[c] # "none" => documents'[c] # "none"
                       /\ newest'[c] \in Nat /\ newest'[c] >= newest[c]

LEMMA CapturedStays ==
  ASSUME TypeOK, NEW w \in Workers, NEW c \in Citations, CaptureUrl(w, c)
  PROVE  Grows /\ documents'[c] # "none" /\ newest' = newest
<1>1. documents \in [Citations -> Results \cup {"none"}] /\ \A d \in Citations : newest[d] \in Nat
  BY Constants DEF TypeOK
<1>2. Answers[c] \subseteq Results /\ "none" \notin Results
  BY ResponsesAreKnown DEF Results
<1>3. PICK d \in IF documents[c] = "none" THEN Answers[c] ELSE {documents[c]} :
        documents' = [documents EXCEPT ![c] = d]
  BY DEF CaptureUrl
<1>4. d # "none"
  BY <1>2, <1>3
<1>5. documents'[c] # "none" /\ \A e \in Citations : e # c => documents'[e] = documents[e]
  BY <1>1, <1>3, <1>4
<1>6. newest' = newest
  BY DEF CaptureUrl
<1>7. QED
  BY <1>1, <1>5, <1>6 DEF Grows

LEMMA WrittenStays ==
  ASSUME HoldInv, VerdictInv, NEW w \in Workers, InHand(w), NEW c \in Citations, Write(w, c),
         UNCHANGED documents
  PROVE  Grows /\ newest'[c] >= work[w].job
<1>1. \A d \in Citations : newest'[d] = IF d = c THEN Cardinality(Existing) ELSE newest[d]
  BY HoldUnfolded, WriteTyped
<1>2. \A d \in Citations : newest[d] \in Nat /\ newest[d] <= Cardinality(Existing)
  BY HoldUnfolded, Constants DEF TypeOK, VerdictInv, VerdictsCounted
<1>3. work[w].job <= Cardinality(Existing)
  BY HeldIsCounted
<1>4. Cardinality(Existing) \in Nat /\ work[w].job \in Nat
  <2>1. Existing \in SUBSET Jobs /\ work[w].job \in Jobs
    BY HeldIsCounted DEF Existing
  <2>2. QED
    BY <2>1, ExistingCounted, Constants DEF Jobs
<1>5. QED
  BY <1>1, <1>2, <1>3, <1>4 DEF Grows

\* Where nothing is captured or written.
LEMMA StillGrows ==
  ASSUME TypeOK, UNCHANGED <<documents, newest>>
  PROVE  Grows
BY Constants DEF TypeOK, Grows

\* A worker that stays where it is loses nothing.
LEMMA StaysChecked ==
  ASSUME HoldInv, CaptureInv, Grows, NEW v \in Workers, work'[v] = work[v],
         InHand(v) => /\ jobs'[work[v].job].kind = jobs[work[v].job].kind
                      /\ jobs'[work[v].job].response = jobs[work[v].job].response
  PROVE  CheckedSoFar(v)'
<1>1. CASE ~InHand(v)
  BY <1>1 DEF CheckedSoFar, InHand
<1>2. CASE InHand(v)
  <2>1. CheckedSoFar(v) /\ work[v].job \in Nat /\ (InHand(v))' /\ (JobOf(v))' = jobs'[work[v].job]
        /\ (ResponseOf(v))' = ResponseOf(v) /\ JobOf(v).kind = (JobOf(v))'.kind
    BY <1>2, HoldUnfolded, Constants DEF CaptureInv, InHand, JobOf, ResponseOf, Jobs
  <2>2. \A c \in Cited(ResponseOf(v)) : c \in Citations /\ newest[c] \in Nat /\ newest'[c] \in Nat
    BY HoldUnfolded, CitedTyped, Constants DEF TypeOK, Grows
  <2>3. \A c \in Cited(ResponseOf(v)) :
          /\ documents[c] # "none" => documents'[c] # "none"
          /\ newest[c] >= work[v].job => newest'[c] >= work[v].job
    BY <2>1, <2>2 DEF Grows
  <2>4. QED
    BY <1>2, <2>1, <2>3 DEF CheckedSoFar
<1>3. QED
  BY <1>1, <1>2

\* Where no job becomes done.
LEMMA DoneStaysCaptured ==
  ASSUME HoldInv, CaptureInv, Grows,
         \A j \in Jobs : jobs'[j].status = "done" /\ jobs'[j].kind = "capture" =>
           /\ jobs[j].status = "done" /\ jobs[j].kind = "capture"
           /\ jobs'[j].response = jobs[j].response
  PROVE  DoneIsCaptured'
<1>1. ASSUME NEW j \in Jobs, jobs'[j].status = "done", jobs'[j].kind = "capture",
             NEW c \in Cited(jobs'[j].response)
      PROVE  documents'[c] # "none" /\ (OptedIn(jobs'[j].response) => newest'[c] >= j)
  <2>1. /\ jobs[j].status = "done" /\ jobs[j].kind = "capture"
        /\ jobs'[j].response = jobs[j].response
    BY <1>1
  <2>2. c \in Citations /\ j \in Nat /\ newest[c] \in Nat /\ newest'[c] \in Nat
    BY HoldUnfolded, CitedTyped, Constants DEF TypeOK, Jobs, Grows
  <2>3. documents[c] # "none" /\ (OptedIn(jobs[j].response) => newest[c] >= j)
    BY <1>1, <2>1 DEF CaptureInv, DoneIsCaptured
  <2>4. QED
    BY <2>1, <2>2, <2>3 DEF Grows
<1>2. QED
  BY <1>1 DEF DoneIsCaptured
\* A citation of the job is struck off, dealt with.
LEMMA StruckOffIsChecked ==
  ASSUME HoldInv, CaptureInv, NEW w \in Workers, NEW c \in Citations, Grows, UNCHANGED jobs,
         work[w].phase \in {"quote", "judge", "reply"},
         work'[w].job = work[w].job, work'[w].phase \in {"quote", "judge"},
         work'[w].todo = work[w].todo \ {c}, work'[w].cut = work[w].cut,
         work[w].waits => work'[w].waits,
         ~work'[w].waits /\ documents[c] # "none" => newest'[c] >= work[w].job
  PROVE  CheckedSoFar(w)'
<1>1. InHand(w) /\ CheckedSoFar(w) /\ work[w] \in Work
  BY HoldUnfolded DEF JobPhases, CaptureInv
<1>2. /\ (InHand(w))' /\ (JobOf(w))' = JobOf(w) /\ (ResponseOf(w))' = ResponseOf(w)
      /\ work[w].job \in Nat /\ work[w].cut \in BOOLEAN /\ work[w].waits \in BOOLEAN
  BY <1>1, Constants DEF InHand, JobOf, ResponseOf, Work
<1>3. \A d \in Cited(ResponseOf(w)) :
        d \in Citations /\ newest[d] \in Nat /\ newest'[d] \in Nat
  BY HoldUnfolded, CitedTyped, Constants DEF TypeOK, Grows
<1>4. ASSUME JobOf(w).kind = "capture", ~work[w].cut, NEW d \in Cited(ResponseOf(w))
      PROVE  /\ documents[d] # "none" /\ documents'[d] # "none"
             /\ ~work'[w].waits /\ d \notin work'[w].todo => newest'[d] >= work[w].job
  <2>1. documents[d] # "none" /\ documents'[d] # "none"
    BY <1>1, <1>3, <1>4 DEF CheckedSoFar, Grows
  <2>2. ASSUME ~work'[w].waits, d \notin work[w].todo PROVE newest'[d] >= work[w].job
    <3>1. ~work[w].waits
      BY <1>2, <2>2
    <3>2. newest[d] >= work[w].job
      BY <1>1, <1>4, <2>2, <3>1 DEF CheckedSoFar
    <3>3. QED
      BY <1>2, <1>3, <3>2 DEF Grows
  <2>3. QED
    BY <2>1, <2>2
<1>5. QED
  BY <1>2, <1>4 DEF CheckedSoFar

LEMMA CaptureUrlIsChecked ==
  ASSUME HoldInv, CaptureInv, NEW w \in Workers, NEW c \in Citations, CaptureUrl(w, c)
  PROVE  Grows /\ CheckedSoFar(w)'
<1>1. /\ InHand(w) /\ CheckedSoFar(w) /\ work \in [Workers -> Work] /\ work[w] \in Work
      /\ work[w].phase = "capture"
  BY HoldUnfolded DEF JobPhases, CaptureInv, CaptureUrl
<1>2. Grows /\ documents'[c] # "none"
  BY HoldUnfolded, CapturedStays
<1>3. /\ jobs' = jobs /\ work'[w].job = work[w].job /\ work'[w].phase = "capture"
      /\ work'[w].todo = work[w].todo \ {c} /\ work'[w].cut = work[w].cut
      /\ work'[w].waits = work[w].waits
  BY <1>1 DEF CaptureUrl, Work
<1>4. (InHand(w))' /\ (JobOf(w))' = JobOf(w) /\ (ResponseOf(w))' = ResponseOf(w)
  BY <1>1, <1>3 DEF InHand, JobOf, ResponseOf
<1>5. Cited(ResponseOf(w)) \subseteq Citations
  BY CitedTyped
<1>6. ASSUME JobOf(w).kind = "capture", NEW d \in Cited(ResponseOf(w)) \ (work[w].todo \ {c})
      PROVE  documents'[d] # "none"
  BY <1>1, <1>2, <1>5, <1>6 DEF CheckedSoFar, Grows
<1>7. QED
  BY <1>1, <1>2, <1>3, <1>4, <1>6 DEF CheckedSoFar

LEMMA CaptureEndIsChecked ==
  ASSUME HoldInv, CaptureInv, NEW w \in Workers, CaptureEnds(w)
  PROVE  CheckedSoFar(w)'
<1>1. /\ InHand(w) /\ CheckedSoFar(w) /\ work \in [Workers -> Work] /\ work[w] \in Work
      /\ work[w].phase = "capture" /\ (work[w].todo = {} \/ ~InCaptureBudget(w))
  BY HoldUnfolded DEF JobPhases, CaptureInv, CaptureEnds, EndCapture
<1>2. /\ jobs' = jobs /\ documents' = documents /\ newest' = newest
      /\ work'[w].job = work[w].job /\ work'[w].phase = AfterCapture(w)
      /\ work'[w].todo = Cited(ResponseOf(w)) /\ work'[w].cut = ~InCaptureBudget(w)
      /\ work'[w].waits = work[w].waits
  BY <1>1 DEF CaptureEnds, EndCapture, Work
<1>3. (InHand(w))' /\ (JobOf(w))' = JobOf(w) /\ (ResponseOf(w))' = ResponseOf(w)
  BY <1>1, <1>2 DEF InHand, JobOf, ResponseOf
<1>4. /\ AfterCapture(w) \in {"quote", "judge", "finish"}
      /\ AfterCapture(w) = "finish" => ~OptedIn(ResponseOf(w))
  BY DEF AfterCapture, OptedIn
<1>5. ASSUME JobOf(w).kind = "capture", ~work'[w].cut, NEW c \in Cited(ResponseOf(w))
      PROVE  documents[c] # "none"
  <2>1. work[w].todo = {}
    BY <1>1, <1>2, <1>5
  <2>2. QED
    BY <1>1, <1>5, <2>1 DEF CheckedSoFar
<1>6. QED
  BY <1>2, <1>3, <1>4, <1>5 DEF CheckedSoFar

LEMMA ChecksEndIsChecked ==
  ASSUME HoldInv, CaptureInv, NEW w \in Workers, ChecksEnd(w)
  PROVE  CheckedSoFar(w)'
<1>1. /\ InHand(w) /\ CheckedSoFar(w) /\ work \in [Workers -> Work] /\ work[w] \in Work
      /\ work[w].phase \in {"quote", "judge"}
  BY HoldUnfolded DEF JobPhases, CaptureInv, ChecksEnd
<1>2. /\ jobs' = jobs /\ documents' = documents /\ newest' = newest
      /\ work'[w].job = work[w].job /\ work'[w].phase = "finish"
      /\ work'[w].cut = (work[w].cut \/ work[w].todo # {})
      /\ work'[w].waits = work[w].waits
  BY <1>1 DEF ChecksEnd, Work
<1>3. (InHand(w))' /\ (JobOf(w))' = JobOf(w) /\ (ResponseOf(w))' = ResponseOf(w)
  BY <1>1, <1>2 DEF InHand, JobOf, ResponseOf
<1>4. ~work'[w].cut => ~work[w].cut /\ work[w].todo = {}
  BY <1>2
<1>5. QED
  BY <1>1, <1>2, <1>3, <1>4 DEF CheckedSoFar

LEMMA CallIsChecked ==
  ASSUME HoldInv, CaptureInv, NEW w \in Workers, NEW c \in Citations, JudgeCalls(w, c)
  PROVE  CheckedSoFar(w)'
<1>1. /\ InHand(w) /\ CheckedSoFar(w) /\ work \in [Workers -> Work] /\ work[w] \in Work
      /\ work[w].phase = "judge"
  BY HoldUnfolded DEF JobPhases, CaptureInv, JudgeCalls
<1>2. /\ jobs' = jobs /\ documents' = documents /\ newest' = newest
      /\ work'[w].job = work[w].job /\ work'[w].phase = "reply" /\ work'[w].cut = work[w].cut
      /\ work'[w].todo = work[w].todo /\ work'[w].waits = work[w].waits
  BY <1>1 DEF JudgeCalls, Work
<1>3. (InHand(w))' /\ (JobOf(w))' = JobOf(w) /\ (ResponseOf(w))' = ResponseOf(w)
  BY <1>1, <1>2 DEF InHand, JobOf, ResponseOf
<1>4. QED
  BY <1>1, <1>2, <1>3 DEF CheckedSoFar

LEMMA CheckIsChecked ==
  ASSUME HoldInv, VerdictInv, CaptureInv, NEW w \in Workers, NEW c \in Citations,
         \/ SkipCitation(w, c) \/ CheckQuote(w, c) \/ ArchiveUnavailable(w, c)
         \/ JudgeForFree(w, c) \/ JudgeReplies(w, c)
  PROVE  Grows /\ CheckedSoFar(w)'
<1>1. /\ work \in [Workers -> Work] /\ work[w] \in Work /\ TypeOK
      /\ \A d \in Citations : newest[d] \in Nat
  BY HoldUnfolded, Constants DEF TypeOK
<1>2. CASE SkipCitation(w, c)
  <2>1. /\ UNCHANGED <<jobs, documents, newest>> /\ work[w].phase \in {"quote", "judge"}
        /\ work'[w].job = work[w].job /\ work'[w].phase = work[w].phase
        /\ work'[w].todo = work[w].todo \ {c} /\ work'[w].cut = work[w].cut
        /\ work'[w].waits = work[w].waits
    BY <1>1, <1>2 DEF SkipCitation, Work
  <2>2. documents[c] # "none" => newest'[c] >= work[w].job
    BY <1>2, <2>1 DEF SkipCitation, Skipped, AlreadyVerified
  <2>3. QED
    BY <1>1, <2>1, <2>2, StillGrows, StruckOffIsChecked
<1>3. CASE ArchiveUnavailable(w, c)
  <2>1. /\ UNCHANGED <<jobs, documents, newest>> /\ work[w].phase = "quote"
        /\ work'[w].job = work[w].job /\ work'[w].phase = work[w].phase
        /\ work'[w].todo = work[w].todo \ {c} /\ work'[w].cut = work[w].cut
        /\ work'[w].waits = TRUE
    BY <1>1, <1>3 DEF ArchiveUnavailable, Work
  <2>2. QED
    BY <1>1, <2>1, StillGrows, StruckOffIsChecked
<1>4. CASE CheckQuote(w, c) \/ JudgeForFree(w, c)
  <2>1. /\ UNCHANGED <<jobs, documents>> /\ work[w].phase \in {"quote", "judge"} /\ Write(w, c)
        /\ work'[w].job = work[w].job /\ work'[w].phase = work[w].phase
        /\ work'[w].todo = work[w].todo \ {c} /\ work'[w].cut = work[w].cut
        /\ work'[w].waits = work[w].waits
    <3>1. CASE CheckQuote(w, c)
      BY <1>1, <3>1 DEF CheckQuote, Work
    <3>2. CASE JudgeForFree(w, c)
      BY <1>1, <3>2 DEF JudgeForFree, Work
    <3>3. QED
      BY <1>4, <3>1, <3>2
  <2>2. InHand(w)
    BY <2>1, HoldUnfolded DEF JobPhases
  <2>3. Grows /\ newest'[c] >= work[w].job
    BY <2>1, <2>2, WrittenStays
  <2>4. QED
    BY <2>1, <2>3, StruckOffIsChecked
<1>5. CASE JudgeReplies(w, c)
  <2>1. /\ UNCHANGED <<jobs, documents>> /\ work[w].phase = "reply" /\ Write(w, c)
        /\ work'[w].job = work[w].job /\ work'[w].phase = "judge"
        /\ work'[w].todo = work[w].todo \ {c} /\ work'[w].cut = work[w].cut
        /\ work'[w].waits = work[w].waits
    BY <1>1, <1>5 DEF JudgeReplies, Work
  <2>2. InHand(w)
    BY <2>1, HoldUnfolded DEF JobPhases
  <2>3. Grows /\ newest'[c] >= work[w].job
    BY <2>1, <2>2, WrittenStays
  <2>4. QED
    BY <2>1, <2>3, StruckOffIsChecked
<1>6. QED
  BY <1>2, <1>3, <1>4, <1>5
\* A step that only one worker takes, within its job.
LEMMA OneWorkerMoves ==
  ASSUME HoldInv, CaptureInv, NEW w \in Workers, Grows, UNCHANGED jobs, CheckedSoFar(w)',
         \A v \in Workers : v # w => work'[v] = work[v]
  PROVE  CaptureInv'
<1>1. \A v \in Workers : CheckedSoFar(v)'
  BY StaysChecked
<1>2. DoneIsCaptured'
  BY DoneStaysCaptured
<1>3. QED
  BY <1>1, <1>2 DEF CaptureInv

LEMMA WithinKeepsCapture ==
  ASSUME HoldInv, VerdictInv, CaptureInv, NEW w \in Workers, WithinJob(w),
         \/ CaptureEnds(w) \/ ChecksEnd(w)
         \/ \E c \in Citations : \/ CaptureUrl(w, c) \/ SkipCitation(w, c) \/ CheckQuote(w, c)
                                 \/ ArchiveUnavailable(w, c) \/ JudgeForFree(w, c)
                                 \/ JudgeCalls(w, c) \/ JudgeReplies(w, c)
  PROVE  CaptureInv'
<1>1. UNCHANGED jobs /\ \A v \in Workers : v # w => work'[v] = work[v]
  BY HoldUnfolded DEF WithinJob
<1>2. Grows /\ CheckedSoFar(w)'
  <2>1. CASE CaptureEnds(w)
    <3>1. UNCHANGED <<documents, newest>>
      BY <2>1 DEF CaptureEnds, EndCapture
    <3>2. QED
      BY <2>1, <3>1, HoldUnfolded, StillGrows, CaptureEndIsChecked
  <2>2. CASE ChecksEnd(w)
    <3>1. UNCHANGED <<documents, newest>>
      BY <2>2 DEF ChecksEnd
    <3>2. QED
      BY <2>2, <3>1, HoldUnfolded, StillGrows, ChecksEndIsChecked
  <2>3. ASSUME NEW c \in Citations, JudgeCalls(w, c) PROVE Grows /\ CheckedSoFar(w)'
    <3>1. UNCHANGED <<documents, newest>>
      BY <2>3 DEF JudgeCalls
    <3>2. QED
      BY <2>3, <3>1, HoldUnfolded, StillGrows, CallIsChecked
  <2>4. QED
    BY <2>1, <2>2, <2>3, CaptureUrlIsChecked, CheckIsChecked
<1>3. QED
  BY <1>1, <1>2, OneWorkerMoves

\* Only a capture job that was captured and checked to the end is recorded as done.
LEMMA LeavingKeepsCapture ==
  ASSUME HoldInv, CaptureInv, NEW w \in Workers, Leaves(w)
  PROVE  CaptureInv'
<1>1. /\ UNCHANGED <<documents, newest>> /\ work'[w].job = 0
      /\ \A j \in Jobs : jobs'[j].kind = jobs[j].kind /\ jobs'[j].response = jobs[j].response
      /\ \A v \in Workers : v # w => work'[v] = work[v]
  BY OtherJobs
<1>2. Grows
  BY <1>1, HoldUnfolded, StillGrows
<1>3. CheckedSoFar(w)'
  BY <1>1 DEF CheckedSoFar, InHand
<1>4. \A v \in Workers : v # w => CheckedSoFar(v)'
  BY <1>1, <1>2, StaysChecked, HoldUnfolded
<1>5. DoneIsCaptured'
  <2>1. CASE \A j \in Jobs : jobs'[j].status = "done" => jobs[j].status = "done"
    BY <1>1, <1>2, <2>1, DoneStaysCaptured
  <2>2. CASE \E j \in Jobs : jobs'[j].status = "done" /\ jobs[j].status # "done"
    <3>1. jobs' # jobs
      BY <2>2
    <3>2. PICK row \in Job : InHand(w) /\ Ends(w, row) /\ jobs' = [jobs EXCEPT ![work[w].job] = row]
      BY <3>1 DEF Leaves
    <3>3. /\ work[w].job \in Jobs /\ jobs \in [Jobs -> Job] /\ CheckedSoFar(w)
          /\ JobOf(w) = jobs[work[w].job]
      BY <3>2, HoldUnfolded DEF CaptureInv
    <3>4. \A j \in Jobs : jobs'[j] = IF j = work[w].job THEN row ELSE jobs[j]
      BY <3>2, <3>3
    <3>5. row.status = "done"
      BY <2>2, <3>4
    <3>6. work[w].phase = "finish" /\ ~work[w].cut /\ ~work[w].waits
      BY <3>2, <3>5 DEF Ends
    <3>7. ASSUME NEW j \in Jobs, jobs'[j].kind = "capture", jobs'[j].status = "done",
                 NEW c \in Cited(jobs'[j].response)
          PROVE  documents'[c] # "none" /\ (OptedIn(jobs'[j].response) => newest'[c] >= j)
      <4>1. CASE j = work[w].job
        <5>1. JobOf(w).kind = "capture" /\ jobs'[j].response = ResponseOf(w)
          BY <1>1, <3>3, <3>7, <4>1 DEF ResponseOf
        <5>2. QED
          BY <1>1, <3>2, <3>3, <3>6, <3>7, <4>1, <5>1 DEF CheckedSoFar
      <4>2. CASE j # work[w].job
        BY <1>1, <3>4, <3>7, <4>2 DEF CaptureInv, DoneIsCaptured
      <4>3. QED
        BY <4>1, <4>2
    <3>8. QED
      BY <3>7 DEF DoneIsCaptured
  <2>3. QED
    BY <2>1, <2>2
<1>6. QED
  BY <1>3, <1>4, <1>5 DEF CaptureInv

LEMMA CaptureStep ==
  ASSUME HoldInv, VerdictInv, CaptureInv, [Next]_vars
  PROVE  CaptureInv'
<1>1. CASE \E w \in Workers :
             WithinJob(w) /\ \/ CaptureEnds(w) \/ ChecksEnd(w)
                             \/ \E c \in Citations :
                                  \/ CaptureUrl(w, c) \/ SkipCitation(w, c)
                                  \/ CheckQuote(w, c) \/ ArchiveUnavailable(w, c)
                                  \/ JudgeForFree(w, c) \/ JudgeCalls(w, c)
                                  \/ JudgeReplies(w, c)
  BY <1>1, WithinKeepsCapture
<1>2. CASE \E w \in Workers : Leaves(w)
  BY <1>2, LeavingKeepsCapture
<1>3. ASSUME NEW w \in Workers, ReleaseReads(w) \/ ReleaseWrites(w) PROVE CaptureInv'
  <2>1. /\ UNCHANGED <<documents, newest>> /\ work'[w].job = 0
        /\ \A j \in Jobs : jobs'[j].kind = jobs[j].kind /\ jobs'[j].response = jobs[j].response
        /\ \A v \in Workers : v # w => work'[v] = work[v]
    BY <1>3, OtherJobs
  <2>2. \A j \in Jobs : jobs'[j].status = "done" => jobs[j].status = "done"
    <3>1. CASE ReleaseReads(w)
      BY <3>1 DEF ReleaseReads
    <3>2. CASE ReleaseWrites(w)
      <4>1. ASSUME NEW j \in Jobs, jobs'[j].status = "done" PROVE jobs[j].status = "done"
        <5>1. jobs[j] \in Job
          BY HoldUnfolded
        <5>2. [jobs[j] EXCEPT !.status = "queued", !.leasedUntil = 0].status # "done"
          BY <5>1 DEF Job
        <5>3. QED
          BY <3>2, <4>1, <5>2 DEF ReleaseWrites
      <4>2. QED
        BY <4>1
    <3>3. QED
      BY <1>3, <3>1, <3>2
  <2>3. Grows
    BY <2>1, HoldUnfolded, StillGrows
  <2>4. CheckedSoFar(w)' /\ \A v \in Workers : v # w => CheckedSoFar(v)'
    BY <2>1, <2>3, StaysChecked, HoldUnfolded DEF CheckedSoFar, InHand
  <2>5. DoneIsCaptured'
    BY <2>1, <2>2, <2>3, DoneStaysCaptured
  <2>6. QED
    BY <2>4, <2>5 DEF CaptureInv
<1>4. ASSUME NEW w \in Workers, ClaimJob(w) PROVE CaptureInv'
  <2>1. UNCHANGED <<documents, newest>> /\ \A v \in Workers : v # w => work'[v] = work[v]
    BY <1>4, ClaimedJob
  <2>2. PICK j \in Jobs :
          /\ jobs'[j].status = "leased"
          /\ jobs'[j].kind = jobs[j].kind /\ jobs'[j].response = jobs[j].response
          /\ \A i \in Jobs : i # j => jobs'[i] = jobs[i]
          /\ work'[w].job = j /\ work'[w].phase = jobs[j].kind
          /\ work'[w].todo = Cited(jobs[j].response)
          /\ work'[w].cut = FALSE /\ work'[w].waits = FALSE
    BY <1>4, ClaimedJob
  <2>3. Grows
    BY <2>1, HoldUnfolded, StillGrows
  <2>4. CheckedSoFar(w)'
    <3>1. (JobOf(w))' = jobs'[j] /\ (ResponseOf(w))' = jobs[j].response
      BY <2>2 DEF JobOf, ResponseOf
    <3>2. QED
      BY <2>1, <2>2, <3>1 DEF CheckedSoFar
  <2>5. \A i \in Jobs : jobs'[i].kind = jobs[i].kind /\ jobs'[i].response = jobs[i].response
    BY <2>2
  <2>6. \A v \in Workers : v # w => CheckedSoFar(v)'
    BY <2>1, <2>3, <2>5, StaysChecked, HoldUnfolded
  <2>7. \A i \in Jobs : jobs'[i].status = "done" => jobs[i].status = "done"
    BY <2>2
  <2>8. DoneIsCaptured'
    BY <2>3, <2>5, <2>7, DoneStaysCaptured
  <2>9. QED
    BY <2>4, <2>6, <2>8 DEF CaptureInv
<1>5. ASSUME UNCHANGED <<documents, newest, jobs, work>> PROVE CaptureInv'
  <2>1. Grows
    BY <1>5, HoldUnfolded, StillGrows
  <2>2. QED
    BY <1>5, <2>1, StaysChecked, DoneStaysCaptured DEF CaptureInv
<1>6. CASE \/ \E r \in Responses : EnqueueCapture(r)
           \/ \E k \in Clickers : \/ BulkReads(k) \/ BackfillReads(k)
                                  \/ \E r \in Responses : ButtonReads(k, r) \/ EnqueueClicked(k, r)
  <2>1. UNCHANGED <<documents, newest, work>>
    BY <1>6, RequestsKeepHold
  <2>2. CASE jobs' = jobs
    BY <1>5, <2>1, <2>2
  <2>3. CASE \E kind \in {"capture", "judge"}, r \in Responses : Insert(kind, r)
    <3>1. PICK kind \in {"capture", "judge"}, r \in Responses : Insert(kind, r)
      BY <2>3
    <3>2. PICK j \in Jobs :
            /\ jobs[j].status = "none" /\ jobs'[j] = NewJob(kind, r)
            /\ NewJob(kind, r).status = "queued"
            /\ \A i \in Jobs : i # j => jobs'[i] = jobs[i]
      BY <3>1, Arrived
    <3>3. \A v \in Workers : InHand(v) => jobs'[work[v].job] = jobs[work[v].job]
      BY <3>2, HoldUnfolded
    <3>4. Grows
      BY <2>1, HoldUnfolded, StillGrows
    <3>5. \A v \in Workers : CheckedSoFar(v)'
      BY <2>1, <3>3, <3>4, StaysChecked
    <3>6. \A i \in Jobs : jobs'[i].status = "done" => jobs'[i] = jobs[i]
      BY <3>2
    <3>7. DoneIsCaptured'
      BY <3>4, <3>6, DoneStaysCaptured
    <3>8. QED
      BY <3>5, <3>7 DEF CaptureInv
  <2>4. QED
    BY <1>6, <2>2, <2>3, RequestsKeepHold
<1>7. CASE Tick
  BY <1>5, <1>7 DEF Tick
<1>8. CASE UNCHANGED vars
  BY <1>5, <1>8 DEF vars
<1>9. QED
  BY <1>1, <1>2, <1>3, <1>4, <1>6, <1>7, <1>8, QueueSteps

LEMMA CaptureInit == Init => CaptureInv
<1> SUFFICES ASSUME Init PROVE CaptureInv
  OBVIOUS
<1>1. (\A w \in Workers : work[w].job = 0) /\ (\A j \in Jobs : jobs[j].status = "none")
  BY NoJobTyped DEF Init, Idle
<1>2. QED
  BY <1>1 DEF CaptureInv, CheckedSoFar, InHand, DoneIsCaptured

\* What the invariant says of finished jobs is what the queue and the dashboard promise.
LEMMA CaptureMeansChecked ==
  ASSUME HoldInv, CaptureInv
  PROVE  DoneMeansChecked
<1>1. ASSUME NEW j \in CaptureJobs(Responses), jobs[j].status = "done",
             OptedIn(jobs[j].response), NEW c \in Cited(jobs[j].response)
      PROVE  newest[c] >= j
  BY <1>1 DEF CaptureInv, DoneIsCaptured, CaptureJobs
<1>2. ASSUME \A status \in Active \cup {"error"} : QueueSnapshot["capture"][status] = 0
      PROVE  \A j \in CaptureJobs(Responses) : jobs[j].status = "done"
  <2>1. ASSUME NEW j \in Jobs, jobs[j].kind = "capture", NEW status \in Active \cup {"error"},
               jobs[j].status = status
        PROVE  FALSE
    <3> DEFINE counted == {i \in Jobs : jobs[i].kind = "capture" /\ jobs[i].status = status}
    <3>1. QueueSnapshot["capture"][status] = Cardinality(counted)
      BY <2>1 DEF QueueSnapshot, Ended, Active
    <3>2. Cardinality(counted) = 0 /\ IsFiniteSet(counted)
      BY <1>2, <3>1, ExistingCounted
    <3>3. counted = {}
      BY <3>2, FS_EmptySet
    <3>4. QED
      BY <2>1, <3>3
  <2>2. ASSUME NEW j \in CaptureJobs(Responses) PROVE jobs[j].status = "done"
    <3>1. j \in Jobs /\ jobs[j] \in Job /\ jobs[j].kind = "capture" /\ jobs[j].status # "none"
      BY HoldUnfolded DEF CaptureJobs
    <3>2. jobs[j].status \in Ended \cup Active \cup {"none"}
      BY <3>1 DEF Job
    <3>3. QED
      BY <2>1, <3>1, <3>2 DEF Ended
  <2>3. QED
    BY <2>2
<1>3. ASSUME \A status \in Active \cup {"error"} : QueueSnapshot["capture"][status] = 0,
             NEW asked, asked = {jobs[j].response : j \in CaptureJobs(Responses)}
      PROVE  "not_captured" \notin DOMAIN CaptureRows(asked)
  <2>1. ASSUME NEW c \in UNION {Cited(r) : r \in asked}
        PROVE  CaptureReason(c) # "not_captured"
    <3>1. PICK j \in CaptureJobs(Responses) : c \in Cited(jobs[j].response)
      BY <1>3, <2>1
    <3>2. j \in Jobs /\ jobs[j].kind = "capture" /\ jobs[j].status = "done"
      BY <1>2, <1>3 DEF CaptureJobs
    <3>3. documents[c] # "none" /\ c \in Citations
      BY <3>1, <3>2, CitedTyped DEF CaptureInv, DoneIsCaptured
    <3>4. documents[c] \in {"text", "gone", "failed"}
      BY <3>3, HoldUnfolded DEF TypeOK, Results
    <3>5. QED
      BY <3>4 DEF CaptureReason
  <2>2. DOMAIN CaptureRows(asked) = {CaptureReason(c) : c \in UNION {Cited(r) : r \in asked}}
    BY DEF CaptureRows
  <2>3. QED
    BY <2>1, <2>2
<1>4. QED
  BY <1>1, <1>3 DEF DoneMeansChecked, OptedIn

\* A capture job that is done has captured every source and, where the client has opted
\* in or needs no judge, checked every citation, whatever interrupted it on the way: its
\* `incomplete' and `archive_deferred' keep process_verification_job from saying done too
\* early, and the /ops breakdown (capture_success_by_reason) can rely on it.
THEOREM DoneIsChecked ==
  ASSUME ~Overlapping PROVE Spec => []DoneMeansChecked
<1>1. Init => HoldInv /\ VerdictInv /\ CaptureInv
  BY HoldInit, VerdictInit, CaptureInit
<1>2. HoldInv /\ VerdictInv /\ CaptureInv /\ [Next]_vars => (HoldInv /\ VerdictInv /\ CaptureInv)'
  BY HoldStep, VerdictStep, CaptureStep
<1>3. HoldInv /\ VerdictInv /\ CaptureInv => DoneMeansChecked
  BY CaptureMeansChecked
<1>4. QED
  BY <1>1, <1>2, <1>3, PTL DEF Spec
=============================================================================

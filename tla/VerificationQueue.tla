-------------------------- MODULE VerificationQueue --------------------------
(***************************************************************************)
(* The second queue of SignalMap's workers: jobs that capture the sources  *)
(* of a response and check its citations against them                      *)
(* (app/services/verification_queue.py, with verify_citations_by_quote and *)
(* judge_citations).  A worker takes a job when no run is due.  A job may  *)
(* take many steps, each committed on its own: one document per URL, one   *)
(* verdict per citation.  What was committed survives an exception, a      *)
(* deadline or a killed worker, and the next attempt goes on from there.   *)
(*                                                                         *)
(* A response whose provider returns quotes is checked literally; one of a *)
(* Judged provider is judged by an LLM, which costs money.                 *)
(***************************************************************************)
EXTENDS Naturals, Sequences, FiniteSets

CONSTANTS
  Workers,
  Clickers,     \* requests that ask for a judgement, and backfill commands
  Responses,
  Citations,    \* natural numbers: the order of their positions and of their rows
  CitedBy,      \* [Citations -> Responses]
  Answers,      \* [Citations -> what capturing its URL may result in]
  Judged,       \* responses of a provider in LLM_JUDGE_PROVIDERS
  AutoVerify,   \* those of a client with auto_verify_citations
  Lease,        \* DEFAULT_LEASE_MINUTES
  Backoff,      \* _BACKOFF_MINUTES
  CaptureBudget,\* MAX_JOB_SECONDS, of the capture loop
  Budget,       \* JOB_TIME_BUDGET_SECONDS, of the whole job
  Overrun,      \* the longest capture or LLM call: provider_timeout_seconds x 2
  MaxJobs,      \* bound: rows verification_jobs may get
  MaxArrival,   \* bound: jobs are asked for up to this time
  MaxClock,     \* bound: the model's horizon
  MaxFaults,    \* bound: exceptions, broken connections and killed workers
  Overlapping   \* may two workers release expired leases at the same time?

ASSUME BoundsAreNaturals ==
  /\ {Lease, CaptureBudget, Budget, Overrun, MaxJobs, MaxArrival, MaxClock, MaxFaults} \subseteq Nat
  /\ Citations \subseteq Nat /\ MaxClock # 0
  /\ Backoff \in Seq(Nat) /\ Backoff # <<>>

\* "Comfortably under the 15-minute lease so a job always defers-and-resumes well
\* before its lease could expire out from under it" (verification_queue.py:62-63).
ASSUME JobsAreShort == CaptureBudget <= Budget /\ Budget + Overrun <= Lease

\* What a capture leaves behind: a text, a page that is gone, or another failure.
Results == {"text", "gone", "failed"}

ASSUME ResponsesAreKnown ==
  /\ Responses # {}
  /\ CitedBy \in [Citations -> Responses]
  /\ Answers \in [Citations -> (SUBSET Results) \ {{}}]
  /\ AutoVerify \subseteq Judged /\ Judged \subseteq Responses

Jobs == 1..MaxJobs
MaxAttempts == Len(Backoff)
Cited(r) == {c \in Citations : CitedBy[c] = r}

VARIABLES
  clock,      \* starts at 1
  jobs,       \* [Jobs -> Job], table verification_jobs
  documents,  \* the latest source document of each citation's URL
  rows,       \* how many verdicts each job has written on each citation
  newest,     \* how many jobs existed when the newest verdict on each citation was written
  calls,      \* history: LLM calls each job has paid for each citation
  work,       \* [Workers -> Work], where each worker is
  owing,      \* recorded responses whose run has yet to enqueue their capture job
  clicked,    \* [Clickers -> Click], the jobs a request has decided to enqueue
  faults

vars == <<clock, jobs, documents, rows, newest, calls, work, owing, clicked, faults>>

Ended == {"done", "error"}
Active == {"queued", "leased", "deferred"}

Job == [status : Ended \cup Active \cup {"none"}, kind : {"capture", "judge"},
        response : Responses, due : Nat, attempts : Nat, leasedUntil : Nat]

Click == [kind : {"capture", "judge"}, todo : SUBSET Responses]
NoClick == [kind |-> "judge", todo |-> {}]

Phases == {"down", "idle", "release", "capture", "quote", "judge", "reply", "finish"}

\* start: the `now' of the pass, when the job was taken up.  last: when its latest capture
\* or check ended.  stale: the expired leases it is about to release.  cut: a budget cut
\* the pass short.  waits: archive.org could not be asked.
Work == [phase : Phases, start : Nat, last : Nat, stale : SUBSET Jobs, job : 0..MaxJobs,
         todo : SUBSET Citations, cut : BOOLEAN, waits : BOOLEAN]

TypeOK ==
  /\ clock \in 1..MaxClock
  /\ jobs \in [Jobs -> Job]
  /\ documents \in [Citations -> Results \cup {"none"}]
  /\ rows \in [Jobs -> [Citations -> Nat]]
  /\ newest \in [Citations -> 0..MaxJobs]
  /\ calls \in [Jobs -> [Citations -> Nat]]
  /\ work \in [Workers -> Work]
  /\ \A w \in Workers :
       work[w].phase \in {"capture", "quote", "judge", "reply", "finish"} <=> work[w].job # 0
  /\ owing \in SUBSET Responses
  /\ clicked \in [Clickers -> Click]
  /\ faults \in 0..MaxFaults

NoJob == [status |-> "none", kind |-> "capture", response |-> CHOOSE r \in Responses : TRUE,
          due |-> 0, attempts |-> 0, leasedUntil |-> 0]

Idle == [phase |-> "idle", start |-> 0, last |-> 0, stale |-> {}, job |-> 0,
         todo |-> {}, cut |-> FALSE, waits |-> FALSE]

Init ==
  /\ clock = 1
  /\ jobs = [j \in Jobs |-> NoJob]
  /\ documents = [c \in Citations |-> "none"]
  /\ rows = [j \in Jobs |-> [c \in Citations |-> 0]]
  /\ newest = [c \in Citations |-> 0]
  /\ calls = [j \in Jobs |-> [c \in Citations |-> 0]]
  /\ work = [w \in Workers |-> Idle]
  /\ owing = Responses
  /\ clicked = [k \in Clickers |-> NoClick]
  /\ faults = 0

-----------------------------------------------------------------------------
(* Jobs are asked for *)

NewJob(kind, r) == [NoJob EXCEPT !.status = "queued", !.kind = kind, !.response = r,
                                 !.due = clock]

Insert(kind, r) ==
  /\ clock <= MaxArrival
  /\ \E j \in Jobs :
       /\ jobs[j].status = "none"
       /\ \A i \in 1..(j - 1) : jobs[i].status # "none"
       /\ jobs' = [jobs EXCEPT ![j] = NewJob(kind, r)]

\* enqueue_capture, at the end of a successful run, after its response was committed.
EnqueueCapture(r) ==
  /\ r \in owing
  /\ Insert("capture", r)
  /\ owing' = owing \ {r}
  /\ UNCHANGED <<clock, documents, rows, newest, calls, work, clicked, faults>>

JobsOf(kind, r) == {j \in Jobs : /\ jobs[j].status # "none" /\ jobs[j].kind = kind
                                 /\ jobs[j].response = r}

LatestJudgeIsActive(r) ==
  \E j \in JobsOf("judge", r) : jobs[j].status \in Active /\ \A i \in JobsOf("judge", r) : i <= j

Decides(k, kind, rs) ==
  /\ clicked[k] = NoClick /\ rs # {}
  /\ clock <= MaxArrival
  /\ clicked' = [clicked EXCEPT ![k] = [kind |-> kind, todo |-> rs]]
  /\ UNCHANGED <<clock, jobs, documents, rows, newest, calls, work, owing, faults>>

\* verify_run_citations: the button looks at the latest judge job.
ButtonReads(k, r) ==
  /\ r \in Judged /\ ~LatestJudgeIsActive(r)
  /\ Decides(k, "judge", {r})

\* A verdict that an LLM call stands behind, parsed or not.
JudgedBefore(r) == \E c \in Cited(r), j \in Jobs : calls[j][c] > 0 /\ rows[j][c] > 0

\* verify_retroactively_confirm: responses with any job in progress or with a verdict of
\* the judge are left out.
BulkReads(k) ==
  Decides(k, "judge", {r \in Judged : /\ \A j \in Jobs : jobs[j].response = r
                                                            => jobs[j].status \notin Active
                                      /\ ~JudgedBefore(r)})

\* run_backfill: the responses without a capture job, in whatever state; one whose run is
\* just ending is among them.
BackfillReads(k) ==
  Decides(k, "capture", {r \in Responses : Cited(r) # {} /\ JobsOf("capture", r) = {}})

\* Each insertion is committed on its own.
EnqueueClicked(k, r) ==
  /\ r \in clicked[k].todo
  /\ Insert(clicked[k].kind, r)
  /\ clicked' = [clicked EXCEPT ![k] = IF clicked[k].todo = {r} THEN NoClick
                                       ELSE [clicked[k] EXCEPT !.todo = @ \ {r}]]
  /\ UNCHANGED <<clock, documents, rows, newest, calls, work, owing, faults>>

-----------------------------------------------------------------------------
(* A pass of the worker: maintenance, then a job *)

\* Passes that find nothing to do change nothing and are left out, and no time passes
\* between a pass's `now' and its claim.  Maintenance is due once a minute, so leases are
\* released before some claims and not before others.

Expired(j) == jobs[j].status = "leased" /\ jobs[j].leasedUntil < clock

\* release_expired_job_leases reads the stale jobs ...
ReleaseReads(w) ==
  /\ work[w].phase = "idle" /\ \E j \in Jobs : Expired(j)
  /\ Overlapping \/ \A v \in Workers : work[v].stale = {}
  /\ work' = [work EXCEPT ![w].phase = "release", ![w].stale = {j \in Jobs : Expired(j)}]
  /\ UNCHANGED <<clock, jobs, documents, rows, newest, calls, owing, clicked, faults>>

\* ... and writes them back by id, whatever has become of them.
ReleaseWrites(w) ==
  /\ work[w].phase = "release"
  /\ jobs' = [j \in Jobs |-> IF j \in work[w].stale
                             THEN [jobs[j] EXCEPT !.status = "queued", !.leasedUntil = 0]
                             ELSE jobs[j]]
  /\ work' = [work EXCEPT ![w] = Idle]
  /\ UNCHANGED <<clock, documents, rows, newest, calls, owing, clicked, faults>>

Due == {j \in Jobs : jobs[j].status \in {"queued", "deferred"} /\ jobs[j].due <= clock}

\* claim_next_job, under FOR UPDATE SKIP LOCKED, and the start of process_verification_job.
ClaimJob(w) ==
  /\ work[w].phase = "idle"
  /\ \E j \in Due :
       /\ \A i \in Due : jobs[j].due <= jobs[i].due
       /\ jobs' = [jobs EXCEPT ![j].status = "leased", ![j].attempts = @ + 1,
                               ![j].leasedUntil = clock + Lease]
       /\ work' = [work EXCEPT ![w].job = j, ![w].phase = jobs[j].kind,
                               ![w].start = clock, ![w].last = clock,
                               ![w].todo = Cited(jobs[j].response)]
  /\ UNCHANGED <<clock, documents, rows, newest, calls, owing, clicked, faults>>

-----------------------------------------------------------------------------
(* process_verification_job *)

\* The loops go through the citations in order.
IsNext(w, c) == c \in work[w].todo /\ \A d \in work[w].todo : c <= d

JobOf(w) == jobs[work[w].job]
ResponseOf(w) == JobOf(w).response
LastAttempt(w) == JobOf(w).attempts >= MaxAttempts

\* Mutant: no deadline, as before the second review round.
InBudget_Always(w) == TRUE

\* The deadline is looked at before each citation, when the one before it is done.
InBudget(w) == work[w].last <= work[w].start + Budget

InCaptureBudget(w) == work[w].last <= work[w].start + CaptureBudget

AfterCapture(w) ==
  IF ResponseOf(w) \notin Judged THEN "quote"
  ELSE IF ResponseOf(w) \in AutoVerify THEN "judge" ELSE "finish"

\* capture_url always stores a document; for a day it returns the one it has.
CaptureUrl(w, c) ==
  /\ work[w].phase = "capture" /\ IsNext(w, c)
  /\ InCaptureBudget(w)
  /\ documents' \in {[documents EXCEPT ![c] = d] :
                       d \in IF documents[c] = "none" THEN Answers[c] ELSE {documents[c]}}
  /\ work' = [work EXCEPT ![w].todo = @ \ {c}, ![w].last = clock]
  /\ UNCHANGED <<clock, jobs, rows, newest, calls, owing, clicked, faults>>

EndCapture(w, cut) ==
  /\ work[w].phase = "capture"
  /\ work[w].todo = {} \/ ~InCaptureBudget(w)
  /\ work' = [work EXCEPT ![w].phase = AfterCapture(w), ![w].todo = Cited(ResponseOf(w)),
                          ![w].cut = cut]
  /\ UNCHANGED <<clock, jobs, documents, rows, newest, calls, owing, clicked, faults>>

\* Mutant: a capture loop that ran out of time counts as complete.
CaptureEnds_Quietly(w) == EndCapture(w, FALSE)

\* The loop looks at the clock after each URL, the last one too.
CaptureEnds(w) == EndCapture(w, ~InCaptureBudget(w))

\* Mutant: a retry starts from scratch.
Resumes_Never(w) == FALSE

\* job_since: the first attempt has nothing to skip.
Resumes(w) == JobOf(w).attempts > 1

\* has_verification_since: the newest verdict is younger than the job.
AlreadyVerified(w, c) == Resumes(w) /\ newest[c] >= work[w].job

Skipped(w, c) == AlreadyVerified(w, c) \/ documents[c] = "none"

SkipCitation(w, c) ==
  /\ work[w].phase \in {"quote", "judge"} /\ IsNext(w, c) /\ InBudget(w)
  /\ Skipped(w, c)
  /\ work' = [work EXCEPT ![w].todo = @ \ {c}, ![w].last = clock]
  /\ UNCHANGED <<clock, jobs, documents, rows, newest, calls, owing, clicked, faults>>

\* A verdict on c is inserted and committed.
Write(w, c) ==
  /\ rows' = [rows EXCEPT ![work[w].job][c] = @ + 1]
  /\ newest' = [newest EXCEPT ![c] = Cardinality({j \in Jobs : jobs[j].status # "none"})]

\* verify_citations_by_quote reaches a verdict, from the page or from the archive; on the
\* last attempt also when the archive cannot be asked.
CheckQuote(w, c) ==
  /\ work[w].phase = "quote" /\ IsNext(w, c) /\ InBudget(w) /\ ~Skipped(w, c)
  /\ Write(w, c)
  /\ work' = [work EXCEPT ![w].todo = @ \ {c}, ![w].last = clock]
  /\ UNCHANGED <<clock, jobs, documents, calls, owing, clicked, faults>>

\* The page is gone or has no such quote, and archive.org is unavailable.
ArchiveUnavailable(w, c) ==
  /\ work[w].phase = "quote" /\ IsNext(w, c) /\ InBudget(w) /\ ~Skipped(w, c)
  /\ documents[c] \in {"gone", "text"} /\ ~LastAttempt(w)
  /\ work' = [work EXCEPT ![w].todo = @ \ {c}, ![w].waits = TRUE,
                          ![w].last = clock]
  /\ UNCHANGED <<clock, jobs, documents, rows, newest, calls, owing, clicked, faults>>

\* judge_citations: a source that could not be captured, or that has no passage to judge
\* the claim by, is unverifiable, for free.
JudgeForFree(w, c) ==
  /\ work[w].phase = "judge" /\ IsNext(w, c) /\ InBudget(w) /\ ~Skipped(w, c)
  /\ Write(w, c)
  /\ work' = [work EXCEPT ![w].todo = @ \ {c}, ![w].last = clock]
  /\ UNCHANGED <<clock, jobs, documents, calls, owing, clicked, faults>>

\* The LLM is called; the call is paid for from here on.
JudgeCalls(w, c) ==
  /\ work[w].phase = "judge" /\ IsNext(w, c) /\ InBudget(w) /\ ~Skipped(w, c)
  /\ documents[c] = "text"
  /\ calls' = [calls EXCEPT ![work[w].job][c] = @ + 1]
  /\ work' = [work EXCEPT ![w].phase = "reply"]
  /\ UNCHANGED <<clock, jobs, documents, rows, newest, owing, clicked, faults>>

JudgeReplies(w, c) ==
  /\ work[w].phase = "reply" /\ IsNext(w, c)
  /\ Write(w, c)
  /\ work' = [work EXCEPT ![w].phase = "judge", ![w].todo = @ \ {c}, ![w].last = clock]
  /\ UNCHANGED <<clock, jobs, documents, calls, owing, clicked, faults>>

\* All citations are done, or the deadline has passed with some left.
ChecksEnd(w) ==
  /\ work[w].phase \in {"quote", "judge"}
  /\ work[w].todo = {} \/ ~InBudget(w)
  /\ work' = [work EXCEPT ![w].phase = "finish", ![w].cut = @ \/ work[w].todo # {},
                          ![w].todo = {}]
  /\ UNCHANGED <<clock, jobs, documents, rows, newest, calls, owing, clicked, faults>>

-----------------------------------------------------------------------------
(* How a pass ends *)

\* The job's status is committed, by id; the worker is free.
Leave(w, changed) ==
  /\ jobs' = [jobs EXCEPT ![work[w].job] = [changed EXCEPT !.leasedUntil = 0]]
  /\ work' = [work EXCEPT ![w] = Idle]
  /\ UNCHANGED <<clock, documents, rows, newest, calls, owing, clicked>>

Deferred(w, minutes) ==
  [JobOf(w) EXCEPT !.status = "deferred", !.due = work[w].start + minutes]

FinishCut(w) ==
  /\ work[w].phase = "finish" /\ work[w].cut
  /\ Leave(w, IF LastAttempt(w) THEN [JobOf(w) EXCEPT !.status = "error"]
                                ELSE Deferred(w, Backoff[1]))
  /\ UNCHANGED faults

FinishWaiting(w) ==
  /\ work[w].phase = "finish" /\ ~work[w].cut /\ work[w].waits
  /\ Leave(w, Deferred(w, Backoff[JobOf(w).attempts]))
  /\ UNCHANGED faults

FinishDone(w) ==
  /\ work[w].phase = "finish" /\ ~work[w].cut /\ ~work[w].waits
  /\ Leave(w, [JobOf(w) EXCEPT !.status = "done"])
  /\ UNCHANGED faults

Fault == faults < MaxFaults /\ faults' = faults + 1
InJob(w) == work[w].phase \in {"capture", "quote", "judge", "reply"}

\* An unexpected exception.
Exception(w) ==
  /\ InJob(w) /\ Fault
  /\ Leave(w, IF LastAttempt(w) THEN [JobOf(w) EXCEPT !.status = "error"]
                                ELSE Deferred(w, Backoff[JobOf(w).attempts]))

\* The failure cannot be recorded either: the job stays leased.
ConnectionBreaks(w) ==
  /\ InJob(w) /\ Fault
  /\ work' = [work EXCEPT ![w] = Idle]
  /\ UNCHANGED <<clock, jobs, documents, rows, newest, calls, owing, clicked>>

Kill(w) ==
  /\ work[w].phase \notin {"down", "idle"} /\ Fault
  /\ work' = [work EXCEPT ![w] = [Idle EXCEPT !.phase = "down"]]
  /\ UNCHANGED <<clock, jobs, documents, rows, newest, calls, owing, clicked>>

Restart(w) ==
  /\ work[w].phase = "down"
  /\ work' = [work EXCEPT ![w] = Idle]
  /\ UNCHANGED <<clock, jobs, documents, rows, newest, calls, owing, clicked, faults>>

\* Only captures and calls take time; requests do not.
Calling(w) ==
  \/ work[w].phase = "reply"
  \/ work[w].phase = "capture" /\ work[w].todo # {} /\ InCaptureBudget(w)
  \/ work[w].phase \in {"quote", "judge"} /\ work[w].todo # {} /\ InBudget(w)

Tick ==
  /\ clock < MaxClock
  /\ \A k \in Clickers : clicked[k] = NoClick
  /\ \A w \in Workers :
       \/ work[w].phase \in {"idle", "down"}
       \/ Calling(w) /\ clock < work[w].last + Overrun
  /\ clock' = clock + 1
  /\ UNCHANGED <<jobs, documents, rows, newest, calls, work, owing, clicked, faults>>

WorkerStep(w) ==
  \/ ReleaseReads(w) \/ ReleaseWrites(w) \/ ClaimJob(w)
  \/ CaptureEnds(w) \/ ChecksEnd(w)
  \/ FinishCut(w) \/ FinishWaiting(w) \/ FinishDone(w) \/ Restart(w)
  \/ \E c \in Citations :
       \/ CaptureUrl(w, c) \/ SkipCitation(w, c) \/ CheckQuote(w, c)
       \/ ArchiveUnavailable(w, c) \/ JudgeForFree(w, c) \/ JudgeCalls(w, c)
       \/ JudgeReplies(w, c)

Next ==
  \/ \E w \in Workers : WorkerStep(w) \/ Exception(w) \/ ConnectionBreaks(w) \/ Kill(w)
  \/ \E r \in Responses : EnqueueCapture(r)
  \/ \E k \in Clickers :
       \/ BulkReads(k) \/ BackfillReads(k)
       \/ \E r \in Responses : ButtonReads(k, r) \/ EnqueueClicked(k, r)
  \/ Tick

Spec == Init /\ [][Next]_vars

-----------------------------------------------------------------------------
(* What the ops dashboard shows of it *)

CaptureReason(c) ==
  CASE documents[c] = "none" -> "not_captured"
    [] documents[c] = "text" -> "success"
    [] OTHER -> documents[c]

\* capture_success_by_reason of some responses: their URLs, by the latest capture of each.
CaptureRows(rs) ==
  LET urls == UNION {Cited(r) : r \in rs}
  IN [reason \in {CaptureReason(c) : c \in urls} |->
        Cardinality({c \in urls : CaptureReason(c) = reason})]

\* verification_queue_snapshot
QueueSnapshot ==
  [kind \in {"capture", "judge"} |-> [status \in Ended \cup Active |->
     Cardinality({j \in Jobs : jobs[j].kind = kind /\ jobs[j].status = status})]]

-----------------------------------------------------------------------------
(* Properties *)

\* A job is in the hands of one worker at most, and its lease lasts as long as it is:
\* "two workers can never claim the same job twice" (verification_queue.py:155-156), and
\* the deadline keeps a slow job within its lease.
JobHeldByOne ==
  \A w \in Workers : work[w].job # 0 =>
    /\ jobs[work[w].job].status = "leased"
    /\ \A v \in Workers : work[v].job = work[w].job => v = w

\* However often a job is interrupted and resumed, it writes at most one verdict on a
\* citation (job_since, has_verification_since).
OneVerdictPerJob == \A j \in Jobs, c \in Citations : rows[j][c] <= 1

\* A job never pays an LLM call for a citation whose verdict it has already committed.
NeverPaidTwice ==
  [][\A j \in Jobs, c \in Citations : calls'[j][c] > calls[j][c] => rows[j][c] = 0]_vars

CaptureJobs(rs) == {j \in Jobs : jobs[j].kind = "capture" /\ jobs[j].response \in rs
                                 /\ jobs[j].status # "none"}

\* A capture job that is `done' has left no citation unchecked: all sources have been
\* tried, and each citation has a verdict since the job was created (except where the
\* client has not opted in to the judge).  When the dashboard's queue is empty of
\* unfinished and failed captures, its breakdown has no source that is not captured.
DoneMeansChecked ==
  /\ \A j \in CaptureJobs(Responses) :
       LET r == jobs[j].response IN
       jobs[j].status = "done" /\ (r \in Judged => r \in AutoVerify)
         => \A c \in Cited(r) : newest[c] >= j
  /\ LET asked == {jobs[j].response : j \in CaptureJobs(Responses)} IN
     (\A status \in Active \cup {"error"} : QueueSnapshot["capture"][status] = 0)
       => "not_captured" \notin DOMAIN CaptureRows(asked)

=============================================================================

---------------------------- MODULE SourceCapture ----------------------------
(***************************************************************************)
(* What a capture job of SignalMap does: fetch the sources a response      *)
(* cites (app/services/source_capture.py), then check each cited quote     *)
(* against the text that was captured, with archive.org as a fallback      *)
(* (app/services/citation_verification.py, archive_lookup.py).             *)
(*                                                                         *)
(* Who holds a job, leases and backoffs are VerificationQueue's; here a    *)
(* job is with one worker at a time, and what interleaves is the work of   *)
(* several workers on jobs that cite the same sources: they share the      *)
(* throttle (module Throttle) and the table source_documents.  The web and *)
(* archive.org answer anything, every time.                                *)
(***************************************************************************)
EXTENDS Throttle, Sequences, FiniteSetsExt

CONSTANTS
  Responses,      \* raw responses, each with one capture job
  Citations,
  CitationsOf,    \* [Responses -> Seq(Citations)], in citation_position order
  Urls,
  UrlOf,          \* [Citations -> Urls]
  HostOf,         \* [Urls -> Keys]
  Gateways,       \* _REDIRECT_GATEWAYS: links whose Location alone is read
  Redirects,      \* [Urls -> SUBSET Urls]: where a server may send the request
  FetchFailures,  \* how a fetch can fail: timeout, http_other, too_large
  Replies,        \* what a server can answer: records Reply
  Texts,          \* what extracted text can say of the quotes: [Citations -> Match]
  ArchiveKey,     \* the throttle key of archive.org
  GatewayInterval, DomainInterval, ArchiveInterval,
  MaxRedirects,   \* MAX_REDIRECTS
  CacheWindow,    \* CACHE_WINDOW, 24 hours
  MaxAttempts,    \* _MAX_ATTEMPTS of a job
  MaxKills        \* bound: how many workers die

Matches == {"full", "partial", "absent", "unmatchable"}
NoText == [c \in Citations |-> "no text"]

\* A server's final answer; text is what extraction makes of the body.
Reply == [status : Nat, vendor : BOOLEAN, pdf : BOOLEAN, challenge : BOOLEAN,
          text : Texts \cup {NoText}]

ASSUME TextsMatch == Texts \subseteq [Citations -> Matches] /\ Replies \subseteq Reply
ASSUME FailuresHaveReasons == FetchFailures \subseteq {"timeout", "http_other", "too_large"}

ASSUME SourcesAreTyped ==
  /\ Responses # {} /\ Urls # {}
  /\ CitationsOf \in [Responses -> Seq(Citations)] /\ UrlOf \in [Citations -> Urls]
  /\ ArchiveKey \in Keys /\ HostOf \in [Urls -> Keys \ {ArchiveKey}] /\ Gateways \subseteq Urls
  /\ Redirects \in [Urls -> SUBSET Urls]
  /\ {GatewayInterval, DomainInterval, ArchiveInterval} \subseteq Intervals
  /\ {MaxRedirects, CacheWindow, MaxAttempts, MaxKills} \subseteq Nat

VARIABLES
  documents,  \* Seq(Document), table source_documents
  rows,       \* Seq(Row), table citation_verifications
  robots,     \* [Processes -> [Keys -> policy]], _robots_cache
  jobs,       \* [Responses -> Job]
  proc,       \* [Processes -> Proc], the job a worker is at
  kills

captureVars == <<documents, rows, robots, jobs, proc, kills>>
vars == <<throttleVars, captureVars>>

UnverifiableReasons ==
  {"http_403", "http_404", "http_410", "http_429", "http_5xx", "http_other", "timeout",
   "bot_challenge", "robots", "too_large", "pdf_no_text", "no_checkable_text",
   "archive_unavailable"}

\* A row of source_documents.  seen is history: how many rows there were when the
\* capture looked into the cache.
Document == [url : Urls, method : {"live", "archive"}, reason : UnverifiableReasons \cup {"none"},
             text : Texts \cup {NoText}, fetchedAt : Nat, seen : Nat]

\* A row of citation_verifications (check_type quote).  archive and partly are history:
\* what archive.org said about it, and whether the capture loop had been broken off.
Answers == {"unasked", "outage", "negative", "verified"}
Row == [citation : Citations, document : Nat, at : Nat, archive : Answers, partly : BOOLEAN,
        verdict : {"verified", "partially_found", "not_found", "page_changed",
                   "archive_only", "unverifiable"},
        reason : UnverifiableReasons \cup {"none"}]

Job == [status : {"queued", "leased", "done", "error"}, attempts : Nat]

\* todo: the positions of the citations whose sources are still to capture, then of those
\* still to check.  source is the document a quote is checked against.
Proc == [pc : {"idle", "capture", "hop", "fetch", "verify", "cdx", "snapshot"},
         job : Responses, now : Nat, todo : SUBSET Nat, url : Urls, hops : Nat,
         seen : Nat, source : Nat, partly : BOOLEAN, deferred : BOOLEAN]

Idle == [pc |-> "idle", job |-> CHOOSE r \in Responses : TRUE, now |-> 0, todo |-> {},
         url |-> CHOOSE u \in Urls : TRUE, hops |-> 0, seen |-> 0, source |-> 0,
         partly |-> FALSE, deferred |-> FALSE]

NothingRead == [k \in Keys |-> "unread"]

Init ==
  /\ ThrottleInit
  /\ documents = <<>> /\ rows = <<>>
  /\ robots = [p \in Processes |-> NothingRead]
  /\ jobs = [r \in Responses |-> [status |-> "queued", attempts |-> 0]]
  /\ proc = [p \in Processes |-> Idle]
  /\ kills = 0

-----------------------------------------------------------------------------
(* Helpers *)

\* _citation_urls: every distinct source, in order; each stands at the position of the
\* first citation that has it.
Sources(r) ==
  LET cited == CitationsOf[r]
  IN  {i \in DOMAIN cited : \A j \in 1..i - 1 : UrlOf[cited[j]] # UrlOf[cited[i]]}

\* The citation a pass is at, its source, and what is left after it.
Cited(p) == CitationsOf[p.job][Min(p.todo)]
Source(p) == UrlOf[Cited(p)]
Rest(p) == p.todo \ {Min(p.todo)}

\* What capture_url records of an answer, in the order of its returns.
HttpReason(reply) ==
  CASE reply.status \in {403, 503} /\ reply.vendor -> "bot_challenge"
    [] reply.status = 403                          -> "http_403"
    [] reply.status = 404                          -> "http_404"
    [] reply.status = 410                          -> "http_410"
    [] reply.status = 429                          -> "http_429"
    [] reply.status >= 500                         -> "http_5xx"
    [] OTHER                                       -> "http_other"

ErrorReason(reply) ==
  IF reply.status >= 400 THEN HttpReason(reply)
  ELSE IF reply.pdf THEN IF reply.text = NoText THEN "pdf_no_text" ELSE "none"
  ELSE IF reply.challenge THEN "bot_challenge"
  ELSE IF reply.text = NoText THEN "no_checkable_text"
  ELSE "none"

\* Mutants: the cache knows no age; it does not look at failed captures.
Cached_Always(url, now) == {d \in DOMAIN documents : documents[d].url = url}
Cached_Successes(url, now) ==
  {d \in DOMAIN documents : /\ documents[d].url = url /\ documents[d].method = "live"
                            /\ documents[d].reason = "none"
                            /\ documents[d].fetchedAt + CacheWindow >= now}

\* _cached_document: a live capture of the last 24 hours, whatever came of it.
Cached(url, now) ==
  {d \in DOMAIN documents : /\ documents[d].url = url /\ documents[d].method = "live"
                            /\ documents[d].fetchedAt + CacheWindow >= now}

\* latest_source_document.  Rows of one pass have the same fetched_at, so that the
\* ORDER BY may return any of them.
Latest(url) ==
  LET all == {d \in DOMAIN documents : documents[d].url = url}
  IN  {d \in all : \A e \in all : documents[e].fetchedAt <= documents[d].fetchedAt}

Checked(c) == \E n \in DOMAIN rows : rows[n].citation = c

Set(w, new) == proc' = [proc EXCEPT ![w] = new]

-----------------------------------------------------------------------------
(* A pass over a job: process_verification_job *)

Begin(w, r) ==
  /\ proc[w].pc = "idle" /\ jobs[r].status = "queued"
  /\ jobs' = [jobs EXCEPT ![r] = [status |-> "leased", attempts |-> @.attempts + 1]]
  /\ Set(w, [Idle EXCEPT !.pc = "capture", !.job = r, !.now = clock, !.todo = Sources(r)])
  /\ UNCHANGED <<throttleVars, documents, rows, robots, kills>>

\* capture_url: the cache answers for this source.
CacheHit(w) ==
  /\ proc[w].pc = "capture" /\ proc[w].todo # {}
  /\ Cached(Source(proc[w]), proc[w].now) # {}
  /\ Set(w, [proc[w] EXCEPT !.todo = Rest(proc[w])])
  /\ UNCHANGED <<throttleVars, documents, rows, robots, jobs, kills>>

CacheMiss(w) ==
  /\ proc[w].pc = "capture" /\ proc[w].todo # {}
  /\ Cached(Source(proc[w]), proc[w].now) = {}
  /\ Set(w, [proc[w] EXCEPT !.pc = "hop", !.url = Source(proc[w]), !.hops = 0,
                            !.seen = Len(documents)])
  /\ UNCHANGED <<throttleVars, documents, rows, robots, jobs, kills>>

\* The quote check begins: all sources are captured, or the time for capturing was up
\* after one of them (even if that was the last).
BeginChecks(w) ==
  /\ proc[w].pc = "capture"
  /\ \E late \in BOOLEAN :
       /\ IF late THEN proc[w].todo # Sources(proc[w].job) ELSE proc[w].todo = {}
       /\ Set(w, [proc[w] EXCEPT !.pc = "verify", !.todo = DOMAIN CitationsOf[proc[w].job],
                                 !.partly = late])
  /\ UNCHANGED <<throttleVars, documents, rows, robots, jobs, kills>>

\* _store: always a new row; the next source is up.
Store(w, reason, text) ==
  /\ documents' = Append(documents,
       [url |-> Source(proc[w]), method |-> "live", reason |-> reason, text |-> text,
        fetchedAt |-> proc[w].now, seen |-> proc[w].seen])
  /\ Set(w, [proc[w] EXCEPT !.pc = "capture", !.todo = Rest(proc[w])])
  /\ UNCHANGED <<rows, jobs, kills>>

\* _robots_allowed: a policy is read once in the life of a process.
Policies(w) ==
  LET known == robots[w][HostOf[proc[w].url]]
  IN  IF known = "unread" THEN {"allowed", "disallowed"} ELSE {known}

LearnRobots(w, policy) == robots' = [robots EXCEPT ![w][HostOf[proc[w].url]] = policy]

RobotsBlock(w) ==
  /\ proc[w].pc = "hop" /\ proc[w].url \notin Gateways
  /\ "disallowed" \in Policies(w)
  /\ LearnRobots(w, "disallowed")
  /\ Store(w, "robots", NoText)
  /\ UNCHANGED throttleVars

\* The hop is paced before it is fetched; a gateway's robots.txt is not asked.
Pace(w) ==
  /\ proc[w].pc = "hop"
  /\ \/ proc[w].url \in Gateways /\ UNCHANGED robots
     \/ /\ proc[w].url \notin Gateways /\ "allowed" \in Policies(w)
        /\ LearnRobots(w, "allowed")
  /\ Ask(w)
  /\ Set(w, [proc[w] EXCEPT !.pc = "fetch"])
  /\ UNCHANGED <<clock, slots, booked, documents, rows, jobs, kills>>

ReserveSlot(w) ==
  /\ \/ proc[w].pc = "fetch"
        /\ Reserve(w, HostOf[proc[w].url],
                   IF proc[w].url \in Gateways THEN GatewayInterval ELSE DomainInterval)
     \/ proc[w].pc \in {"cdx", "snapshot"} /\ Reserve(w, ArchiveKey, ArchiveInterval)
  /\ UNCHANGED <<clock, captureVars>>

\* The hop answers with a redirect; one too many is recorded as a timeout.
Redirect(w, target) ==
  /\ proc[w].pc = "fetch" /\ proc[w].hops < MaxRedirects
  /\ target \in Redirects[proc[w].url]
  /\ Wake(w)
  /\ Set(w, [proc[w] EXCEPT !.pc = "hop", !.url = target, !.hops = @ + 1])
  /\ UNCHANGED <<clock, slots, booked, documents, rows, robots, jobs, kills>>

\* Too many redirects, a transport error, an unusable URL or a body beyond MAX_BYTES.
FetchFails(w) ==
  /\ proc[w].pc = "fetch"
  /\ Wake(w)
  /\ \E reason \in FetchFailures :
       /\ reason = "too_large" => proc[w].url \notin Gateways
       /\ Store(w, reason, NoText)
  /\ UNCHANGED <<clock, slots, booked, robots>>

\* The last hop answers.  The body of a gateway is never read.
Fetched(w) ==
  /\ proc[w].pc = "fetch"
  /\ Wake(w)
  /\ \E reply \in Replies :
       LET read == IF proc[w].url \in Gateways
                   THEN [reply EXCEPT !.text = NoText, !.challenge = FALSE] ELSE reply
           reason == ErrorReason(read)
       IN  Store(w, reason, IF reason = "none" THEN read.text ELSE NoText)
  /\ UNCHANGED <<clock, slots, booked, robots>>

-----------------------------------------------------------------------------
(* The quote check: verify_citations_by_quote *)

NextCheck(p) == [p EXCEPT !.pc = "verify", !.todo = Rest(p), !.source = 0]

\* One verdict, committed at once; the next citation is up.
Conclude(w, source, verdict, reason, archive) ==
  /\ rows' = Append(rows,
       [citation |-> Cited(proc[w]), document |-> source, at |-> proc[w].now,
        archive |-> archive, partly |-> proc[w].partly, verdict |-> verdict,
        reason |-> reason])
  /\ Set(w, NextCheck(proc[w]))

\* A citation that an earlier attempt settled, or whose source was never captured.
PassOver(w) ==
  /\ proc[w].pc = "verify" /\ proc[w].todo # {}
  /\ \/ jobs[proc[w].job].attempts > 1 /\ Checked(Cited(proc[w]))
     \/ Latest(Source(proc[w])) = {}
  /\ Set(w, NextCheck(proc[w]))
  /\ UNCHANGED <<throttleVars, documents, rows, robots, jobs, kills>>

ToCheck(w) ==
  /\ proc[w].pc = "verify" /\ proc[w].todo # {}
  /\ jobs[proc[w].job].attempts > 1 => ~Checked(Cited(proc[w]))

MatchOf(c, d) == documents[d].text[c]

\* The verdict that needs no archive: a full or partial match, or no check possible.
CheckLive(w) ==
  /\ ToCheck(w)
  /\ LET c == Cited(proc[w])
     IN  \E d \in Latest(UrlOf[c]) :
           IF documents[d].reason # "none"
           THEN /\ documents[d].reason \notin {"http_404", "http_410"}
                /\ Conclude(w, d, "unverifiable", documents[d].reason, "unasked")
           ELSE CASE MatchOf(c, d) = "full" -> Conclude(w, d, "verified", "none", "unasked")
                  [] MatchOf(c, d) = "partial" ->
                       Conclude(w, d, "partially_found", "none", "unasked")
                  [] MatchOf(c, d) = "unmatchable" ->
                       Conclude(w, d, "unverifiable", "no_checkable_text", "unasked")
                  [] OTHER -> FALSE
  /\ UNCHANGED <<throttleVars, documents, robots, jobs, kills>>

\* The page is gone, or it does not have the quote: ask archive.org.
AskArchive(w) ==
  /\ ToCheck(w)
  /\ LET c == Cited(proc[w])
     IN  \E d \in Latest(UrlOf[c]) :
           /\ \/ documents[d].reason \in {"http_404", "http_410"}
              \/ documents[d].reason = "none" /\ MatchOf(c, d) = "absent"
           /\ Set(w, [proc[w] EXCEPT !.pc = "cdx", !.source = d])
  /\ Ask(w)
  /\ UNCHANGED <<clock, slots, booked, documents, rows, robots, jobs, kills>>

\* archive.org could not be asked: leave the citation for the job's retry, or say so.
Outage(w) ==
  IF jobs[proc[w].job].attempts >= MaxAttempts
  THEN Conclude(w, proc[w].source, "unverifiable", "archive_unavailable", "outage")
  ELSE Set(w, [NextCheck(proc[w]) EXCEPT !.deferred = TRUE]) /\ UNCHANGED rows

\* The archive has nothing to say for the quote: the live outcome stands.
KeepLive(w, answer) ==
  LET d == proc[w].source
  IN  IF documents[d].reason # "none"
      THEN Conclude(w, d, "unverifiable", documents[d].reason, answer)
      ELSE Conclude(w, d, "not_found", "none", answer)

\* Mutant: an outage is taken for a missing snapshot.
ArchiveFails_AsMissing(w) ==
  /\ proc[w].pc \in {"cdx", "snapshot"}
  /\ Wake(w)
  /\ KeepLive(w, "outage")
  /\ UNCHANGED <<clock, slots, booked, documents, robots, jobs, kills>>

ArchiveFails(w) ==
  /\ proc[w].pc \in {"cdx", "snapshot"}
  /\ Wake(w)
  /\ Outage(w)
  /\ UNCHANGED <<clock, slots, booked, documents, robots, jobs, kills>>

\* No snapshot, or one without checkable text or without the quote.
ArchiveDenies(w) ==
  /\ proc[w].pc \in {"cdx", "snapshot"}
  /\ Wake(w)
  /\ KeepLive(w, "negative")
  /\ UNCHANGED <<clock, slots, booked, documents, robots, jobs, kills>>

SnapshotFound(w) ==
  /\ proc[w].pc = "cdx" /\ call[w].state = "asleep" /\ clock >= call[w].at
  /\ call' = [call EXCEPT ![w] = [state |-> "asked", at |-> clock]]
  /\ Set(w, [proc[w] EXCEPT !.pc = "snapshot"])
  /\ UNCHANGED <<clock, slots, booked, documents, rows, robots, jobs, kills>>

\* The snapshot has the quote: _store_archive_document, then the verdict.
ArchiveVerifies(w) ==
  LET c == Cited(proc[w])
      d == proc[w].source
  IN  /\ proc[w].pc = "snapshot"
      /\ Wake(w)
      /\ \E text \in {t \in Texts : t[c] = "full"} :
           documents' = Append(documents,
             [url |-> UrlOf[c], method |-> "archive", reason |-> "none", text |-> text,
              fetchedAt |-> proc[w].now, seen |-> 0])
      /\ Conclude(w, Len(documents) + 1,
                  IF documents[d].reason # "none" THEN "archive_only" ELSE "page_changed",
                  "none", "verified")
      /\ UNCHANGED <<clock, slots, booked, robots, jobs, kills>>

\* The deadline of the whole job cuts the check short.
OutOfTime(w) ==
  /\ proc[w].pc = "verify" /\ proc[w].todo # {}
  /\ Set(w, [proc[w] EXCEPT !.todo = {}, !.partly = TRUE])
  /\ UNCHANGED <<throttleVars, documents, rows, robots, jobs, kills>>

\* What becomes of a job: done, deferred for another attempt, or given up.
StatusAfter(p) ==
  IF p.partly THEN IF jobs[p.job].attempts >= MaxAttempts THEN "error" ELSE "queued"
  ELSE IF p.deferred THEN "queued" ELSE "done"

\* The pass ends.
End(w) ==
  LET r == proc[w].job
  IN  /\ proc[w].pc = "verify" /\ proc[w].todo = {}
      /\ jobs' = [jobs EXCEPT ![r].status = StatusAfter(proc[w])]
      /\ Set(w, Idle)
      /\ UNCHANGED <<throttleVars, documents, rows, robots, kills>>

\* The worker dies: its job is released, its robots cache is gone.
Kill(w) ==
  /\ proc[w].pc # "idle" /\ kills < MaxKills
  /\ kills' = kills + 1
  /\ Abandon(w)
  /\ robots' = [robots EXCEPT ![w] = NothingRead]
  /\ jobs' = [jobs EXCEPT ![proc[w].job].status = "queued"]
  /\ Set(w, Idle)
  /\ UNCHANGED <<clock, slots, booked, documents, rows>>

Tick == Pass /\ UNCHANGED <<slots, call, booked, captureVars>>

Step(w) ==
  \/ \E r \in Responses : Begin(w, r)
  \/ CacheHit(w) \/ CacheMiss(w) \/ BeginChecks(w)
  \/ RobotsBlock(w) \/ Pace(w) \/ ReserveSlot(w)
  \/ \E target \in Urls : Redirect(w, target)
  \/ FetchFails(w) \/ Fetched(w)
  \/ PassOver(w) \/ CheckLive(w) \/ AskArchive(w) \/ SnapshotFound(w)
  \/ ArchiveFails(w) \/ ArchiveDenies(w) \/ ArchiveVerifies(w)
  \/ OutOfTime(w) \/ End(w)

Next ==
  \/ \E w \in Processes : Step(w) \/ Kill(w)
  \/ Tick

Spec == Init /\ [][Next]_vars

-----------------------------------------------------------------------------
(* Properties *)

\* A source is captured again within the cache window only by passes that overlap:
\* a capture that began after an earlier one was stored finds it, whatever came of it
\* and whichever worker made it (decision 13; source_capture.py:354-358).
OnlyOverlappingCapturesRepeat ==
  \A d, e \in DOMAIN documents :
    /\ d < e /\ documents[d].url = documents[e].url
    /\ documents[d].method = "live" /\ documents[e].method = "live"
    /\ documents[e].fetchedAt <= documents[d].fetchedAt + CacheWindow
    => documents[e].seen < d

\* A pass that captured every source of its response judges each quote by evidence
\* of the last 24 hours, never by a document of an earlier verification.
EvidenceIsFresh ==
  \A n \in DOMAIN rows :
    ~rows[n].partly => documents[rows[n].document].fetchedAt + CacheWindow >= rows[n].at

\* "a rate-limited archive.org can never get silently recorded as `the quote doesn't
\* exist'" (archive_lookup.py:18-19): a quote is reported as not found, or its page as
\* gone, only when archive.org has been reached and has nothing.
OutageIsNoVerdict ==
  \A n \in DOMAIN rows :
    (rows[n].verdict = "not_found" \/ rows[n].reason \in {"http_404", "http_410"})
      => rows[n].archive = "negative"

=============================================================================

------------------------ MODULE SourceCapture_proofs ------------------------
(***************************************************************************)
(* What a capture job finds, records and concludes: the inductive          *)
(* invariants behind EvidenceIsFresh, OnlyOverlappingCapturesRepeat,       *)
(* OutageIsNoVerdict and, for the whole of the capture, SlotsAreSpaced.    *)
(***************************************************************************)
EXTENDS SourceCapture, TLAPS, WellFoundedInduction

-----------------------------------------------------------------------------
(* The throttle, for any processes, keys and intervals *)

\* The next free slot of a key lies behind the last reservation.
SlotsAhead == \A k \in Keys : slots[k] >= booked[k].at + booked[k].interval

Inv == ThrottleTypeOK /\ SlotsAhead

\* What one reservation does to the key it is for, and that it touches no other.
LEMMA ReservationIsSpaced ==
  ASSUME Inv, NEW p \in Processes, NEW k \in Keys, NEW interval \in Intervals,
         Reserve(p, k, interval)
  PROVE  /\ slots' \in [Keys -> Nat] /\ booked' \in [Keys -> Slot]
         /\ call' \in [Processes -> Call]
         /\ \A j \in Keys : j # k => slots'[j] = slots[j] /\ booked'[j] = booked[j]
         /\ booked'[k].at >= booked[k].at + booked[k].interval
         /\ slots'[k] >= booked'[k].at + booked'[k].interval
<1> DEFINE slot == Later(slots[k], call[p].at)
<1>1. /\ slots[k] \in Nat /\ call[p].at \in Nat /\ interval \in Nat /\ clock \in Nat
      /\ booked[k].at \in Nat /\ booked[k].interval \in Nat
  <2>1. slots[k] \in Nat /\ interval \in Nat /\ clock \in Nat
    BY IntervalsAreNaturals DEF Inv, ThrottleTypeOK
  <2>2. call[p] \in Call /\ booked[k] \in Slot
    BY DEF Inv, ThrottleTypeOK
  <2>3. ASSUME NEW s \in Slot
        PROVE  s.at \in Nat /\ s.interval \in Nat
    <3>1. s.at \in Nat /\ s.interval \in Intervals \cup {0}
      BY DEF Slot
    <3>2. 0 \in Nat /\ Intervals \subseteq Nat
      BY IntervalsAreNaturals
    <3> QED
      BY <3>1, <3>2
  <2>4. \A c \in Call : c.at \in Nat
    BY DEF Call
  <2> QED
    BY <2>1, <2>2, <2>3, <2>4
<1>2. slot \in Nat /\ slot >= slots[k] /\ slot >= call[p].at
  BY <1>1 DEF Later
<1>3. slots' = [slots EXCEPT ![k] = slot + interval]
  BY DEF Reserve
<1>4. booked' = [booked EXCEPT ![k] = [at |-> slot, interval |-> interval]]
  BY DEF Reserve
<1>5. call' = [call EXCEPT ![p] = [state |-> "asleep", at |-> clock + (slot - call[p].at)]]
  BY DEF Reserve
<1> HIDE DEF slot
<1>6. [at |-> slot, interval |-> interval] \in Slot
  BY <1>2 DEF Slot
<1>7. clock + (slot - call[p].at) \in Nat
  BY <1>1, <1>2
<1>8. [state |-> "asleep", at |-> clock + (slot - call[p].at)] \in Call
  BY <1>7 DEF Call
<1>9. /\ slots \in [Keys -> Nat] /\ booked \in [Keys -> Slot] /\ call \in [Processes -> Call]
      /\ slots[k] >= booked[k].at + booked[k].interval
  BY DEF Inv, ThrottleTypeOK, SlotsAhead
<1>10. slots'[k] = slot + interval
  BY <1>3, <1>9
<1>11. booked'[k].at = slot /\ booked'[k].interval = interval
  BY <1>4, <1>9
<1>12. slot + interval \in Nat
  BY <1>1, <1>2
<1>13. slots' \in [Keys -> Nat] /\ booked' \in [Keys -> Slot]
  BY <1>3, <1>4, <1>6, <1>9, <1>12
<1>14. call' \in [Processes -> Call]
  BY <1>5, <1>8, <1>9
<1>15. \A j \in Keys : j # k => slots'[j] = slots[j] /\ booked'[j] = booked[j]
  BY <1>3, <1>4, <1>9
<1>16. booked'[k].at >= booked[k].at + booked[k].interval
  BY <1>1, <1>2, <1>9, <1>11
<1>17. slots'[k] >= booked'[k].at + booked'[k].interval
  BY <1>1, <1>2, <1>10, <1>11
<1> QED
  BY <1>13, <1>14, <1>15, <1>16, <1>17

\* Initially nothing is reserved.
LEMMA InitialInv == ThrottleInit => Inv
BY IntervalsAreNaturals DEF ThrottleInit, Inv, ThrottleTypeOK, SlotsAhead, NoCall, Call, Slot

\* Every step keeps the invariant and gives out only slots behind the last one.
LEMMA StepKeepsInv ==
  ASSUME Inv, [ThrottleNext]_throttleVars
  PROVE  /\ Inv'
         /\ \A k \in Keys : slots'[k] # slots[k] =>
              booked'[k].at >= booked[k].at + booked[k].interval
<1>1. CASE UNCHANGED throttleVars
  BY <1>1 DEF throttleVars, Inv, ThrottleTypeOK, SlotsAhead
<1>2. ASSUME NEW p \in Processes, NEW k \in Keys, NEW interval \in Intervals,
             Reserve(p, k, interval), UNCHANGED clock
      PROVE  /\ Inv'
             /\ \A j \in Keys : slots'[j] # slots[j] =>
                  booked'[j].at >= booked[j].at + booked[j].interval
  BY <1>2, ReservationIsSpaced DEF Inv, ThrottleTypeOK, SlotsAhead
<1>3. ASSUME NEW p \in Processes, Ask(p) \/ Wake(p) \/ Abandon(p),
             UNCHANGED <<clock, slots, booked>>
      PROVE  Inv' /\ slots' = slots
  <2>1. clock \in Nat
    BY IntervalsAreNaturals DEF Inv, ThrottleTypeOK
  <2>2. NoCall \in Call /\ [state |-> "asked", at |-> clock] \in Call
    BY <2>1 DEF NoCall, Call
  <2>3. call' \in [Processes -> Call]
    BY <1>3, <2>2 DEF Ask, Wake, Abandon, Inv, ThrottleTypeOK
  <2> QED
    BY <1>3, <2>3 DEF Inv, ThrottleTypeOK, SlotsAhead
<1>4. CASE Pass /\ UNCHANGED <<slots, call, booked>>
  BY <1>4, IntervalsAreNaturals DEF Pass, Inv, ThrottleTypeOK, SlotsAhead
<1> QED
  BY <1>1, <1>2, <1>3, <1>4 DEF ThrottleNext

\* Whichever processes ask, however old the clock they read is, and whatever intervals
\* they ask for: no slot of a key comes before the last one's interval is over.
THEOREM SlotsSpaced == ThrottleSpec => SlotsAreSpaced
<1>1. ThrottleInit => Inv
  BY InitialInv
<1>2. Inv /\ [ThrottleNext]_throttleVars => Inv'
  BY StepKeepsInv
<1>3. Inv /\ [ThrottleNext]_throttleVars =>
        [\A k \in Keys : slots'[k] # slots[k] =>
            booked'[k].at >= booked[k].at + booked[k].interval]_slots
  BY StepKeepsInv
<1> QED
  BY <1>1, <1>2, <1>3, PTL DEF ThrottleSpec, SlotsAreSpaced

-----------------------------------------------------------------------------
(* Invariants *)

Capturing == {"capture", "hop", "fetch"}
Verifying == {"verify", "cdx", "snapshot"}

\* Inv is the throttle's part.
CaptureTypeOK ==
  /\ Inv
  /\ documents \in Seq(Document) /\ rows \in Seq(Row)
  /\ robots \in [Processes -> [Keys -> {"unread", "allowed", "disallowed"}]]
  /\ jobs \in [Responses -> Job]
  /\ proc \in [Processes -> Proc]
  /\ kills \in Nat

\* What a pass holds at each step: positions of its own response, one of them while it
\* fetches or asks, and a document while it asks the archive about one.
WorkOK ==
  \A w \in Processes :
    /\ proc[w].todo \subseteq DOMAIN CitationsOf[proc[w].job]
    /\ proc[w].pc \in {"hop", "fetch", "cdx", "snapshot"} => proc[w].todo # {}
    /\ proc[w].pc \in {"cdx", "snapshot"} => proc[w].source \in DOMAIN documents

\* A verdict names a document that exists.
RowsOK == \A n \in DOMAIN rows : rows[n].document \in DOMAIN documents

CaptureTypeInv == CaptureTypeOK /\ WorkOK /\ RowsOK

\* There is a document of the url that is younger than the cache window.
Fresh(docs, url, now) ==
  \E d \in DOMAIN docs : docs[d].url = url /\ docs[d].fetchedAt + CacheWindow >= now

UrlAt(r, i) == UrlOf[CitationsOf[r][i]]

\* What the pass has captured so far is fresh; without an interruption that is
\* everything the response cites, and so is the document it asks the archive about.
CapturedSoFar ==
  \A w \in Processes :
    LET p == proc[w] IN
    /\ p.pc \in Capturing => \A i \in Sources(p.job) \ p.todo :
                               Fresh(documents, UrlAt(p.job, i), p.now)
    /\ p.pc \in Verifying /\ ~p.partly =>
         \A i \in DOMAIN CitationsOf[p.job] : Fresh(documents, UrlAt(p.job, i), p.now)
    /\ p.pc \in {"cdx", "snapshot"} /\ ~p.partly =>
         documents[p.source].fetchedAt + CacheWindow >= p.now

EvidenceInv == CaptureTypeInv /\ CapturedSoFar /\ EvidenceIsFresh

\* When the pass looked into the cache, the source was not there.
MissesAreTrue ==
  \A w \in Processes :
    LET p == proc[w] IN
    p.pc \in {"hop", "fetch"} =>
      /\ p.seen <= Len(documents)
      /\ \A d \in 1..p.seen : ~(/\ documents[d].url = Source(p)
                                /\ documents[d].method = "live"
                                /\ documents[d].fetchedAt + CacheWindow >= p.now)

RepeatInv == CaptureTypeInv /\ MissesAreTrue /\ OnlyOverlappingCapturesRepeat
-----------------------------------------------------------------------------
(* Helpers *)

\* A set of naturals that is not empty has a least element.
LEMMA MinIsLeast ==
  ASSUME NEW S, S \subseteq Nat, S # {}
  PROVE  Min(S) \in S /\ \A n \in S : Min(S) <= n
<1>1. IsWellFoundedOn(OpToRel(<, Nat), Nat)
  BY NatLessThanWellFounded, Zenon
<1>2. PICK m \in S : \A n \in S : ~(<<n, m>> \in OpToRel(<, Nat))
  BY <1>1, WFMin, Zenon
<1>3. \A n \in S : ~(n < m)
  BY <1>2 DEF OpToRel
<1>4. \A n \in S : m <= n
  BY <1>3
<1> QED
  BY <1>4 DEF Min
\* The citation a pass is at belongs to its response.
LEMMA CitedIsCited ==
  ASSUME CaptureTypeInv, NEW w \in Processes, proc[w].todo # {}
  PROVE  /\ Min(proc[w].todo) \in proc[w].todo
         /\ Min(proc[w].todo) \in DOMAIN CitationsOf[proc[w].job]
         /\ Cited(proc[w]) \in Citations /\ Source(proc[w]) \in Urls
         /\ Source(proc[w]) = UrlAt(proc[w].job, Min(proc[w].todo))
         /\ Rest(proc[w]) \subseteq proc[w].todo
<1>1. proc[w] \in Proc /\ proc[w].todo \subseteq DOMAIN CitationsOf[proc[w].job]
  BY DEF CaptureTypeInv, CaptureTypeOK, WorkOK
<1>2. proc[w].job \in Responses /\ proc[w].todo \subseteq Nat
  BY <1>1 DEF Proc
<1>3. CitationsOf[proc[w].job] \in Seq(Citations) /\ UrlOf \in [Citations -> Urls]
  BY <1>2, SourcesAreTyped
<1>4. Min(proc[w].todo) \in proc[w].todo
  BY <1>2, MinIsLeast
<1> QED
  BY <1>1, <1>3, <1>4 DEF Cited, Source, UrlAt, Rest

\* A document or a row that is appended changes no other.
LEMMA Appended ==
  ASSUME NEW S, NEW s \in Seq(S), NEW x \in S, NEW t, t = Append(s, x)
  PROVE  /\ t \in Seq(S) /\ Len(t) = Len(s) + 1
         /\ DOMAIN s = 1..Len(s) /\ DOMAIN t = 1..Len(s) + 1
         /\ t[Len(s) + 1] = x
         /\ \A i \in 1..Len(s) : t[i] = s[i]
OBVIOUS

\* An idle process is a Proc.
LEMMA IdleIsTyped == Idle \in Proc /\ Idle.pc = "idle" /\ Idle.todo = {}
<1>1. (CHOOSE r \in Responses : TRUE) \in Responses /\ (CHOOSE u \in Urls : TRUE) \in Urls
  BY SourcesAreTyped
<1> QED
  BY <1>1 DEF Idle, Proc

-----------------------------------------------------------------------------
(* Types *)

\* A step of one process, whatever it appends.
LEMMA TypesKept ==
  ASSUME CaptureTypeInv, Inv', NEW w \in Processes, NEW p \in Proc, Set(w, p),
         documents' \in Seq(Document), rows' \in Seq(Row),
         robots' \in [Processes -> [Keys -> {"unread", "allowed", "disallowed"}]],
         jobs' \in [Responses -> Job], kills' \in Nat,
         DOMAIN documents \subseteq DOMAIN documents', RowsOK',
         p.todo \subseteq DOMAIN CitationsOf[p.job],
         p.pc \in {"hop", "fetch", "cdx", "snapshot"} => p.todo # {},
         p.pc \in {"cdx", "snapshot"} => p.source \in DOMAIN documents'
  PROVE  CaptureTypeInv'
<1>1. proc \in [Processes -> Proc]
  BY DEF CaptureTypeInv, CaptureTypeOK
<1>2. proc' \in [Processes -> Proc]
  BY <1>1 DEF Set
<1>3. \A v \in Processes : proc'[v] = IF v = w THEN p ELSE proc[v]
  BY <1>1 DEF Set
<1>4. WorkOK'
  BY <1>3 DEF CaptureTypeInv, WorkOK
<1> QED
  BY <1>2, <1>4 DEF CaptureTypeInv, CaptureTypeOK

\* A step that changes nothing but the process and its call of the throttle.
LEMMA TypesOfWork ==
  ASSUME CaptureTypeInv, Inv', NEW w \in Processes, NEW p \in Proc, Set(w, p),
         UNCHANGED <<documents, rows, kills>>,
         robots' \in [Processes -> [Keys -> {"unread", "allowed", "disallowed"}]],
         jobs' \in [Responses -> Job],
         p.todo \subseteq DOMAIN CitationsOf[p.job],
         p.pc \in {"hop", "fetch", "cdx", "snapshot"} => p.todo # {},
         p.pc \in {"cdx", "snapshot"} => p.source \in DOMAIN documents
  PROVE  CaptureTypeInv'
<1>1. RowsOK'
  BY DEF CaptureTypeInv, RowsOK
<1> QED
  BY <1>1, TypesKept DEF CaptureTypeInv, CaptureTypeOK

\* The capture of a source begins, or the cache spares it.
LEMMA TypesOfCapture ==
  ASSUME CaptureTypeInv, Inv', NEW w \in Processes,
         \/ CacheHit(w) \/ CacheMiss(w) \/ BeginChecks(w) \/ OutOfTime(w) \/ PassOver(w)
         \/ \E r \in Responses : Begin(w, r)
         \/ End(w) \/ Kill(w)
  PROVE  CaptureTypeInv'
<1>0. /\ proc[w] \in Proc /\ documents \in Seq(Document) /\ rows \in Seq(Row)
      /\ robots \in [Processes -> [Keys -> {"unread", "allowed", "disallowed"}]]
      /\ jobs \in [Responses -> Job] /\ proc[w].job \in Responses /\ kills \in Nat
      /\ clock \in Nat /\ proc[w].todo \subseteq DOMAIN CitationsOf[proc[w].job]
  <2>1. proc[w] \in Proc /\ clock \in 0..MaxClock
    BY DEF CaptureTypeInv, CaptureTypeOK, Inv, ThrottleTypeOK
  <2>2. proc[w].job \in Responses
    BY <2>1 DEF Proc
  <2> QED
    BY <2>1, <2>2, IntervalsAreNaturals DEF CaptureTypeInv, CaptureTypeOK, WorkOK
<1>1. CASE CacheHit(w)
  <2>1. Rest(proc[w]) \subseteq proc[w].todo
    BY DEF Rest
  <2>2. [proc[w] EXCEPT !.todo = Rest(proc[w])] \in Proc
    BY <1>0, <2>1 DEF Proc
  <2>3. proc[w].pc = "capture"
    BY <1>1 DEF CacheHit
  <2>4. /\ [proc[w] EXCEPT !.todo = Rest(proc[w])].todo = Rest(proc[w])
        /\ [proc[w] EXCEPT !.todo = Rest(proc[w])].pc = "capture"
        /\ [proc[w] EXCEPT !.todo = Rest(proc[w])].job = proc[w].job
    BY <1>0, <2>3 DEF Proc
  <2> QED
    BY <1>0, <1>1, <2>1, <2>2, <2>4, TypesOfWork DEF CacheHit
<1>2. CASE CacheMiss(w)
  <2> DEFINE p == [proc[w] EXCEPT !.pc = "hop", !.url = Source(proc[w]), !.hops = 0,
                                  !.seen = Len(documents)]
  <2>1. proc[w].todo # {} /\ Set(w, p)
    BY <1>2 DEF CacheMiss
  <2>2. Source(proc[w]) \in Urls /\ Len(documents) \in Nat
    BY <1>0, <2>1, CitedIsCited
  <2>3. p \in Proc /\ p.pc = "hop" /\ p.todo = proc[w].todo /\ p.job = proc[w].job
    BY <1>0, <2>2 DEF Proc
  <2> HIDE DEF p
  <2> QED
    BY <1>0, <1>2, <2>1, <2>3, TypesOfWork DEF CacheMiss
<1>3. CASE BeginChecks(w)
  <2>1. PICK late \in BOOLEAN :
          Set(w, [proc[w] EXCEPT !.pc = "verify", !.todo = DOMAIN CitationsOf[proc[w].job],
                                 !.partly = late])
    BY <1>3 DEF BeginChecks
  <2> DEFINE p == [proc[w] EXCEPT !.pc = "verify", !.todo = DOMAIN CitationsOf[proc[w].job],
                                  !.partly = late]
  <2>2. DOMAIN CitationsOf[proc[w].job] \subseteq Nat
    BY <1>0, SourcesAreTyped
  <2>3. /\ p \in Proc /\ p.pc = "verify" /\ p.job = proc[w].job
        /\ p.todo = DOMAIN CitationsOf[proc[w].job]
    BY <1>0, <2>2 DEF Proc
  <2> HIDE DEF p
  <2> QED
    BY <1>0, <1>3, <2>1, <2>3, TypesOfWork DEF BeginChecks, p
<1>4. CASE OutOfTime(w)
  <2> DEFINE p == [proc[w] EXCEPT !.todo = {}, !.partly = TRUE]
  <2>1. p \in Proc /\ p.pc = "verify" /\ p.todo = {} /\ p.job = proc[w].job
    BY <1>0, <1>4 DEF Proc, OutOfTime
  <2> HIDE DEF p
  <2> QED
    BY <1>0, <1>4, <2>1, TypesOfWork DEF OutOfTime, p
<1>5. CASE PassOver(w)
  <2> DEFINE p == NextCheck(proc[w])
  <2>1. p \in Proc /\ p.pc = "verify" /\ p.todo = Rest(proc[w]) /\ p.job = proc[w].job
    BY <1>0 DEF Proc, NextCheck, Rest
  <2>2. p.todo \subseteq DOMAIN CitationsOf[p.job]
    BY <1>0, <2>1 DEF Rest
  <2> HIDE DEF p
  <2> QED
    BY <1>0, <1>5, <2>1, <2>2, TypesOfWork DEF PassOver, p
<1>6. ASSUME NEW r \in Responses, Begin(w, r)
      PROVE  CaptureTypeInv'
  <2> DEFINE p == [Idle EXCEPT !.pc = "capture", !.job = r, !.now = clock,
                               !.todo = Sources(r)]
  <2>1. Sources(r) \subseteq DOMAIN CitationsOf[r] /\ DOMAIN CitationsOf[r] \subseteq Nat
    BY SourcesAreTyped DEF Sources
  <2>2. p \in Proc /\ p.pc = "capture" /\ p.todo = Sources(r) /\ p.job = r
    BY <1>0, <2>1, IdleIsTyped DEF Proc
  <2>3. jobs' \in [Responses -> Job]
    <3>1. jobs[r] \in Job
      BY <1>0
    <3>2. [status |-> "leased", attempts |-> jobs[r].attempts + 1] \in Job
      BY <3>1 DEF Job
    <3> QED
      BY <1>0, <1>6, <3>2 DEF Begin
  <2> HIDE DEF p
  <2> QED
    BY <1>0, <1>6, <2>1, <2>2, <2>3, TypesOfWork DEF Begin, p
<1>7. CASE End(w)
  <2>1. StatusAfter(proc[w]) \in {"queued", "done", "error"}
    BY DEF StatusAfter
  <2>2. [jobs[proc[w].job] EXCEPT !.status = StatusAfter(proc[w])] \in Job
    BY <1>0, <2>1 DEF Job
  <2>3. jobs' \in [Responses -> Job]
    BY <1>0, <1>7, <2>2 DEF End
  <2> QED
    BY <1>0, <1>7, <2>3, IdleIsTyped, TypesOfWork DEF End
<1>8. CASE Kill(w)
  <2>1. jobs' \in [Responses -> Job]
    <3>1. [jobs[proc[w].job] EXCEPT !.status = "queued"] \in Job
      BY <1>0 DEF Job
    <3> QED
      BY <1>0, <1>8, <3>1 DEF Kill
  <2>2. robots' \in [Processes -> [Keys -> {"unread", "allowed", "disallowed"}]]
    BY <1>0, <1>8 DEF Kill, NothingRead
  <2>3. RowsOK' /\ kills' \in Nat /\ UNCHANGED <<documents, rows>>
    BY <1>0, <1>8 DEF Kill, CaptureTypeInv, RowsOK
  <2> QED
    BY <1>0, <1>8, <2>1, <2>2, <2>3, IdleIsTyped, TypesKept DEF Kill
<1> QED
  BY <1>1, <1>2, <1>3, <1>4, <1>5, <1>6, <1>7, <1>8
\* What capture_url records, whatever the server or robots.txt says.
LEMMA StoringIs ==
  ASSUME CaptureTypeInv, NEW w \in Processes, RobotsBlock(w) \/ FetchFails(w) \/ Fetched(w)
  PROVE  /\ proc[w].pc \in {"hop", "fetch"}
         /\ robots' \in [Processes -> [Keys -> {"unread", "allowed", "disallowed"}]]
         /\ \E reason \in UnverifiableReasons \cup {"none"}, text \in Texts \cup {NoText} :
              Store(w, reason, text)
<1>0. /\ robots \in [Processes -> [Keys -> {"unread", "allowed", "disallowed"}]]
      /\ proc[w].url \in Urls /\ HostOf[proc[w].url] \in Keys
  <2>1. proc[w] \in Proc
    BY DEF CaptureTypeInv, CaptureTypeOK
  <2>2. proc[w].url \in Urls
    BY <2>1 DEF Proc
  <2> QED
    BY <2>2, SourcesAreTyped DEF CaptureTypeInv, CaptureTypeOK
<1>1. CASE RobotsBlock(w)
  BY <1>0, <1>1 DEF RobotsBlock, LearnRobots, UnverifiableReasons
<1>2. CASE FetchFails(w)
  BY <1>0, <1>2, FailuresHaveReasons DEF FetchFails, UnverifiableReasons
<1>3. CASE Fetched(w)
  <2>1. PICK reply \in Replies :
          LET read == IF proc[w].url \in Gateways
                      THEN [reply EXCEPT !.text = NoText, !.challenge = FALSE] ELSE reply
              reason == ErrorReason(read)
          IN  Store(w, reason, IF reason = "none" THEN read.text ELSE NoText)
    BY <1>3 DEF Fetched
  <2> DEFINE read == IF proc[w].url \in Gateways
                     THEN [reply EXCEPT !.text = NoText, !.challenge = FALSE] ELSE reply
  <2>2. read \in Reply
    BY TextsMatch DEF Reply
  <2>3. read.text \in Texts \cup {NoText}
    BY <2>2 DEF Reply
  <2> HIDE DEF read
  <2>4. ErrorReason(read) \in UnverifiableReasons \cup {"none"}
    BY DEF ErrorReason, HttpReason, UnverifiableReasons
  <2>5. Store(w, ErrorReason(read),
              IF ErrorReason(read) = "none" THEN read.text ELSE NoText)
    BY <2>1 DEF read
  <2> QED
    BY <1>0, <1>3, <2>3, <2>4, <2>5 DEF Fetched
<1> QED
  BY <1>1, <1>2, <1>3

\* _store appends a document of the source, taken at the pass's `now'.
LEMMA StoreIs ==
  ASSUME CaptureTypeInv, NEW w \in Processes, proc[w].pc \in {"hop", "fetch"},
         NEW reason \in UnverifiableReasons \cup {"none"}, NEW text \in Texts \cup {NoText},
         Store(w, reason, text)
  PROVE  \E doc \in Document :
           /\ documents' = Append(documents, doc)
           /\ doc.url = Source(proc[w]) /\ doc.method = "live"
           /\ doc.fetchedAt = proc[w].now /\ doc.seen = proc[w].seen
<1>1. proc[w] \in Proc /\ proc[w].todo # {}
  BY DEF CaptureTypeInv, CaptureTypeOK, WorkOK
<1>2. Source(proc[w]) \in Urls
  BY <1>1, CitedIsCited
<1> DEFINE doc == [url |-> Source(proc[w]), method |-> "live", reason |-> reason,
                   text |-> text, fetchedAt |-> proc[w].now, seen |-> proc[w].seen]
<1>3. doc \in Document
  BY <1>1, <1>2 DEF Document, Proc
<1> QED
  BY <1>3 DEF Store

LEMMA TypesOfStoring ==
  ASSUME CaptureTypeInv, Inv', NEW w \in Processes,
         RobotsBlock(w) \/ FetchFails(w) \/ Fetched(w)
  PROVE  CaptureTypeInv'
<1>1. /\ proc[w].pc \in {"hop", "fetch"}
      /\ robots' \in [Processes -> [Keys -> {"unread", "allowed", "disallowed"}]]
  BY StoringIs
<1>2. PICK reason \in UnverifiableReasons \cup {"none"}, text \in Texts \cup {NoText} :
        Store(w, reason, text)
  BY StoringIs
<1>3. PICK doc \in Document : documents' = Append(documents, doc)
  BY <1>1, <1>2, StoreIs
<1> DEFINE p == [proc[w] EXCEPT !.pc = "capture", !.todo = Rest(proc[w])]
<1>4. /\ proc[w] \in Proc /\ documents \in Seq(Document) /\ rows \in Seq(Row)
      /\ jobs \in [Responses -> Job] /\ kills \in Nat /\ RowsOK
      /\ proc[w].todo \subseteq DOMAIN CitationsOf[proc[w].job]
  BY DEF CaptureTypeInv, CaptureTypeOK, WorkOK
<1>5. /\ p \in Proc /\ p.pc = "capture" /\ p.todo = Rest(proc[w]) /\ p.job = proc[w].job
      /\ p.todo \subseteq DOMAIN CitationsOf[p.job]
  BY <1>4 DEF Proc, Rest
<1>6. documents' \in Seq(Document) /\ DOMAIN documents \subseteq DOMAIN documents'
  BY <1>3, <1>4, Appended
<1>7. Set(w, p) /\ UNCHANGED <<rows, jobs, kills>>
  BY <1>2 DEF Store
<1>8. RowsOK'
  BY <1>4, <1>6, <1>7 DEF RowsOK
<1> HIDE DEF p
<1> QED
  BY <1>1, <1>4, <1>5, <1>6, <1>7, <1>8, TypesKept

LEMMA TypesOfFetch ==
  ASSUME CaptureTypeInv, Inv', NEW w \in Processes,
         \/ Pace(w) \/ ReserveSlot(w) \/ AskArchive(w) \/ SnapshotFound(w)
         \/ \E target \in Urls : Redirect(w, target)
  PROVE  CaptureTypeInv'
<1>0. /\ proc[w] \in Proc /\ proc[w].url \in Urls /\ HostOf[proc[w].url] \in Keys
      /\ robots \in [Processes -> [Keys -> {"unread", "allowed", "disallowed"}]]
      /\ jobs \in [Responses -> Job] /\ proc \in [Processes -> Proc]
      /\ proc[w].todo \subseteq DOMAIN CitationsOf[proc[w].job]
  <2>1. proc[w] \in Proc
    BY DEF CaptureTypeInv, CaptureTypeOK
  <2>2. proc[w].url \in Urls
    BY <2>1 DEF Proc
  <2> QED
    BY <2>1, <2>2, SourcesAreTyped DEF CaptureTypeInv, CaptureTypeOK, WorkOK
<1>1. CASE Pace(w)
  <2> DEFINE p == [proc[w] EXCEPT !.pc = "fetch"]
  <2>1. /\ p \in Proc /\ p.pc = "fetch" /\ p.todo = proc[w].todo /\ p.job = proc[w].job
        /\ proc[w].todo # {}
    BY <1>0, <1>1 DEF Proc, Pace, CaptureTypeInv, WorkOK
  <2>2. robots' \in [Processes -> [Keys -> {"unread", "allowed", "disallowed"}]]
    BY <1>0, <1>1 DEF Pace, LearnRobots
  <2>3. Set(w, p) /\ UNCHANGED <<documents, rows, jobs, kills>>
    BY <1>1 DEF Pace
  <2> HIDE DEF p
  <2> QED
    BY <1>0, <2>1, <2>2, <2>3, TypesOfWork
<1>2. CASE ReserveSlot(w)
  BY <1>2 DEF ReserveSlot, captureVars, CaptureTypeInv, CaptureTypeOK, WorkOK, RowsOK
<1>3. CASE AskArchive(w)
  <2>1. PICK d \in DOMAIN documents :
          Set(w, [proc[w] EXCEPT !.pc = "cdx", !.source = d])
    BY <1>3 DEF AskArchive, Latest
  <2> DEFINE p == [proc[w] EXCEPT !.pc = "cdx", !.source = d]
  <2>2. d \in Nat
    BY <2>1 DEF CaptureTypeInv, CaptureTypeOK
  <2>3. /\ p \in Proc /\ p.pc = "cdx" /\ p.source = d /\ p.todo = proc[w].todo
        /\ p.job = proc[w].job
    BY <1>0, <2>2 DEF Proc
  <2> HIDE DEF p
  <2> QED
    BY <1>0, <1>3, <2>1, <2>3, TypesOfWork DEF AskArchive, ToCheck, p
<1>4. CASE SnapshotFound(w)
  <2> DEFINE p == [proc[w] EXCEPT !.pc = "snapshot"]
  <2>1. /\ p \in Proc /\ p.pc = "snapshot" /\ p.todo = proc[w].todo /\ p.job = proc[w].job
        /\ p.source = proc[w].source /\ proc[w].pc = "cdx"
    BY <1>0, <1>4 DEF Proc, SnapshotFound
  <2>2. proc[w].todo # {} /\ proc[w].source \in DOMAIN documents
    BY <2>1 DEF CaptureTypeInv, WorkOK
  <2> HIDE DEF p
  <2> QED
    BY <1>0, <1>4, <2>1, <2>2, TypesOfWork DEF SnapshotFound, p
<1>5. ASSUME NEW target \in Urls, Redirect(w, target)
      PROVE  CaptureTypeInv'
  <2> DEFINE p == [proc[w] EXCEPT !.pc = "hop", !.url = target, !.hops = @ + 1]
  <2>1. p \in Proc /\ p.pc = "hop" /\ p.todo = proc[w].todo /\ p.job = proc[w].job
    <3>1. proc[w].hops + 1 \in Nat
      BY <1>0 DEF Proc
    <3> HIDE <1>5
    <3> QED
      BY <1>0, <3>1 DEF Proc
  <2>2. proc[w].todo # {}
    BY <1>5 DEF Redirect, CaptureTypeInv, WorkOK
  <2> HIDE DEF p
  <2> QED
    BY <1>0, <1>5, <2>1, <2>2, TypesOfWork DEF Redirect, p
<1> QED
  BY <1>1, <1>2, <1>3, <1>4, <1>5
\* One verdict on the citation at hand.
Concludes(w, source, verdict, reason, archive) ==
  /\ Conclude(w, source, verdict, reason, archive)
  /\ source \in DOMAIN documents'
  /\ verdict \in {"verified", "partially_found", "not_found", "page_changed",
                  "archive_only", "unverifiable"}
  /\ reason \in UnverifiableReasons \cup {"none"}
  /\ archive \in Answers

\* A step of the quote check that settles a citation, and where its evidence comes from:
\* the latest document, the one archive.org was asked about, or the snapshot.
Settles(w) ==
  \E source, verdict, reason, archive :
    /\ source \in Nat
    /\ Concludes(w, source, verdict, reason, archive)
    /\ verdict = "not_found" \/ reason \in {"http_404", "http_410"} => archive = "negative"
    /\ \/ /\ UNCHANGED documents
          /\ \/ proc[w].pc = "verify" /\ source \in Latest(Source(proc[w]))
             \/ proc[w].pc \in {"cdx", "snapshot"} /\ source = proc[w].source
       \/ \E doc \in Document :
            /\ documents' = Append(documents, doc) /\ source = Len(documents')
            /\ doc.method = "archive" /\ doc.fetchedAt = proc[w].now

\* What the archive has to say never makes a verdict of an outage.
LEMMA SettlingIs ==
  ASSUME CaptureTypeInv, NEW w \in Processes,
         CheckLive(w) \/ ArchiveFails(w) \/ ArchiveDenies(w) \/ ArchiveVerifies(w)
  PROVE  /\ proc[w].pc \in Verifying /\ proc[w].todo # {}
         /\ UNCHANGED <<robots, jobs, kills>>
         /\ \/ Settles(w)
            \/ /\ Set(w, [NextCheck(proc[w]) EXCEPT !.deferred = TRUE])
               /\ UNCHANGED <<documents, rows>>
<1>0. /\ proc[w] \in Proc /\ documents \in Seq(Document)
      /\ \A d \in DOMAIN documents : d \in Nat /\ documents[d] \in Document
      /\ proc[w].pc \in {"cdx", "snapshot"} =>
           proc[w].todo # {} /\ proc[w].source \in DOMAIN documents
  BY DEF CaptureTypeInv, CaptureTypeOK, WorkOK
<1>1. \A d \in DOMAIN documents : documents[d].reason \in UnverifiableReasons \cup {"none"}
  BY <1>0 DEF Document
<1>2. CASE CheckLive(w)
  <2>1. proc[w].pc = "verify" /\ proc[w].todo # {} /\ UNCHANGED <<documents, robots, jobs, kills>>
    BY <1>2 DEF CheckLive, ToCheck
  <2>2. PICK d \in Latest(Source(proc[w])) :
          IF documents[d].reason # "none"
          THEN /\ documents[d].reason \notin {"http_404", "http_410"}
               /\ Conclude(w, d, "unverifiable", documents[d].reason, "unasked")
          ELSE CASE MatchOf(Cited(proc[w]), d) = "full" ->
                      Conclude(w, d, "verified", "none", "unasked")
                 [] MatchOf(Cited(proc[w]), d) = "partial" ->
                      Conclude(w, d, "partially_found", "none", "unasked")
                 [] MatchOf(Cited(proc[w]), d) = "unmatchable" ->
                      Conclude(w, d, "unverifiable", "no_checkable_text", "unasked")
                 [] OTHER -> FALSE
    BY <1>2 DEF CheckLive, Source
  <2>3. d \in DOMAIN documents /\ d \in Nat
    BY <1>0 DEF Latest
  <2>4. PICK verdict, reason :
          /\ Conclude(w, d, verdict, reason, "unasked")
          /\ verdict \in {"verified", "partially_found", "unverifiable"}
          /\ reason \in (UnverifiableReasons \cup {"none"}) \ {"http_404", "http_410"}
    BY <1>1, <2>2, <2>3 DEF UnverifiableReasons
  <2> QED
    BY <2>1, <2>2, <2>3, <2>4 DEF Settles, Concludes, Answers, Verifying
<1>3. CASE ArchiveFails(w)
  <2>1. /\ proc[w].pc \in {"cdx", "snapshot"} /\ UNCHANGED <<documents, robots, jobs, kills>>
        /\ Outage(w)
    BY <1>3 DEF ArchiveFails
  <2>2. proc[w].source \in DOMAIN documents /\ proc[w].source \in Nat /\ proc[w].todo # {}
    BY <1>0, <2>1
  <2>3. CASE Conclude(w, proc[w].source, "unverifiable", "archive_unavailable", "outage")
    <3>1. Concludes(w, proc[w].source, "unverifiable", "archive_unavailable", "outage")
      BY <2>1, <2>2, <2>3 DEF Concludes, Answers, UnverifiableReasons
    <3> QED
      BY <2>1, <2>2, <3>1 DEF Settles, Verifying
  <2>4. CASE Set(w, [NextCheck(proc[w]) EXCEPT !.deferred = TRUE]) /\ UNCHANGED rows
    BY <2>1, <2>2, <2>4 DEF Verifying
  <2> QED
    BY <2>1, <2>3, <2>4 DEF Outage
<1>4. CASE ArchiveDenies(w)
  <2>1. /\ proc[w].pc \in {"cdx", "snapshot"} /\ UNCHANGED <<documents, robots, jobs, kills>>
        /\ KeepLive(w, "negative")
    BY <1>4 DEF ArchiveDenies
  <2>2. proc[w].source \in DOMAIN documents /\ proc[w].source \in Nat /\ proc[w].todo # {}
    BY <1>0, <2>1
  <2>3. PICK verdict, reason :
          /\ Conclude(w, proc[w].source, verdict, reason, "negative")
          /\ verdict \in {"not_found", "unverifiable"}
          /\ reason \in UnverifiableReasons \cup {"none"}
    BY <1>1, <2>1, <2>2 DEF KeepLive
  <2>4. Concludes(w, proc[w].source, verdict, reason, "negative")
    BY <2>1, <2>2, <2>3 DEF Concludes, Answers
  <2> QED
    BY <2>1, <2>2, <2>4 DEF Settles, Verifying
<1>5. CASE ArchiveVerifies(w)
  <2>1. /\ proc[w].pc = "snapshot" /\ proc[w].todo # {} /\ UNCHANGED <<robots, jobs, kills>>
        /\ Cited(proc[w]) \in Citations /\ Source(proc[w]) \in Urls
    BY <1>0, <1>5, CitedIsCited DEF ArchiveVerifies
  <2>2. PICK text \in Texts : documents' = Append(documents,
          [url |-> Source(proc[w]), method |-> "archive", reason |-> "none", text |-> text,
           fetchedAt |-> proc[w].now, seen |-> 0])
    BY <1>5 DEF ArchiveVerifies, Source
  <2> DEFINE doc == [url |-> Source(proc[w]), method |-> "archive", reason |-> "none",
                     text |-> text, fetchedAt |-> proc[w].now, seen |-> 0]
  <2>3. doc \in Document /\ doc.method = "archive" /\ doc.fetchedAt = proc[w].now
    BY <1>0, <2>1 DEF Document, Proc
  <2> HIDE DEF doc
  <2>4. /\ documents' = Append(documents, doc) /\ Len(documents') = Len(documents) + 1
        /\ Len(documents') \in DOMAIN documents' /\ Len(documents') \in Nat
    BY <1>0, <2>2, <2>3, Appended DEF doc
  <2>5. PICK verdict \in {"archive_only", "page_changed"} :
          Conclude(w, Len(documents) + 1, verdict, "none", "verified")
    BY <1>5 DEF ArchiveVerifies
  <2>6. Concludes(w, Len(documents'), verdict, "none", "verified")
    BY <2>4, <2>5 DEF Concludes, Answers
  <2> QED
    BY <2>1, <2>3, <2>4, <2>6 DEF Settles, Verifying
<1> QED
  BY <1>2, <1>3, <1>4, <1>5
\* A verdict appends a row that names a document, and no document is lost.
LEMMA SettlesIs ==
  ASSUME CaptureTypeInv, NEW w \in Processes, proc[w].todo # {}, Settles(w)
  PROVE  /\ Set(w, NextCheck(proc[w]))
         /\ documents' \in Seq(Document) /\ DOMAIN documents \subseteq DOMAIN documents'
         /\ \A d \in DOMAIN documents : documents'[d] = documents[d]
         /\ \E row \in Row : /\ rows' = Append(rows, row)
                             /\ row.document \in DOMAIN documents'
                             /\ row.at = proc[w].now /\ row.partly = proc[w].partly
                             /\ row.verdict = "not_found"
                                  \/ row.reason \in {"http_404", "http_410"}
                                  => row.archive = "negative"
                             /\ \/ /\ UNCHANGED documents
                                   /\ \/ /\ proc[w].pc = "verify"
                                         /\ row.document \in Latest(Source(proc[w]))
                                      \/ /\ proc[w].pc \in {"cdx", "snapshot"}
                                         /\ row.document = proc[w].source
                                \/ documents'[row.document].fetchedAt = proc[w].now
<1>0. /\ proc[w] \in Proc /\ documents \in Seq(Document) /\ Cited(proc[w]) \in Citations
      /\ proc[w].now \in Nat /\ proc[w].partly \in BOOLEAN
  <2>1. proc[w] \in Proc /\ documents \in Seq(Document)
    BY DEF CaptureTypeInv, CaptureTypeOK
  <2> QED
    BY <2>1, CitedIsCited DEF Proc
<1>1. PICK source, verdict, reason, archive :
        /\ source \in Nat
        /\ Concludes(w, source, verdict, reason, archive)
        /\ verdict = "not_found" \/ reason \in {"http_404", "http_410"} => archive = "negative"
        /\ \/ /\ UNCHANGED documents
              /\ \/ proc[w].pc = "verify" /\ source \in Latest(Source(proc[w]))
                 \/ proc[w].pc \in {"cdx", "snapshot"} /\ source = proc[w].source
           \/ \E doc \in Document :
                /\ documents' = Append(documents, doc) /\ source = Len(documents')
                /\ doc.method = "archive" /\ doc.fetchedAt = proc[w].now
  BY DEF Settles
<1> DEFINE row == [citation |-> Cited(proc[w]), document |-> source, at |-> proc[w].now,
                   archive |-> archive, partly |-> proc[w].partly, verdict |-> verdict,
                   reason |-> reason]
<1>2. row \in Row
  BY <1>0, <1>1 DEF Row, Concludes
<1>3. rows' = Append(rows, row) /\ Set(w, NextCheck(proc[w])) /\ source \in DOMAIN documents'
  BY <1>1 DEF Concludes, Conclude
<1>4. /\ row.document = source /\ row.at = proc[w].now /\ row.partly = proc[w].partly
      /\ row.verdict = verdict /\ row.reason = reason /\ row.archive = archive
  OBVIOUS
<1> HIDE DEF row
<1>5. /\ documents' \in Seq(Document) /\ DOMAIN documents \subseteq DOMAIN documents'
      /\ \A d \in DOMAIN documents : documents'[d] = documents[d]
      /\ UNCHANGED documents \/ documents'[source].fetchedAt = proc[w].now
  <2>1. CASE UNCHANGED documents
    BY <1>0, <2>1
  <2>2. ASSUME NEW doc \in Document, documents' = Append(documents, doc),
               source = Len(documents'), doc.fetchedAt = proc[w].now
        PROVE  /\ documents' \in Seq(Document) /\ DOMAIN documents \subseteq DOMAIN documents'
               /\ \A d \in DOMAIN documents : documents'[d] = documents[d]
               /\ documents'[source].fetchedAt = proc[w].now
    BY <1>0, <2>2, Appended
  <2> QED
    BY <1>1, <2>1, <2>2
<1>6. \/ /\ UNCHANGED documents
         /\ \/ proc[w].pc = "verify" /\ row.document \in Latest(Source(proc[w]))
            \/ proc[w].pc \in {"cdx", "snapshot"} /\ row.document = proc[w].source
      \/ documents'[row.document].fetchedAt = proc[w].now
  <2>1. CASE UNCHANGED documents
    <3>1. ~\E doc \in Document : documents' = Append(documents, doc)
      BY <1>0, <2>1, Appended
    <3> QED
      BY <1>1, <1>4, <2>1, <3>1
  <2>2. CASE ~UNCHANGED documents
    BY <1>4, <1>5, <2>2
  <2> QED
    BY <2>1, <2>2
<1>7. row.verdict = "not_found" \/ row.reason \in {"http_404", "http_410"}
        => row.archive = "negative"
  BY <1>1, <1>4
<1> QED
  BY <1>2, <1>3, <1>4, <1>5, <1>6, <1>7

LEMMA TypesOfVerdict ==
  ASSUME CaptureTypeInv, Inv', NEW w \in Processes,
         CheckLive(w) \/ ArchiveFails(w) \/ ArchiveDenies(w) \/ ArchiveVerifies(w)
  PROVE  CaptureTypeInv'
<1>0. /\ proc[w] \in Proc /\ rows \in Seq(Row) /\ RowsOK
      /\ robots \in [Processes -> [Keys -> {"unread", "allowed", "disallowed"}]]
      /\ jobs \in [Responses -> Job] /\ kills \in Nat
      /\ proc[w].todo \subseteq DOMAIN CitationsOf[proc[w].job]
  BY DEF CaptureTypeInv, CaptureTypeOK, WorkOK
<1>1. proc[w].todo # {} /\ UNCHANGED <<robots, jobs, kills>>
  BY SettlingIs
<1> DEFINE p == NextCheck(proc[w])
           q == [NextCheck(proc[w]) EXCEPT !.deferred = TRUE]
<1>2. p \in Proc /\ p.pc = "verify" /\ p.todo = Rest(proc[w]) /\ p.job = proc[w].job
  BY <1>0 DEF Proc, NextCheck, Rest
<1>3. q \in Proc /\ q.pc = "verify" /\ q.todo = Rest(proc[w]) /\ q.job = proc[w].job
  BY <1>0 DEF Proc, NextCheck, Rest
<1> HIDE DEF p, q
<1>4. Rest(proc[w]) \subseteq DOMAIN CitationsOf[proc[w].job]
  BY <1>0 DEF Rest
<1>5. CASE Settles(w)
  <2>1. /\ Set(w, p) /\ documents' \in Seq(Document)
        /\ DOMAIN documents \subseteq DOMAIN documents'
    BY <1>1, <1>5, SettlesIs DEF p
  <2>2. PICK row \in Row : rows' = Append(rows, row) /\ row.document \in DOMAIN documents'
    BY <1>1, <1>5, SettlesIs
  <2>3. rows' \in Seq(Row) /\ RowsOK'
    BY <1>0, <2>1, <2>2, Appended DEF RowsOK
  <2> QED
    BY <1>0, <1>1, <1>2, <1>4, <2>1, <2>3, TypesKept
<1>6. CASE Set(w, q) /\ UNCHANGED <<documents, rows>>
  BY <1>0, <1>1, <1>3, <1>4, <1>6, TypesOfWork
<1> QED
  BY <1>5, <1>6, SettlingIs DEF q

\* What a step does to the throttle: a step of its own, or, when a snapshot has been found,
\* a process that asks again at once.
LEMMA ThrottleStep ==
  ASSUME CaptureTypeInv, [Next]_vars
  PROVE  \/ [ThrottleNext]_throttleVars
         \/ \E w \in Processes : SnapshotFound(w)
<1>1. ASSUME NEW w \in Processes, Step(w)
      PROVE  \/ [ThrottleNext]_throttleVars
             \/ SnapshotFound(w)
  <2>1. CASE \/ \E r \in Responses : Begin(w, r)
             \/ CacheHit(w) \/ CacheMiss(w) \/ BeginChecks(w) \/ RobotsBlock(w)
             \/ PassOver(w) \/ CheckLive(w) \/ OutOfTime(w) \/ End(w)
    BY <2>1 DEF Begin, CacheHit, CacheMiss, BeginChecks, RobotsBlock, PassOver, CheckLive,
                OutOfTime, End, throttleVars
  <2>2. CASE Pace(w) \/ AskArchive(w)
    BY <2>2 DEF Pace, AskArchive, ThrottleNext
  <2>3. CASE ReserveSlot(w)
    <3>1. proc[w].url \in Urls
      BY DEF CaptureTypeInv, CaptureTypeOK, Proc
    <3>2. /\ HostOf[proc[w].url] \in Keys
          /\ {GatewayInterval, DomainInterval, ArchiveInterval} \subseteq Intervals
      BY <3>1, SourcesAreTyped
    <3>3. proc[w].pc \in {"cdx", "snapshot"} => ArchiveKey \in Keys
      BY SourcesAreTyped
    <3> QED
      BY <2>3, <3>2, <3>3 DEF ReserveSlot, ThrottleNext
  <2>4. CASE \/ \E target \in Urls : Redirect(w, target)
             \/ FetchFails(w) \/ Fetched(w) \/ ArchiveFails(w) \/ ArchiveDenies(w)
             \/ ArchiveVerifies(w)
    BY <2>4 DEF Redirect, FetchFails, Fetched, ArchiveFails, ArchiveDenies, ArchiveVerifies,
                ThrottleNext
  <2> QED
    BY <1>1, <2>1, <2>2, <2>3, <2>4 DEF Step
<1>2. ASSUME NEW w \in Processes, Kill(w) PROVE ThrottleNext
  BY <1>2 DEF Kill, ThrottleNext
<1>3. CASE Tick
  BY <1>3 DEF Tick, ThrottleNext
<1>4. CASE UNCHANGED vars
  BY <1>4 DEF vars
<1> QED
  BY <1>1, <1>2, <1>3, <1>4 DEF Next
\* Slots stay ahead of their reservations, and are spaced, whatever the capture does.
LEMMA SlotsKept ==
  ASSUME CaptureTypeInv, [Next]_vars
  PROVE  /\ Inv'
         /\ \A k \in Keys : slots'[k] # slots[k] =>
              booked'[k].at >= booked[k].at + booked[k].interval
<1>1. Inv
  BY DEF CaptureTypeInv, CaptureTypeOK
<1>2. CASE [ThrottleNext]_throttleVars
  BY <1>1, <1>2, StepKeepsInv
<1>3. ASSUME NEW w \in Processes, SnapshotFound(w)
      PROVE  Inv' /\ slots' = slots
  <2>1. clock \in Nat /\ call \in [Processes -> Call]
    BY <1>1, IntervalsAreNaturals DEF Inv, ThrottleTypeOK
  <2>2. [state |-> "asked", at |-> clock] \in Call
    BY <2>1 DEF Call
  <2>3. call' \in [Processes -> Call] /\ UNCHANGED <<clock, slots, booked>>
    BY <1>3, <2>1, <2>2 DEF SnapshotFound
  <2> QED
    BY <1>1, <2>3 DEF Inv, ThrottleTypeOK, SlotsAhead
<1> QED
  BY <1>2, <1>3, ThrottleStep

LEMMA CaptureTypes == CaptureTypeInv /\ [Next]_vars => CaptureTypeInv'
<1> SUFFICES ASSUME CaptureTypeInv, [Next]_vars PROVE CaptureTypeInv'
  OBVIOUS
<1>0. Inv'
  BY SlotsKept
<1>1. ASSUME NEW w \in Processes, Step(w) \/ Kill(w)
      PROVE  CaptureTypeInv'
  BY <1>0, <1>1, TypesOfCapture, TypesOfStoring, TypesOfFetch, TypesOfVerdict DEF Step
<1>2. CASE Tick \/ UNCHANGED vars
  <2>1. UNCHANGED captureVars
    BY <1>2 DEF Tick, vars
  <2> QED
    BY <1>0, <2>1 DEF captureVars, CaptureTypeInv, CaptureTypeOK, WorkOK, RowsOK
<1> QED
  BY <1>1, <1>2 DEF Next

LEMMA InitCaptureTypes == Init => CaptureTypeInv
<1> SUFFICES ASSUME Init PROVE CaptureTypeInv
  OBVIOUS
<1>1. Inv
  BY InitialInv DEF Init
<1>2. documents = <<>> /\ rows = <<>> /\ \A w \in Processes : proc[w] = Idle
  BY DEF Init
<1>3. CaptureTypeOK
  BY <1>1, IdleIsTyped DEF Init, CaptureTypeOK, NothingRead, Job
<1>4. WorkOK /\ RowsOK
  BY <1>2, IdleIsTyped DEF WorkOK, RowsOK
<1> QED
  BY <1>3, <1>4 DEF CaptureTypeInv

\* Every reachable state of the throttle, the documents, the verdicts, the jobs and the
\* passes over them is well typed, and a pass is always at a citation of its own response.
THEOREM CaptureIsTyped == Spec => []CaptureTypeInv
BY InitCaptureTypes, CaptureTypes, PTL DEF Spec

\* The throttle spaces the requests of the capture and of the archive lookup, which asks
\* twice in a row, as it spaces those of any caller.
THEOREM CaptureIsPaced == Spec => SlotsAreSpaced
<1>1. CaptureTypeInv /\ [Next]_vars =>
        [\A k \in Keys : slots'[k] # slots[k] =>
            booked'[k].at >= booked[k].at + booked[k].interval]_slots
  BY SlotsKept
<1> QED
  BY <1>1, InitCaptureTypes, CaptureTypes, PTL DEF Spec, SlotsAreSpaced

-----------------------------------------------------------------------------
(* One document for each need *)

\* What every step leaves as it is: the other processes, and the documents there are.
LEMMA OthersWait ==
  ASSUME CaptureTypeInv, NEW w \in Processes, Step(w) \/ Kill(w)
  PROVE  \A v \in Processes : v # w => proc'[v] = proc[v]
<1>1. proc \in [Processes -> Proc]
  BY DEF CaptureTypeInv, CaptureTypeOK
<1>2. ASSUME NEW p, Set(w, p) PROVE \A v \in Processes : v # w => proc'[v] = proc[v]
  BY <1>1, <1>2 DEF Set
<1>3. CASE \/ \E r \in Responses : Begin(w, r)
           \/ CacheHit(w) \/ CacheMiss(w) \/ BeginChecks(w) \/ Pace(w)
           \/ \E target \in Urls : Redirect(w, target)
           \/ PassOver(w) \/ AskArchive(w) \/ SnapshotFound(w)
           \/ OutOfTime(w) \/ End(w) \/ Kill(w)
  BY <1>2, <1>3 DEF Begin, CacheHit, CacheMiss, BeginChecks, Pace, Redirect, PassOver,
                    AskArchive, SnapshotFound, OutOfTime, End, Kill
<1>4. CASE ReserveSlot(w)
  BY <1>4 DEF ReserveSlot, captureVars
<1>5. CASE RobotsBlock(w) \/ FetchFails(w) \/ Fetched(w)
  BY <1>2, <1>5, StoringIs DEF Store
<1>6. CASE CheckLive(w) \/ ArchiveFails(w) \/ ArchiveDenies(w) \/ ArchiveVerifies(w)
  <2>1. CASE Settles(w)
    BY <1>2, <2>1 DEF Settles, Concludes, Conclude
  <2> QED
    BY <1>2, <1>6, <2>1, SettlingIs
<1> QED
  BY <1>3, <1>4, <1>5, <1>6 DEF Step
\* A document is appended by a capture, with the source and the look into the cache that
\* it was for, or comes from the archive.
LEMMA DocumentSteps ==
  ASSUME CaptureTypeInv, [Next]_vars
  PROVE  \/ UNCHANGED documents
         \/ \E doc \in Document :
              /\ documents' = Append(documents, doc)
              /\ \/ doc.method = "archive"
                 \/ \E w \in Processes :
                      /\ RobotsBlock(w) \/ FetchFails(w) \/ Fetched(w)
                      /\ proc[w].pc \in {"hop", "fetch"} /\ doc.url = Source(proc[w])
                      /\ doc.fetchedAt = proc[w].now /\ doc.seen = proc[w].seen
<1>1. ASSUME NEW w \in Processes,
             \/ \E r \in Responses : Begin(w, r)
             \/ CacheHit(w) \/ CacheMiss(w) \/ BeginChecks(w) \/ Pace(w)
             \/ \E target \in Urls : Redirect(w, target)
             \/ PassOver(w) \/ AskArchive(w) \/ SnapshotFound(w)
             \/ OutOfTime(w) \/ End(w) \/ Kill(w) \/ ReserveSlot(w)
      PROVE  UNCHANGED documents
  BY <1>1 DEF Begin, CacheHit, CacheMiss, BeginChecks, Pace, Redirect, PassOver,
              AskArchive, SnapshotFound, OutOfTime, End, Kill, ReserveSlot, captureVars
<1>2. ASSUME NEW w \in Processes, RobotsBlock(w) \/ FetchFails(w) \/ Fetched(w)
      PROVE  \E doc \in Document :
               /\ documents' = Append(documents, doc)
               /\ proc[w].pc \in {"hop", "fetch"} /\ doc.url = Source(proc[w])
               /\ doc.fetchedAt = proc[w].now /\ doc.seen = proc[w].seen
  BY <1>2, StoringIs, StoreIs
<1>3. ASSUME NEW w \in Processes,
             CheckLive(w) \/ ArchiveFails(w) \/ ArchiveDenies(w) \/ ArchiveVerifies(w)
      PROVE  \/ UNCHANGED documents
             \/ \E doc \in Document : /\ documents' = Append(documents, doc)
                                      /\ doc.method = "archive"
  BY <1>3, SettlingIs DEF Settles
<1>4. CASE Tick \/ UNCHANGED vars
  BY <1>4 DEF Tick, vars, captureVars
<1>5. ASSUME NEW w \in Processes, Step(w) \/ Kill(w)
      PROVE  \/ \/ \E r \in Responses : Begin(w, r)
                \/ CacheHit(w) \/ CacheMiss(w) \/ BeginChecks(w) \/ Pace(w)
                \/ \E target \in Urls : Redirect(w, target)
                \/ PassOver(w) \/ AskArchive(w) \/ SnapshotFound(w)
                \/ OutOfTime(w) \/ End(w) \/ Kill(w) \/ ReserveSlot(w)
             \/ RobotsBlock(w) \/ FetchFails(w) \/ Fetched(w)
             \/ CheckLive(w) \/ ArchiveFails(w) \/ ArchiveDenies(w) \/ ArchiveVerifies(w)
  BY <1>5 DEF Step
<1> QED
  BY <1>1, <1>2, <1>3, <1>4, <1>5 DEF Next

LEMMA DocumentsStay ==
  ASSUME CaptureTypeInv, [Next]_vars
  PROVE  /\ documents \in Seq(Document) /\ Len(documents) \in Nat
         /\ DOMAIN documents = 1..Len(documents)
         /\ DOMAIN documents \subseteq DOMAIN documents' /\ Len(documents) <= Len(documents')
         /\ \A d \in DOMAIN documents : documents'[d] = documents[d]
<1>1. documents \in Seq(Document)
  BY DEF CaptureTypeInv, CaptureTypeOK
<1>2. ASSUME NEW doc \in Document, documents' = Append(documents, doc)
      PROVE  /\ DOMAIN documents \subseteq DOMAIN documents' /\ Len(documents) <= Len(documents')
             /\ \A d \in DOMAIN documents : documents'[d] = documents[d]
  BY <1>1, <1>2, Appended
<1> QED
  BY <1>1, <1>2, DocumentSteps

\* Times are naturals.
LEMMA TimesOfPasses ==
  ASSUME CaptureTypeInv, NEW w \in Processes
  PROVE  /\ proc[w].now \in Nat /\ proc[w].seen \in Nat /\ proc[w].job \in Responses
         /\ proc[w].partly \in BOOLEAN
BY DEF CaptureTypeInv, CaptureTypeOK, Proc

LEMMA TimesOfDocuments ==
  ASSUME CaptureTypeInv, NEW d \in DOMAIN documents
  PROVE  documents[d].fetchedAt \in Nat /\ CacheWindow \in Nat
<1>1. documents[d] \in Document
  BY DEF CaptureTypeInv, CaptureTypeOK
<1> QED
  BY <1>1, SourcesAreTyped DEF Document

\* How a pass goes on, for the response it is at and the `now' it began at.
SamePass(p, q) == q.job = p.job /\ q.now = p.now

LEMMA PassSteps ==
  ASSUME CaptureTypeInv, NEW w \in Processes, Step(w) \/ Kill(w)
  PROVE  LET p == proc[w]
             q == proc'[w]
         IN  \/ q = p
             \/ q.pc = "idle"
             \/ \E r \in Responses : q.pc = "capture" /\ q.job = r /\ q.todo = Sources(r)
             \/ /\ CacheHit(w) \/ RobotsBlock(w) \/ FetchFails(w) \/ Fetched(w)
                /\ p.pc \in Capturing /\ q.pc = "capture" /\ SamePass(p, q)
                /\ p.todo # {} /\ q.todo = Rest(p)
             \/ /\ CacheMiss(w) /\ p.pc = "capture" /\ q.pc = "hop" /\ SamePass(p, q)
                /\ q.todo = p.todo /\ q.seen = Len(documents)
             \/ /\ p.pc \in {"hop", "fetch"} /\ q.pc \in {"hop", "fetch"} /\ SamePass(p, q)
                /\ q.todo = p.todo /\ q.seen = p.seen
             \/ /\ p.pc = "capture" /\ q.pc = "verify" /\ SamePass(p, q)
                /\ q.partly \/ p.todo = {}
             \/ /\ p.pc \in Verifying /\ q.pc = "verify" /\ SamePass(p, q)
                /\ q.partly \/ ~p.partly
             \/ /\ p.pc = "verify" /\ q.pc = "cdx" /\ SamePass(p, q) /\ q.partly = p.partly
                /\ p.todo # {} /\ q.source \in Latest(Source(p))
             \/ /\ p.pc = "cdx" /\ q.pc = "snapshot" /\ SamePass(p, q)
                /\ q.partly = p.partly /\ q.source = p.source
<1> DEFINE p == proc[w]
           q == proc'[w]
<1>0. p \in Proc /\ proc \in [Processes -> Proc]
  BY DEF CaptureTypeInv, CaptureTypeOK
<1>a. ASSUME NEW new, Set(w, new) PROVE q = new
  BY <1>0, <1>a DEF Set
<1>1. CASE ReserveSlot(w)
  BY <1>1 DEF ReserveSlot, captureVars
<1>2. CASE End(w) \/ Kill(w)
  BY <1>2, <1>a, IdleIsTyped DEF End, Kill
<1>3. ASSUME NEW r \in Responses, Begin(w, r)
      PROVE  q.pc = "capture" /\ q.job = r /\ q.todo = Sources(r)
  <2>1. q = [Idle EXCEPT !.pc = "capture", !.job = r, !.now = clock, !.todo = Sources(r)]
    BY <1>3, <1>a DEF Begin
  <2> QED
    BY <2>1 DEF Idle
<1>4. CASE CacheHit(w)
  <2>1. q = [p EXCEPT !.todo = Rest(p)] /\ p.pc = "capture" /\ p.todo # {}
    BY <1>4, <1>a DEF CacheHit
  <2>2. q.pc = "capture" /\ SamePass(p, q) /\ q.todo = Rest(p)
    BY <1>0, <2>1 DEF Proc, SamePass
  <2> QED
    BY <1>4, <2>1, <2>2 DEF Capturing
<1>5. CASE RobotsBlock(w) \/ FetchFails(w) \/ Fetched(w)
  <2>1. /\ p.pc \in {"hop", "fetch"} /\ p.todo # {}
        /\ q = [p EXCEPT !.pc = "capture", !.todo = Rest(p)]
    BY <1>5, <1>a, StoringIs DEF Store, CaptureTypeInv, WorkOK
  <2>2. q.pc = "capture" /\ SamePass(p, q) /\ q.todo = Rest(p)
    BY <1>0, <2>1 DEF Proc, SamePass
  <2> QED
    BY <1>5, <2>1, <2>2 DEF Capturing
<1>6. CASE CacheMiss(w)
  <2>1. /\ p.pc = "capture"
        /\ q = [p EXCEPT !.pc = "hop", !.url = Source(p), !.hops = 0, !.seen = Len(documents)]
    BY <1>6, <1>a DEF CacheMiss
  <2>2. q.pc = "hop" /\ SamePass(p, q) /\ q.todo = p.todo /\ q.seen = Len(documents)
    BY <1>0, <2>1 DEF Proc, SamePass
  <2> QED
    BY <1>6, <2>1, <2>2
<1>7. CASE Pace(w)
  <2>1. p.pc = "hop" /\ q = [p EXCEPT !.pc = "fetch"]
    BY <1>7, <1>a DEF Pace
  <2>2. q.pc = "fetch" /\ SamePass(p, q) /\ q.todo = p.todo /\ q.seen = p.seen
    BY <1>0, <2>1 DEF Proc, SamePass
  <2> QED
    BY <2>1, <2>2
<1>8. ASSUME NEW target \in Urls, Redirect(w, target)
      PROVE  /\ p.pc = "fetch" /\ q.pc = "hop" /\ SamePass(p, q)
             /\ q.todo = p.todo /\ q.seen = p.seen
  <2>1. p.pc = "fetch" /\ q = [p EXCEPT !.pc = "hop", !.url = target, !.hops = p.hops + 1]
    BY <1>8, <1>a DEF Redirect
  <2> HIDE <1>8
  <2> QED
    BY <1>0, <2>1 DEF Proc, SamePass
<1>9. CASE BeginChecks(w)
  <2>1. PICK late \in BOOLEAN :
          /\ ~late => p.todo = {}
          /\ q = [p EXCEPT !.pc = "verify", !.todo = DOMAIN CitationsOf[p.job],
                           !.partly = late]
    BY <1>9, <1>a DEF BeginChecks
  <2>2. p.pc = "capture"
    BY <1>9 DEF BeginChecks
  <2>3. q.pc = "verify" /\ SamePass(p, q) /\ q.partly = late
    BY <1>0, <2>1 DEF Proc, SamePass
  <2> QED
    BY <2>1, <2>2, <2>3
<1>10. ASSUME q = NextCheck(p) \/ q = [NextCheck(p) EXCEPT !.deferred = TRUE]
       PROVE  q.pc = "verify" /\ SamePass(p, q) /\ q.partly = p.partly
  BY <1>0, <1>10 DEF NextCheck, Proc, SamePass
<1>11. CASE PassOver(w)
  <2>1. q = NextCheck(p) /\ p.pc = "verify"
    BY <1>11, <1>a DEF PassOver
  <2> QED
    BY <1>10, <2>1 DEF Verifying
<1>12. CASE CheckLive(w) \/ ArchiveFails(w) \/ ArchiveDenies(w) \/ ArchiveVerifies(w)
  <2>1. p.pc \in Verifying /\ p.todo # {}
    BY <1>12, SettlingIs
  <2>2. q = NextCheck(p) \/ q = [NextCheck(p) EXCEPT !.deferred = TRUE]
    BY <1>12, <1>a, <2>1, SettlingIs, SettlesIs
  <2> QED
    BY <1>10, <2>1, <2>2
<1>13. CASE OutOfTime(w)
  <2>1. p.pc = "verify" /\ q = [p EXCEPT !.todo = {}, !.partly = TRUE]
    BY <1>13, <1>a DEF OutOfTime
  <2>2. q.pc = "verify" /\ SamePass(p, q) /\ q.partly
    BY <1>0, <2>1 DEF Proc, SamePass
  <2> QED
    BY <2>1, <2>2 DEF Verifying
<1>14. CASE AskArchive(w)
  <2>1. PICK d \in Latest(Source(p)) : q = [p EXCEPT !.pc = "cdx", !.source = d]
    BY <1>14, <1>a DEF AskArchive, Source
  <2>2. p.pc = "verify" /\ p.todo # {}
    BY <1>14 DEF AskArchive, ToCheck
  <2>3. q.pc = "cdx" /\ SamePass(p, q) /\ q.partly = p.partly /\ q.source = d
    BY <1>0, <2>1 DEF Proc, SamePass
  <2> QED
    BY <2>1, <2>2, <2>3
<1>15. CASE SnapshotFound(w)
  <2>1. p.pc = "cdx" /\ q = [p EXCEPT !.pc = "snapshot"]
    BY <1>15, <1>a DEF SnapshotFound
  <2>2. /\ q.pc = "snapshot" /\ SamePass(p, q) /\ q.partly = p.partly
        /\ q.source = p.source
    BY <1>0, <2>1 DEF Proc, SamePass
  <2> QED
    BY <2>1, <2>2
<1> HIDE DEF p, q
<1>16. QED
  BY <1>1, <1>2, <1>3, <1>4, <1>5, <1>6, <1>7, <1>8, <1>9, <1>11, <1>12, <1>13, <1>14,
     <1>15 DEF Step, p, q
\* A pass that is between its look into the cache and the document: it has just looked,
\* or it was there before.
LEMMA MissesStay ==
  ASSUME CaptureTypeInv, [Next]_vars, MissesAreTrue
  PROVE  MissesAreTrue'
<1> SUFFICES ASSUME NEW v \in Processes, proc'[v].pc \in {"hop", "fetch"}
             PROVE  /\ proc'[v].seen <= Len(documents')
                    /\ \A d \in 1..proc'[v].seen :
                         ~(/\ documents'[d].url = Source(proc'[v])
                           /\ documents'[d].method = "live"
                           /\ documents'[d].fetchedAt + CacheWindow >= proc'[v].now)
  BY DEF MissesAreTrue, Source, Cited
<1>0. /\ documents \in Seq(Document) /\ Len(documents) \in Nat /\ Len(documents') \in Nat
      /\ DOMAIN documents = 1..Len(documents) /\ Len(documents) <= Len(documents')
      /\ \A d \in 1..Len(documents) : documents'[d] = documents[d]
      /\ proc[v].seen \in Nat
  BY DocumentsStay, CaptureTypes DEF CaptureTypeInv, CaptureTypeOK, Proc
<1>1. CASE /\ proc[v].pc \in {"hop", "fetch"} /\ SamePass(proc[v], proc'[v])
           /\ proc'[v].todo = proc[v].todo /\ proc'[v].seen = proc[v].seen
  <2>1. Source(proc'[v]) = Source(proc[v])
    BY <1>1 DEF Source, Cited, SamePass
  <2>2. /\ proc[v].seen <= Len(documents)
        /\ \A d \in 1..proc[v].seen : ~(/\ documents[d].url = Source(proc[v])
                                        /\ documents[d].method = "live"
                                        /\ documents[d].fetchedAt + CacheWindow >= proc[v].now)
    BY <1>1 DEF MissesAreTrue
  <2> QED
    BY <1>0, <1>1, <2>1, <2>2 DEF SamePass
<1>2. CASE /\ CacheMiss(v) /\ SamePass(proc[v], proc'[v])
           /\ proc'[v].todo = proc[v].todo /\ proc'[v].seen = Len(documents)
  <2>1. Source(proc'[v]) = Source(proc[v])
    BY <1>2 DEF Source, Cited, SamePass
  <2>2. Cached(Source(proc[v]), proc[v].now) = {} /\ documents' = documents
    BY <1>2 DEF CacheMiss
  <2> QED
    BY <1>0, <1>2, <2>1, <2>2 DEF Cached, SamePass
<1>3. CASE proc'[v] = proc[v]
  BY <1>1, <1>3 DEF SamePass
<1>4. CASE Step(v) \/ Kill(v)
  <2>1. proc'[v].pc \notin {"idle", "capture", "verify", "cdx", "snapshot"}
    OBVIOUS
  <2> QED
    BY <1>1, <1>2, <1>3, <1>4, <2>1, PassSteps
<1>5. CASE Tick \/ UNCHANGED vars
  BY <1>3, <1>5 DEF Tick, vars, captureVars
<1> QED
  BY <1>3, <1>4, <1>5, OthersWait DEF Next

\* The invariant is inductive: what a capture had not found when it looked can only have
\* been stored since.
LEMMA RepeatStep == RepeatInv /\ [Next]_vars => RepeatInv'
<1> SUFFICES ASSUME RepeatInv, [Next]_vars PROVE RepeatInv'
  OBVIOUS
<1>0. CaptureTypeInv /\ CaptureTypeInv' /\ MissesAreTrue'
  BY CaptureTypes, MissesStay DEF RepeatInv
<1>1. /\ documents \in Seq(Document) /\ Len(documents) \in Nat
      /\ DOMAIN documents = 1..Len(documents)
      /\ \A d \in 1..Len(documents) : documents'[d] = documents[d]
  BY <1>0, DocumentsStay
<1>2. CASE UNCHANGED documents
  BY <1>0, <1>2 DEF RepeatInv, OnlyOverlappingCapturesRepeat
<1>3. ASSUME NEW doc \in Document, documents' = Append(documents, doc),
             \/ doc.method = "archive"
             \/ \E w \in Processes :
                  /\ proc[w].pc \in {"hop", "fetch"} /\ doc.url = Source(proc[w])
                  /\ doc.fetchedAt = proc[w].now /\ doc.seen = proc[w].seen
      PROVE  OnlyOverlappingCapturesRepeat'
  <2> SUFFICES ASSUME NEW d \in DOMAIN documents', NEW e \in DOMAIN documents',
                      d < e, documents'[d].url = documents'[e].url,
                      documents'[d].method = "live", documents'[e].method = "live",
                      documents'[e].fetchedAt <= documents'[d].fetchedAt + CacheWindow
               PROVE  documents'[e].seen < d
    BY DEF OnlyOverlappingCapturesRepeat
  <2>1. /\ DOMAIN documents' = 1..Len(documents) + 1
        /\ documents'[Len(documents) + 1] = doc
    BY <1>1, <1>3, Appended
  <2>2. d \in 1..Len(documents) /\ documents'[d] = documents[d]
    BY <1>1, <2>1
  <2>3. CASE e \in 1..Len(documents)
    <3>1. documents'[e] = documents[e]
      BY <1>1, <2>3
    <3> QED
      BY <1>1, <2>2, <2>3, <3>1 DEF RepeatInv, OnlyOverlappingCapturesRepeat
  <2>4. CASE e = Len(documents) + 1
    <3>1. documents'[e] = doc
      BY <2>1, <2>4
    <3>2. PICK w \in Processes :
            /\ proc[w].pc \in {"hop", "fetch"} /\ doc.url = Source(proc[w])
            /\ doc.fetchedAt = proc[w].now /\ doc.seen = proc[w].seen
      BY <1>3, <3>1
    <3>3. /\ proc[w].seen \in Nat /\ proc[w].now \in Nat /\ documents[d].fetchedAt \in Nat
          /\ CacheWindow \in Nat
      BY <1>0, <1>1, <2>2, TimesOfPasses, TimesOfDocuments
    <3>4. /\ documents[d].url = Source(proc[w]) /\ documents[d].method = "live"
          /\ documents[d].fetchedAt + CacheWindow >= proc[w].now
      BY <2>2, <3>1, <3>2, <3>3
    <3>5. d \notin 1..proc[w].seen
      BY <3>2, <3>4 DEF RepeatInv, MissesAreTrue
    <3> QED
      BY <2>2, <1>1, <3>1, <3>2, <3>3, <3>5
  <2> QED
    BY <2>1, <2>3, <2>4, <1>1
<1>4. OnlyOverlappingCapturesRepeat'
  BY <1>0, <1>2, <1>3, DocumentSteps DEF RepeatInv
<1> QED
  BY <1>0, <1>4 DEF RepeatInv

\* However many workers capture the same sources, and whatever comes of a fetch: a source
\* is fetched again within the cache window only by a pass that had looked before the
\* earlier document was there.
THEOREM NothingIsFetchedTwice == Spec => []OnlyOverlappingCapturesRepeat
<1>1. Init => RepeatInv
  <2> SUFFICES ASSUME Init PROVE RepeatInv
    OBVIOUS
  <2>1. DOMAIN documents = {} /\ \A w \in Processes : proc[w].pc = "idle"
    BY IdleIsTyped DEF Init
  <2>2. MissesAreTrue /\ OnlyOverlappingCapturesRepeat
    BY <2>1 DEF MissesAreTrue, OnlyOverlappingCapturesRepeat
  <2> QED
    BY <2>2, InitCaptureTypes DEF RepeatInv
<1>2. RepeatInv => OnlyOverlappingCapturesRepeat
  BY DEF RepeatInv
<1> QED
  BY <1>1, <1>2, RepeatStep, PTL DEF Spec
-----------------------------------------------------------------------------
(* Evidence *)

\* A document stays as fresh as it was for the `now' of a pass.
LEMMA FreshStays ==
  ASSUME CaptureTypeInv, [Next]_vars, NEW url, NEW now, Fresh(documents, url, now)
  PROVE  Fresh(documents', url, now)
BY DocumentsStay DEF Fresh

\* The latest document of a source is as fresh as any other.
LEMMA LatestIsFresh ==
  ASSUME CaptureTypeInv, NEW url, NEW now \in Nat, Fresh(documents, url, now),
         NEW d \in Latest(url)
  PROVE  documents[d].fetchedAt + CacheWindow >= now
<1>1. PICK e \in DOMAIN documents : /\ documents[e].url = url
                                    /\ documents[e].fetchedAt + CacheWindow >= now
  BY DEF Fresh
<1>2. d \in DOMAIN documents /\ documents[e].fetchedAt <= documents[d].fetchedAt
  BY <1>1 DEF Latest
<1>3. documents[d].fetchedAt \in Nat /\ documents[e].fetchedAt \in Nat /\ CacheWindow \in Nat
  BY <1>1, <1>2, TimesOfDocuments
<1> QED
  BY <1>1, <1>2, <1>3

\* Every citation's source is among the sources of its response.
LEMMA EverySourceIsCaptured ==
  ASSUME NEW r \in Responses, NEW i \in DOMAIN CitationsOf[r]
  PROVE  \E j \in Sources(r) : UrlAt(r, j) = UrlAt(r, i)
<1> DEFINE same == {j \in DOMAIN CitationsOf[r] : UrlAt(r, j) = UrlAt(r, i)}
           m == Min(same)
<1>1. DOMAIN CitationsOf[r] = 1..Len(CitationsOf[r]) /\ Len(CitationsOf[r]) \in Nat
  BY SourcesAreTyped
<1>2. same \subseteq Nat /\ i \in same
  BY <1>1
<1>3. m \in same /\ \A j \in same : m <= j
  BY <1>2, MinIsLeast
<1> HIDE DEF m
<1>4. m \in 1..Len(CitationsOf[r]) /\ UrlAt(r, m) = UrlAt(r, i)
  BY <1>1, <1>3
<1>5. ASSUME NEW j \in 1..m - 1 PROVE UrlAt(r, j) # UrlAt(r, m)
  <2>1. j \in DOMAIN CitationsOf[r] /\ ~(m <= j)
    BY <1>1, <1>4
  <2> QED
    BY <1>3, <1>4, <2>1
<1>6. m \in Sources(r)
  BY <1>1, <1>4, <1>5 DEF Sources, UrlAt
<1> QED
  BY <1>4, <1>6

\* A source that the cache has, or of which a document is stored, is fresh for the pass.
LEMMA CaptureIsFresh ==
  ASSUME CaptureTypeInv, [Next]_vars, NEW w \in Processes,
         CacheHit(w) \/ RobotsBlock(w) \/ FetchFails(w) \/ Fetched(w)
  PROVE  Fresh(documents', Source(proc[w]), proc[w].now)
<1>1. CASE CacheHit(w)
  <2>1. PICK d \in Cached(Source(proc[w]), proc[w].now) : TRUE
    BY <1>1 DEF CacheHit
  <2>2. Fresh(documents, Source(proc[w]), proc[w].now)
    BY <2>1 DEF Cached, Fresh
  <2> QED
    BY <2>2, FreshStays
<1>2. CASE RobotsBlock(w) \/ FetchFails(w) \/ Fetched(w)
  <2>1. PICK doc \in Document : /\ documents' = Append(documents, doc)
                                /\ doc.url = Source(proc[w]) /\ doc.fetchedAt = proc[w].now
    BY <1>2, StoringIs, StoreIs
  <2>2. /\ Len(documents) + 1 \in DOMAIN documents'
        /\ documents'[Len(documents) + 1] = doc
    BY <2>1, Appended DEF CaptureTypeInv, CaptureTypeOK
  <2>3. proc[w].now + CacheWindow >= proc[w].now
    BY TimesOfPasses, SourcesAreTyped
  <2> QED
    BY <2>1, <2>2, <2>3 DEF Fresh
<1> QED
  BY <1>1, <1>2

\* What a pass has captured stays captured, and at its end it is everything.
LEMMA CaptureStep ==
  ASSUME CaptureTypeInv, [Next]_vars, CapturedSoFar
  PROVE  CapturedSoFar'
<1> SUFFICES ASSUME NEW v \in Processes
             PROVE  LET q == proc'[v] IN
                    /\ q.pc \in Capturing => \A i \in Sources(q.job) \ q.todo :
                                               Fresh(documents', UrlAt(q.job, i), q.now)
                    /\ q.pc \in Verifying /\ ~q.partly =>
                         \A i \in DOMAIN CitationsOf[q.job] :
                           Fresh(documents', UrlAt(q.job, i), q.now)
                    /\ q.pc \in {"cdx", "snapshot"} /\ ~q.partly =>
                         documents'[q.source].fetchedAt + CacheWindow >= q.now
  BY DEF CapturedSoFar, UrlAt, Sources
<1> DEFINE p == proc[v]
           q == proc'[v]
<1>0. p.job \in Responses /\ p.now \in Nat /\ p.todo \subseteq DOMAIN CitationsOf[p.job]
  BY TimesOfPasses DEF CaptureTypeInv, WorkOK
<1>1. /\ p.pc \in Capturing => \A i \in Sources(p.job) \ p.todo :
                                  Fresh(documents', UrlAt(p.job, i), p.now)
      /\ p.pc \in Verifying /\ ~p.partly =>
           \A i \in DOMAIN CitationsOf[p.job] : Fresh(documents', UrlAt(p.job, i), p.now)
      /\ p.pc \in {"cdx", "snapshot"} /\ ~p.partly =>
           documents'[p.source].fetchedAt + CacheWindow >= p.now
  BY FreshStays, DocumentsStay DEF CapturedSoFar, CaptureTypeInv, WorkOK
<1>2. CASE q = p
  BY <1>1, <1>2
<1>3. CASE Step(v) \/ Kill(v)
  <2>1. CASE q.pc = "idle"
    BY <2>1 DEF Capturing, Verifying
  <2>2. ASSUME NEW r \in Responses, q.pc = "capture", q.job = r, q.todo = Sources(r)
        PROVE  Sources(q.job) \ q.todo = {} /\ q.pc \notin Verifying
    BY <2>2 DEF Verifying
  <2>3. CASE /\ CacheHit(v) \/ RobotsBlock(v) \/ FetchFails(v) \/ Fetched(v)
             /\ p.pc \in Capturing /\ q.pc = "capture" /\ SamePass(p, q)
             /\ p.todo # {} /\ q.todo = Rest(p)
    <3>1. Fresh(documents', Source(p), p.now) /\ Source(p) = UrlAt(p.job, Min(p.todo))
      BY <2>3, CaptureIsFresh, CitedIsCited
    <3>2. \A i \in Sources(q.job) \ q.todo : i \notin p.todo \/ i = Min(p.todo)
      BY <2>3 DEF Rest
    <3> QED
      BY <1>1, <2>3, <3>1, <3>2 DEF SamePass, Verifying
  <2>4. CASE p.pc \in Capturing /\ q.pc \in {"hop", "fetch"} /\ SamePass(p, q) /\ q.todo = p.todo
    BY <1>1, <2>4 DEF SamePass, Verifying
  <2>5. CASE /\ p.pc = "capture" /\ q.pc = "verify" /\ SamePass(p, q)
             /\ q.partly \/ p.todo = {}
    <3>1. ASSUME p.todo = {}, NEW i \in DOMAIN CitationsOf[p.job]
          PROVE  Fresh(documents', UrlAt(p.job, i), p.now)
      BY <1>0, <1>1, <2>5, <3>1, EverySourceIsCaptured DEF Capturing
    <3> QED
      BY <2>5, <3>1 DEF SamePass, Capturing
  <2>6. CASE /\ p.pc \in Verifying /\ q.pc = "verify" /\ SamePass(p, q)
             /\ q.partly \/ ~p.partly
    BY <1>1, <2>6 DEF SamePass, Capturing
  <2>7. CASE /\ p.pc = "verify" /\ q.pc = "cdx" /\ SamePass(p, q) /\ q.partly = p.partly
             /\ p.todo # {} /\ q.source \in Latest(Source(p))
    <3>1. Source(p) = UrlAt(p.job, Min(p.todo)) /\ Min(p.todo) \in DOMAIN CitationsOf[p.job]
      BY <2>7, CitedIsCited
    <3>2. ~p.partly => Fresh(documents, Source(p), p.now)
      BY <2>7, <3>1 DEF CapturedSoFar, Verifying
    <3>3. ~p.partly => documents[q.source].fetchedAt + CacheWindow >= p.now
      BY <1>0, <2>7, <3>2, LatestIsFresh
    <3>4. documents'[q.source] = documents[q.source]
      BY <2>7, DocumentsStay DEF Latest
    <3> QED
      BY <1>1, <2>7, <3>3, <3>4 DEF SamePass, Capturing, Verifying
  <2>8. CASE /\ p.pc = "cdx" /\ q.pc = "snapshot" /\ SamePass(p, q)
             /\ q.partly = p.partly /\ q.source = p.source
    BY <1>1, <2>8 DEF SamePass, Capturing, Verifying
  <2> QED
    BY <1>2, <1>3, <2>1, <2>2, <2>3, <2>4, <2>5, <2>6, <2>7, <2>8, PassSteps DEF Capturing
<1>4. CASE Tick \/ UNCHANGED vars
  BY <1>2, <1>4 DEF Tick, vars, captureVars
<1> QED
  BY <1>2, <1>3, <1>4, OthersWait DEF Next
\* What is added to the verdicts: nothing, or one row on evidence the pass had.
LEMMA RowSteps ==
  ASSUME CaptureTypeInv, [Next]_vars
  PROVE  \/ UNCHANGED rows
         \/ \E w \in Processes, row \in Row :
              /\ rows' = Append(rows, row) /\ proc[w].todo # {}
              /\ row.at = proc[w].now /\ row.partly = proc[w].partly
              /\ row.verdict = "not_found" \/ row.reason \in {"http_404", "http_410"}
                   => row.archive = "negative"
              /\ \/ /\ UNCHANGED documents
                    /\ \/ proc[w].pc = "verify" /\ row.document \in Latest(Source(proc[w]))
                       \/ proc[w].pc \in {"cdx", "snapshot"} /\ row.document = proc[w].source
                 \/ documents'[row.document].fetchedAt = proc[w].now
<1>1. ASSUME NEW w \in Processes,
             \/ \E r \in Responses : Begin(w, r)
             \/ CacheHit(w) \/ CacheMiss(w) \/ BeginChecks(w) \/ Pace(w)
             \/ \E target \in Urls : Redirect(w, target)
             \/ PassOver(w) \/ AskArchive(w) \/ SnapshotFound(w)
             \/ OutOfTime(w) \/ End(w) \/ Kill(w) \/ ReserveSlot(w)
      PROVE  UNCHANGED rows
  BY <1>1 DEF Begin, CacheHit, CacheMiss, BeginChecks, Pace, Redirect, PassOver,
              AskArchive, SnapshotFound, OutOfTime, End, Kill, ReserveSlot, captureVars
<1>2. ASSUME NEW w \in Processes, RobotsBlock(w) \/ FetchFails(w) \/ Fetched(w)
      PROVE  UNCHANGED rows
  BY <1>2, StoringIs DEF Store
<1>3. CASE Tick \/ UNCHANGED vars
  BY <1>3 DEF Tick, vars, captureVars
<1>4. ASSUME NEW w \in Processes,
             CheckLive(w) \/ ArchiveFails(w) \/ ArchiveDenies(w) \/ ArchiveVerifies(w)
      PROVE  \/ UNCHANGED rows
             \/ proc[w].todo # {} /\ Settles(w)
  BY <1>4, SettlingIs
<1>5. ASSUME NEW w \in Processes, Step(w) \/ Kill(w)
      PROVE  UNCHANGED rows \/ (proc[w].todo # {} /\ Settles(w))
  BY <1>1, <1>2, <1>4, <1>5 DEF Step
<1>6. CASE UNCHANGED rows
  BY <1>6
<1>7. ASSUME NEW w \in Processes, proc[w].todo # {}, Settles(w)
      PROVE  \E row \in Row :
               /\ rows' = Append(rows, row)
               /\ row.at = proc[w].now /\ row.partly = proc[w].partly
               /\ row.verdict = "not_found" \/ row.reason \in {"http_404", "http_410"}
                    => row.archive = "negative"
               /\ \/ /\ UNCHANGED documents
                     /\ \/ proc[w].pc = "verify" /\ row.document \in Latest(Source(proc[w]))
                        \/ proc[w].pc \in {"cdx", "snapshot"} /\ row.document = proc[w].source
                  \/ documents'[row.document].fetchedAt = proc[w].now
  <2>1. PICK row \in Row :
          /\ rows' = Append(rows, row)
          /\ row.at = proc[w].now /\ row.partly = proc[w].partly
          /\ row.verdict = "not_found" \/ row.reason \in {"http_404", "http_410"}
               => row.archive = "negative"
          /\ \/ /\ UNCHANGED documents
                /\ \/ proc[w].pc = "verify" /\ row.document \in Latest(Source(proc[w]))
                   \/ proc[w].pc \in {"cdx", "snapshot"} /\ row.document = proc[w].source
             \/ documents'[row.document].fetchedAt = proc[w].now
    BY <1>7, SettlesIs
  <2> QED
    BY <2>1
<1>8. CASE \E w \in Processes : proc[w].todo # {} /\ Settles(w)
  <2>1. PICK w \in Processes : proc[w].todo # {} /\ Settles(w)
    BY <1>8
  <2>2. PICK row \in Row :
          /\ rows' = Append(rows, row)
          /\ row.at = proc[w].now /\ row.partly = proc[w].partly
          /\ row.verdict = "not_found" \/ row.reason \in {"http_404", "http_410"}
               => row.archive = "negative"
          /\ \/ /\ UNCHANGED documents
                /\ \/ proc[w].pc = "verify" /\ row.document \in Latest(Source(proc[w]))
                   \/ proc[w].pc \in {"cdx", "snapshot"} /\ row.document = proc[w].source
             \/ documents'[row.document].fetchedAt = proc[w].now
    BY <1>7, <2>1
  <2> QED
    BY <2>1, <2>2
<1> QED
  BY <1>3, <1>5, <1>6, <1>8 DEF Next

\* The invariant is inductive: the evidence of a pass is fresh when it judges, and a
\* verdict's document is never changed.
LEMMA EvidenceStep == EvidenceInv /\ [Next]_vars => EvidenceInv'
<1> SUFFICES ASSUME EvidenceInv, [Next]_vars PROVE EvidenceInv'
  OBVIOUS
<1>0. CaptureTypeInv /\ CaptureTypeInv' /\ CapturedSoFar'
  BY CaptureTypes, CaptureStep DEF EvidenceInv
<1>1. /\ rows \in Seq(Row) /\ DOMAIN rows = 1..Len(rows) /\ RowsOK
      /\ \A d \in DOMAIN documents : documents'[d] = documents[d]
  <2>1. rows \in Seq(Row) /\ RowsOK
    BY <1>0 DEF CaptureTypeInv, CaptureTypeOK
  <2> QED
    BY <1>0, <2>1, DocumentsStay
<1>2. \A n \in DOMAIN rows : documents'[rows[n].document] = documents[rows[n].document]
  BY <1>1 DEF RowsOK
<1>3. CASE UNCHANGED rows
  BY <1>0, <1>2, <1>3 DEF EvidenceInv, EvidenceIsFresh
<1>4. ASSUME NEW w \in Processes, NEW row \in Row,
             rows' = Append(rows, row), proc[w].todo # {},
             row.at = proc[w].now, row.partly = proc[w].partly,
             \/ /\ UNCHANGED documents
                /\ \/ proc[w].pc = "verify" /\ row.document \in Latest(Source(proc[w]))
                   \/ proc[w].pc \in {"cdx", "snapshot"} /\ row.document = proc[w].source
             \/ documents'[row.document].fetchedAt = proc[w].now
      PROVE  EvidenceIsFresh'
  <2>1. /\ DOMAIN rows' = 1..Len(rows) + 1 /\ rows'[Len(rows) + 1] = row
        /\ \A n \in 1..Len(rows) : rows'[n] = rows[n]
    BY <1>1, <1>4, Appended
  <2>2. ASSUME ~row.partly
        PROVE  documents'[row.document].fetchedAt + CacheWindow >= row.at
    <3>1. proc[w].now \in Nat /\ CacheWindow \in Nat /\ ~proc[w].partly
      BY <1>0, <1>4, <2>2, TimesOfPasses, SourcesAreTyped
    <3>2. CASE /\ UNCHANGED documents /\ proc[w].pc = "verify"
               /\ row.document \in Latest(Source(proc[w]))
      <4>1. /\ Source(proc[w]) = UrlAt(proc[w].job, Min(proc[w].todo))
            /\ Min(proc[w].todo) \in DOMAIN CitationsOf[proc[w].job]
        BY <1>0, <1>4, CitedIsCited
      <4>2. Fresh(documents, Source(proc[w]), proc[w].now)
        BY <3>1, <3>2, <4>1 DEF EvidenceInv, CapturedSoFar, Verifying
      <4> QED
        BY <1>0, <1>4, <3>1, <3>2, <4>2, LatestIsFresh
    <3>3. CASE /\ UNCHANGED documents /\ proc[w].pc \in {"cdx", "snapshot"}
               /\ row.document = proc[w].source
      BY <1>4, <3>1, <3>3 DEF EvidenceInv, CapturedSoFar
    <3>4. CASE documents'[row.document].fetchedAt = proc[w].now
      BY <1>4, <3>1, <3>4
    <3> QED
      BY <1>4, <3>2, <3>3, <3>4
  <2>3. ASSUME NEW n \in DOMAIN rows', ~rows'[n].partly
        PROVE  documents'[rows'[n].document].fetchedAt + CacheWindow >= rows'[n].at
    <3>1. CASE n \in 1..Len(rows)
      BY <1>1, <1>2, <2>1, <2>3, <3>1 DEF EvidenceInv, EvidenceIsFresh
    <3>2. CASE n = Len(rows) + 1
      BY <2>1, <2>2, <2>3, <3>2
    <3> QED
      BY <1>1, <2>1, <3>1, <3>2
  <2> QED
    BY <2>3 DEF EvidenceIsFresh
<1>5. CASE ~UNCHANGED rows
  <2>1. PICK w \in Processes, row \in Row :
          /\ rows' = Append(rows, row) /\ proc[w].todo # {}
          /\ row.at = proc[w].now /\ row.partly = proc[w].partly
          /\ \/ /\ UNCHANGED documents
                /\ \/ proc[w].pc = "verify" /\ row.document \in Latest(Source(proc[w]))
                   \/ proc[w].pc \in {"cdx", "snapshot"} /\ row.document = proc[w].source
             \/ documents'[row.document].fetchedAt = proc[w].now
    BY <1>0, <1>5, RowSteps
  <2> QED
    BY <1>0, <1>4, <2>1 DEF EvidenceInv
<1> QED
  BY <1>3, <1>5

\* A pass that was not cut short has captured every source its response cites, or found it
\* in the cache, and so every verdict it gives rests on a document younger than the cache
\* window, whatever other workers capture meanwhile.
THEOREM EvidenceStaysFresh == Spec => []EvidenceIsFresh
<1>1. Init => EvidenceInv
  <2> SUFFICES ASSUME Init PROVE EvidenceInv
    OBVIOUS
  <2>1. DOMAIN rows = {} /\ \A w \in Processes : proc[w].pc = "idle"
    BY IdleIsTyped DEF Init
  <2>2. CapturedSoFar /\ EvidenceIsFresh
    BY <2>1 DEF CapturedSoFar, EvidenceIsFresh, Capturing, Verifying
  <2> QED
    BY <2>2, InitCaptureTypes DEF EvidenceInv
<1>2. EvidenceInv => EvidenceIsFresh
  BY DEF EvidenceInv
<1> QED
  BY <1>1, <1>2, EvidenceStep, PTL DEF Spec

LEMMA OutageStep ==
  CaptureTypeInv /\ OutageIsNoVerdict /\ [Next]_vars => OutageIsNoVerdict'
<1> SUFFICES ASSUME CaptureTypeInv, OutageIsNoVerdict, [Next]_vars PROVE OutageIsNoVerdict'
  OBVIOUS
<1>1. rows \in Seq(Row) /\ DOMAIN rows = 1..Len(rows)
  BY DEF CaptureTypeInv, CaptureTypeOK
<1>2. CASE UNCHANGED rows
  BY <1>2 DEF OutageIsNoVerdict
<1>3. ASSUME NEW row \in Row, rows' = Append(rows, row),
             row.verdict = "not_found" \/ row.reason \in {"http_404", "http_410"}
               => row.archive = "negative"
      PROVE  OutageIsNoVerdict'
  <2>1. /\ DOMAIN rows' = 1..Len(rows) + 1 /\ rows'[Len(rows) + 1] = row
        /\ \A n \in 1..Len(rows) : rows'[n] = rows[n]
    BY <1>1, <1>3, Appended
  <2> QED
    BY <1>1, <1>3, <2>1 DEF OutageIsNoVerdict
<1> QED
  BY <1>2, <1>3, RowSteps

\* However often archive.org fails, and at whichever of its two requests: a quote is
\* reported as not found, or its page as gone, only when the archive has answered.
THEOREM OutagesAreNoVerdicts == Spec => []OutageIsNoVerdict
<1>1. Init => OutageIsNoVerdict
  BY DEF Init, OutageIsNoVerdict
<1> QED
  BY <1>1, InitCaptureTypes, CaptureTypes, OutageStep, PTL DEF Spec
=============================================================================

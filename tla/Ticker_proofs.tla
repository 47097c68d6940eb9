---------------------------- MODULE Ticker_proofs ----------------------------
(***************************************************************************)
(* What a schedule's windows become: the inductive invariants behind       *)
(* WindowOnce, NothingSkipped, NeverRetroactive and AnnouncementsAreKept.  *)
(***************************************************************************)
EXTENDS Ticker, TLAPS, FiniteSetTheorems, WellFoundedInduction

-----------------------------------------------------------------------------
(* Sets of times *)

\* A set of naturals that is not empty has a least element.
LEMMA MinIsLeast ==
  ASSUME NEW S, S \subseteq Nat, S # {}
  PROVE  Min(S) \in S /\ \A n \in S : Min(S) <= n
<1>1. IsWellFoundedOn(OpToRel(<, Nat), Nat)
  BY NatLessThanWellFounded, Zenon
<1>2. PICK m \in S : \A n \in S : ~(<<n, m>> \in OpToRel(<, Nat))
  BY <1>1, WFMin, Zenon
<1>3. \A n \in S : ~(n < m)
  BY <1>2 DEF OpToRel
<1>4. \A n \in S : m <= n
  BY <1>3
<1> QED
  BY <1>4 DEF Min

\* One that is bounded has a greatest.
LEMMA MaxIsGreatest ==
  ASSUME NEW S, S \subseteq Nat, S # {}, NEW b \in Nat, \A n \in S : n <= b
  PROVE  Max(S) \in S /\ \A n \in S : n <= Max(S)
<1> DEFINE D == {b - n : n \in S}
<1>1. D \subseteq Nat /\ D # {}
  <2>1. \A n \in S : b - n \in Nat
    OBVIOUS
  <2>2. PICK n \in S : TRUE
    OBVIOUS
  <2>3. b - n \in D
    BY <2>2
  <2> QED
    BY <2>1, <2>3
<1>2. Min(D) \in D /\ \A d \in D : Min(D) <= d
  BY <1>1, MinIsLeast
<1>3. PICK m \in S : Min(D) = b - m
  BY <1>2
<1>4. \A n \in S : b - m <= b - n
  BY <1>2, <1>3
<1>5. \A n \in S : m >= n
  BY <1>4
<1> QED
  BY <1>5 DEF Max

\* A set of times up to a bound is finite.
LEMMA BoundedIsFinite ==
  ASSUME NEW S, S \subseteq Nat, NEW b \in Nat, \A n \in S : n <= b
  PROVE  IsFiniteSet(S) /\ Cardinality(S) \in Nat
<1>1. IsFiniteSet(0..b)
  BY FS_Interval
<1>2. S \subseteq 0..b
  OBVIOUS
<1> QED
  BY <1>1, <1>2, FS_Subset, FS_CardinalityType

\* A part of a finite set is no larger; it is smaller when it misses an element.
LEMMA PartIsSmaller ==
  ASSUME NEW S, NEW T, IsFiniteSet(T), S \subseteq T
  PROVE  /\ Cardinality(S) \in Nat /\ Cardinality(T) \in Nat
         /\ Cardinality(S) <= Cardinality(T)
         /\ S # T => Cardinality(S) < Cardinality(T)
BY FS_Subset, FS_CardinalityType

-----------------------------------------------------------------------------
(* Recurrence *)

\* The end of a schedule: an occurrence more and a later time only bring it nearer.
LEMMA EndedIsForEver ==
  ASSUME NEW row \in Schedule, NEW m \in Nat, NEW n \in Nat, NEW t \in Nat, NEW u \in Nat,
         m <= n, t <= u, Ended([row EXCEPT !.count = m], t)
  PROVE  Ended([row EXCEPT !.count = n], u)
BY DEF Ended, Schedule

\* The next window of a rule: it fires then, and not in between.
LEMMA NextRunIsNext ==
  ASSUME NEW row \in Schedule, NEW after \in 0..MaxClock
  PROVE  LET first == Min({t \in Fires[row.rule] : t > after}) IN
         /\ first \in Fires[row.rule] /\ first \in Nat \ {0} /\ first > after
         /\ \A t \in Fires[row.rule] : t > after => first <= t
         /\ NextRun(row, after) = IF Ended(row, first) THEN 0 ELSE first
         /\ NextRun(row, after) \in Nat
<1> DEFINE S == {t \in Fires[row.rule] : t > after}
<1>1. row.rule \in Rules
  BY DEF Schedule
<1>2. Fires[row.rule] \subseteq Nat \ {0} /\ \E u \in Fires[row.rule] : u > after
  BY <1>1, RulesFire
<1>3. S \subseteq Nat /\ S # {}
  BY <1>2
<1>4. Min(S) \in S /\ \A n \in S : Min(S) <= n
  BY <1>3, MinIsLeast
<1> QED
  BY <1>2, <1>4 DEF NextRun

\* A row with a new next_run_at.
LEMMA RescheduledIs ==
  ASSUME NEW row \in Schedule, NEW after \in 0..MaxClock
  PROVE  LET new == Rescheduled(row, after) IN
         /\ new \in Schedule
         /\ new.next = NextRun(row, after) /\ new.active = (new.next # 0)
         /\ new.count = row.count /\ new.rule = row.rule
         /\ new.end = row.end /\ new.max = row.max
<1>1. NextRun(row, after) \in Nat
  BY NextRunIsNext
<1> QED
  BY <1>1 DEF Rescheduled, Schedule

\* The times at which the rule fires between a row's next window and t.
Passed(row, t) == {u \in Fires[row.rule] : row.next < u /\ u < t}

LEMMA PassedIsFinite ==
  ASSUME NEW row \in Schedule, NEW t \in Nat
  PROVE  /\ IsFiniteSet(Passed(row, t)) /\ Cardinality(Passed(row, t)) \in Nat
         /\ \A u \in Nat : u <= t => Cardinality(Passed(row, u)) <= Cardinality(Passed(row, t))
<1>1. row.rule \in Rules
  BY DEF Schedule
<1>2. Fires[row.rule] \subseteq Nat
  BY <1>1, RulesFire
<1>3. Passed(row, t) \subseteq Nat /\ \A u \in Passed(row, t) : u <= t
  BY <1>2 DEF Passed
<1>4. IsFiniteSet(Passed(row, t)) /\ Cardinality(Passed(row, t)) \in Nat
  BY <1>3, BoundedIsFinite
<1>5. ASSUME NEW u \in Nat, u <= t
      PROVE  Cardinality(Passed(row, u)) <= Cardinality(Passed(row, t))
  <2>1. Passed(row, u) \subseteq Passed(row, t)
    BY <1>2, <1>5 DEF Passed
  <2> QED
    BY <1>4, <2>1, PartIsSmaller
<1> QED
  BY <1>4, <1>5

\* The windows of a pass: from the row's next one on, without a gap, and none after `now'.
LEMMA WindowsAreDue ==
  ASSUME NEW row \in Schedule, NEW now \in 0..MaxClock, row.next <= now
  PROVE  LET W == Windows(row, now) IN
         /\ row.next \in W /\ Max(W) \in W /\ W \subseteq 0..now
         /\ \A t \in W : row.next <= t /\ t <= Max(W)
         /\ \A t \in W : t = row.next \/ t \in Fires[row.rule]
         /\ \A t \in Fires[row.rule] : row.next <= t /\ t <= Max(W) => t \in W
         /\ IsFiniteSet(W) /\ Cardinality(W) \in Nat
<1> DEFINE W == Windows(row, now)
           last == Max(W)
           OneMore(t) == [row EXCEPT !.count = @ + 1 + Cardinality(Passed(row, t))]
<1>1. W = {row.next} \cup {t \in Fires[row.rule] : /\ row.next < t /\ t <= now
                                                   /\ ~Ended(OneMore(t), t)}
  BY DEF Windows, Passed
<1> HIDE DEF W
<1>2. /\ row.rule \in Rules /\ row.next \in Nat /\ now \in Nat /\ row.count \in Nat
      /\ MaxClock \in Nat
  BY BoundsAreNaturals DEF Schedule
<1>3. Fires[row.rule] \subseteq Nat
  BY <1>2, RulesFire
<1>4. row.next \in W /\ W \subseteq 0..now /\ \A t \in W : row.next <= t
  BY <1>1, <1>2, <1>3
<1>5. W \subseteq Nat /\ W # {} /\ \A t \in W : t <= now
  BY <1>2, <1>4
<1>6. last \in W /\ \A t \in W : t <= last
  BY <1>2, <1>5, MaxIsGreatest
<1> HIDE DEF last, OneMore
<1>7. IsFiniteSet(W) /\ Cardinality(W) \in Nat
  BY <1>2, <1>5, BoundedIsFinite
<1>8. ASSUME NEW t \in Fires[row.rule], row.next < t, t < last
      PROVE  t \in W
  <2>1. last \in Nat /\ t \in Nat /\ t <= now /\ row.next < last /\ last <= now
    BY <1>2, <1>3, <1>4, <1>5, <1>6, <1>8
  <2>2. ~Ended(OneMore(last), last)
    BY <1>1, <1>2, <1>6, <2>1
  <2>3. /\ Cardinality(Passed(row, t)) \in Nat /\ Cardinality(Passed(row, last)) \in Nat
        /\ Cardinality(Passed(row, t)) <= Cardinality(Passed(row, last))
    BY <1>8, <2>1, PassedIsFinite
  <2> DEFINE m == row.count + 1 + Cardinality(Passed(row, t))
             n == row.count + 1 + Cardinality(Passed(row, last))
  <2>4. m \in Nat /\ n \in Nat /\ m <= n
    BY <1>2, <2>3
  <2>5. OneMore(t) = [row EXCEPT !.count = m] /\ OneMore(last) = [row EXCEPT !.count = n]
    BY DEF OneMore
  <2> HIDE DEF m, n
  <2>6. ~Ended(OneMore(t), t)
    BY <1>8, <2>1, <2>2, <2>4, <2>5, EndedIsForEver
  <2> QED
    BY <1>1, <1>8, <2>1, <2>6
<1>9. \A t \in Fires[row.rule] : row.next <= t /\ t <= last => t \in W
  BY <1>2, <1>3, <1>4, <1>6, <1>8
<1> QED
  BY <1>1, <1>4, <1>6, <1>7, <1>9 DEF W, last

\* What a pass makes of a row.
LEMMA AdvancedIs ==
  ASSUME NEW row \in Schedule, NEW now \in 0..MaxClock, row.next <= now, row.next # 0
  PROVE  LET new == Advanced(row, now)
             last == Max(Windows(row, now)) IN
         /\ new \in Schedule /\ new.rule = row.rule /\ new.next # row.next
         /\ new.end = row.end /\ new.max = row.max
         /\ new.count = row.count + Cardinality(Windows(row, now))
         /\ new.next # 0 => /\ new.next \in Fires[row.rule] /\ new.next > last
                            /\ \A t \in Fires[row.rule] : t > last => new.next <= t
                            /\ ~Ended(new, new.next)
         /\ new.next = 0 => \A t \in Fires[row.rule] : t > last => Ended(new, t)
         /\ new.active = (new.next # 0)
<1> DEFINE W == Windows(row, now)
           counted == [row EXCEPT !.count = @ + Cardinality(W)]
           new == Rescheduled(counted, Max(W))
           first == Min({t \in Fires[row.rule] : t > Max(W)})
<1>1. /\ row.next \in W /\ Max(W) \in W /\ W \subseteq 0..now /\ Cardinality(W) \in Nat
      /\ row.next <= Max(W)
  BY WindowsAreDue
<1>2. new = Advanced(row, now)
  BY DEF Advanced
<1>3. Max(W) \in 0..MaxClock /\ Max(W) \in Nat /\ row.next \in Nat
  BY <1>1, BoundsAreNaturals DEF Schedule
<1>4. /\ counted \in Schedule /\ counted.rule = row.rule /\ counted.end = row.end
      /\ counted.max = row.max /\ counted.count = row.count + Cardinality(W)
  BY <1>1 DEF Schedule
<1> HIDE DEF counted, W
<1>5. /\ first \in Fires[row.rule] /\ first \in Nat \ {0} /\ first > Max(W)
      /\ \A t \in Fires[row.rule] : t > Max(W) => first <= t
      /\ NextRun(counted, Max(W)) = IF Ended(counted, first) THEN 0 ELSE first
  BY <1>3, <1>4, NextRunIsNext
<1>6. /\ new \in Schedule
      /\ new.next = NextRun(counted, Max(W)) /\ new.active = (new.next # 0)
      /\ new.count = counted.count /\ new.rule = counted.rule
      /\ new.end = counted.end /\ new.max = counted.max
  BY <1>3, <1>4, RescheduledIs
<1> HIDE DEF new, first
<1>7. \A t : Ended(new, t) <=> Ended(counted, t)
  BY <1>6 DEF Ended
<1>8. ASSUME NEW t \in Fires[row.rule], t > Max(W), Ended(counted, first)
      PROVE  Ended(counted, t)
  <2>1. first <= t /\ t \in Nat
    BY <1>5, <1>8, RulesFire DEF Schedule
  <2>2. counted.count \in Nat /\ counted = [counted EXCEPT !.count = counted.count]
    BY <1>4 DEF Schedule
  <2> QED
    BY <1>4, <1>5, <1>8, <2>1, <2>2, EndedIsForEver
<1>9. new.next # row.next
  BY <1>1, <1>3, <1>5, <1>6
<1> QED
  BY <1>2, <1>4, <1>5, <1>6, <1>7, <1>8, <1>9 DEF W

-----------------------------------------------------------------------------
(* Rows *)

\* The rows of one schedule's windows: of this schedule, one for each window and
\* combination, and each window has one or is covered by the summary row of a later one.
StandFor(rows, s, windows, fanout) ==
  /\ \A q \in rows : q.schedule = s /\ q.window \in windows /\ ~q.moved
  /\ \A p, q \in rows : p.window = q.window /\ p.combo = q.combo => p = q
  /\ fanout # {} => \A t \in windows : \E q \in rows :
       q.window = t \/ (q.status = "worker_down" /\ q.window > t)

LEMMA WindowRowsAre ==
  ASSUME NEW s \in Schedules, NEW row \in Schedule, NEW now \in 0..MaxClock, row.next <= now,
         NEW fanout \in SUBSET Combos, NEW depth
  PROVE  /\ WindowRows(s, row, now, fanout, depth) \subseteq Row
         /\ StandFor(WindowRows(s, row, now, fanout, depth), s, Windows(row, now), fanout)
<1> DEFINE W == Windows(row, now)
           late == {t \in W : now - t > Grace}
           nth(t, set) == Cardinality({u \in set : u <= t})
           fits(t) == depth + nth(t, W \ late) * Cardinality(fanout) <= QueueCap
           entry(t, c, status) == [schedule |-> s, window |-> t, combo |-> c,
                                   status |-> status, moved |-> FALSE]
           itemised == {t \in late : nth(t, late) <= MissedCap}
           first == CHOOSE e \in fanout : TRUE
           R == WindowRows(s, row, now, fanout, depth)
           summed == {c \in fanout : late # itemised /\ c = first}
           A == {entry(t, c, "worker_down") : t \in itemised, c \in fanout}
           B == {entry(Max(late), c, "worker_down") : c \in summed}
           C == {entry(t, c, "queued") : t \in {u \in W \ late : fits(u)}, c \in fanout}
           D == {entry(t, c, "queue_depth_exceeded") : t \in {u \in W \ late : ~fits(u)},
                                                       c \in fanout}
<1>1. W \subseteq 0..now /\ now \in Nat
  BY WindowsAreDue, BoundsAreNaturals
<1>2. R = A \cup B \cup C \cup D
  BY DEF WindowRows
<1> HIDE DEF W, fits, R
<1>3. late \subseteq Nat /\ late \subseteq W /\ (\A t \in late : t <= now) /\ itemised \subseteq late
  <2>1. \A t \in W : t \in Nat /\ t <= now
    BY <1>1
  <2>2. late \subseteq W /\ itemised \subseteq late
    BY Zenon
  <2> HIDE DEF late, itemised
  <2> QED
    BY <2>1, <2>2
<1>4. IsFiniteSet(late)
  <2> HIDE DEF late
  <2>1. late \subseteq Nat /\ now \in Nat /\ \A t \in late : t <= now
    BY <1>1, <1>3
  <2> QED
    BY <2>1, BoundedIsFinite, Zenon
<1>5. ASSUME late # itemised
      PROVE  Max(late) \in late /\ Max(late) \notin itemised /\ \A t \in late : t <= Max(late)
  <2>1. late # {}
    BY <1>3, <1>5
  <2>2. Max(late) \in late /\ \A t \in late : t <= Max(late)
    BY <1>1, <1>3, <2>1, MaxIsGreatest
  <2>3. PICK t \in late : ~(nth(t, late) <= MissedCap)
    BY <1>3, <1>5
  <2>4. nth(Max(late), late) = Cardinality(late)
    <3>1. {u \in late : u <= Max(late)} = late
      BY <2>2
    <3> QED
      BY <3>1
  <2>5. nth(t, late) <= Cardinality(late) /\ nth(t, late) \in Nat /\ Cardinality(late) \in Nat
    <3>1. {u \in late : u <= t} \subseteq late
      OBVIOUS
    <3> QED
      BY <1>4, <3>1, PartIsSmaller
  <2> HIDE DEF late, nth
  <2>6. ~(nth(Max(late), late) <= MissedCap)
    BY <2>3, <2>4, <2>5, BoundsAreNaturals
  <2> QED
    BY <2>2, <2>6
<1>6. summed \subseteq fanout /\ (summed # {} => late # itemised)
      /\ (late # itemised /\ fanout # {} => first \in summed)
  OBVIOUS
<1>7. \A t, c, status : /\ entry(t, c, status).schedule = s /\ entry(t, c, status).window = t
                        /\ entry(t, c, status).combo = c /\ entry(t, c, status).status = status
                        /\ entry(t, c, status).moved = FALSE
  OBVIOUS
<1>8. \A t \in Nat, c \in Combos :
        \A status \in {"queued", "worker_down", "queue_depth_exceeded"} :
          entry(t, c, status) \in Row
  BY DEF Row
<1> HIDE DEF entry, itemised, summed, nth, first
<1>9. /\ \A t \in itemised, c \in fanout : entry(t, c, "worker_down") \in A
      /\ \A c \in summed : entry(Max(late), c, "worker_down") \in B
      /\ \A t \in W, c \in fanout : t \notin late /\ fits(t) => entry(t, c, "queued") \in C
      /\ \A t \in W, c \in fanout :
           t \notin late /\ ~fits(t) => entry(t, c, "queue_depth_exceeded") \in D
  <2> HIDE DEF late
  <2> QED
    OBVIOUS
<1>10. /\ \A q \in A : \E t \in itemised, c \in fanout : q = entry(t, c, "worker_down")
       /\ \A q \in B : \E c \in summed : q = entry(Max(late), c, "worker_down")
       /\ \A q \in C : \E t \in W, c \in fanout :
            t \notin late /\ fits(t) /\ q = entry(t, c, "queued")
       /\ \A q \in D : \E t \in W, c \in fanout :
            t \notin late /\ ~fits(t) /\ q = entry(t, c, "queue_depth_exceeded")
  <2> HIDE DEF late
  <2> QED
    OBVIOUS
<1> HIDE DEF A, B, C, D, late
<1>11. ASSUME NEW q \in R
      PROVE  \E t \in W, c \in fanout :
               \/ q = entry(t, c, "worker_down") /\ t \in itemised
               \/ q = entry(t, c, "worker_down") /\ t = Max(late) /\ t \in late \ itemised
               \/ q = entry(t, c, "queued") /\ t \notin late /\ fits(t)
               \/ q = entry(t, c, "queue_depth_exceeded") /\ t \notin late /\ ~fits(t)
  <2>1. CASE q \in A
    BY <1>3, <1>10, <2>1
  <2>2. CASE q \in B
    BY <1>3, <1>5, <1>6, <1>10, <2>2
  <2>3. CASE q \in C
    BY <1>10, <2>3
  <2>4. CASE q \in D
    BY <1>10, <2>4
  <2> QED
    BY <1>2, <1>11, <2>1, <2>2, <2>3, <2>4
<1>12. ASSUME NEW q \in R
      PROVE  q \in Row /\ q.schedule = s /\ q.window \in W /\ ~q.moved
  <2>1. PICK t \in W, c \in fanout, status \in {"queued", "worker_down", "queue_depth_exceeded"} :
          q = entry(t, c, status)
    BY <1>11, <1>12
  <2>2. t \in Nat /\ c \in Combos
    BY <1>1
  <2> QED
    BY <1>7, <1>8, <2>1, <2>2
<1>13. ASSUME NEW p \in R, NEW q \in R, p.window = q.window, p.combo = q.combo
      PROVE  p = q
  <2>1. PICK t \in W, c \in fanout :
          \/ p = entry(t, c, "worker_down") /\ t \in itemised
          \/ p = entry(t, c, "worker_down") /\ t = Max(late) /\ t \in late \ itemised
          \/ p = entry(t, c, "queued") /\ t \notin late /\ fits(t)
          \/ p = entry(t, c, "queue_depth_exceeded") /\ t \notin late /\ ~fits(t)
    BY <1>11, <1>13
  <2>2. PICK u \in W, d \in fanout :
          \/ q = entry(u, d, "worker_down") /\ u \in itemised
          \/ q = entry(u, d, "worker_down") /\ u = Max(late) /\ u \in late \ itemised
          \/ q = entry(u, d, "queued") /\ u \notin late /\ fits(u)
          \/ q = entry(u, d, "queue_depth_exceeded") /\ u \notin late /\ ~fits(u)
    BY <1>11, <1>13
  <2>3. t = u /\ c = d
    BY <1>7, <1>13, <2>1, <2>2
  <2> QED
    BY <1>3, <2>1, <2>2, <2>3
<1>14. ASSUME fanout # {}, NEW t \in W
      PROVE  \E q \in R : q.window = t \/ (q.status = "worker_down" /\ q.window > t)
  <2>1. PICK c \in fanout : TRUE
    BY <1>14
  <2>2. CASE t \in itemised
    <3>1. entry(t, c, "worker_down") \in R
      BY <1>2, <1>9, <1>14, <2>2
    <3> QED
      BY <1>7, <3>1
  <2>3. CASE t \in late /\ t \notin itemised
    <3>1. late # itemised
      BY <2>3
    <3>2. entry(Max(late), first, "worker_down") \in B
      BY <1>6, <1>9, <1>14, <3>1
    <3>3. t = Max(late) \/ Max(late) > t
      <4>1. t <= Max(late) /\ Max(late) \in Nat /\ t \in Nat
        BY <1>3, <1>5, <2>3
      <4> QED
        BY <4>1
    <3> QED
      BY <1>2, <1>7, <3>2, <3>3
  <2>4. CASE t \notin late /\ fits(t)
    <3>1. entry(t, c, "queued") \in C
      BY <1>9, <2>4
    <3> QED
      BY <1>2, <1>7, <3>1
  <2>5. CASE t \notin late /\ ~fits(t)
    <3>1. entry(t, c, "queue_depth_exceeded") \in D
      BY <1>9, <2>5
    <3> QED
      BY <1>2, <1>7, <3>1
  <2> QED
    BY <2>2, <2>3, <2>4, <2>5
<1> QED
  <2>1. R \subseteq Row /\ StandFor(R, s, W, fanout)
    BY <1>12, <1>13, <1>14 DEF StandFor
  <2> QED
    BY <2>1 DEF R, W

\* What the unit of work writes.
LEMMA FlushIs ==
  ASSUME NEW row \in Schedule, NEW old \in Schedule, NEW new \in Schedule
  PROVE  /\ Flush(row, old, new) \in Schedule
         /\ Flush(row, old, new).active = IF new.active # old.active THEN new.active ELSE row.active
         /\ Flush(row, old, new).next = IF new.next # old.next THEN new.next ELSE row.next
         /\ Flush(row, old, new).count = IF new.count # old.count THEN new.count ELSE row.count
         /\ Flush(row, old, new).rule = IF new.rule # old.rule THEN new.rule ELSE row.rule
         /\ Flush(row, old, new).end = IF new.end # old.end THEN new.end ELSE row.end
         /\ Flush(row, old, new).max = IF new.max # old.max THEN new.max ELSE row.max
BY DEF Flush, Schedule

-----------------------------------------------------------------------------
(* Types *)

\* A pass works on rows that were due when it read them.
PassOK(p) ==
  p.busy => /\ p.now <= clock /\ p.todo \subseteq p.due
            /\ \A s \in p.due : /\ p.old[s].active /\ p.old[s].next # 0
                                /\ p.old[s].next <= p.now

PassesOK == \A w \in Workers : PassOK(ticker[w])

TickerTypeInv == TypeOK /\ PassesOK

LEMMA NothingIsTyped == NoRow \in Schedule /\ Asleep \in Pass /\ NoRequest \in Request
<1>1. (CHOOSE r \in Rules : TRUE) \in Rules /\ (CHOOSE s \in Schedules : TRUE) \in Schedules
  BY ThereIsSomethingToSchedule
<1>2. NoRow \in Schedule
  BY <1>1 DEF NoRow, Schedule
<1>3. NoRows \in [Schedules -> Schedule]
  BY <1>2 DEF NoRows
<1> QED
  BY <1>1, <1>2, <1>3 DEF Asleep, Pass, NoRequest, Request

\* q is the pass p after it has come to schedule s.
Handles(p, s, fanout, q) ==
  LET row == p.old[s]
      seen == queue \cup p.rows
      rows == WindowRows(s, row, p.now, fanout, Depth(seen)) IN
  /\ q.busy = p.busy /\ q.now = p.now /\ q.old = p.old /\ q.due = p.due
  /\ q.todo = p.todo \ {s}
  /\ q.new = [p.new EXCEPT ![s] = Advanced(row, p.now)]
  /\ q.rows = p.rows \cup Fresh(rows, seen)

\* What a pass does to one schedule.
LEMMA EnqueuedIs ==
  ASSUME TickerTypeInv, NEW w \in Workers, NEW s \in Schedules, TickSchedule(w, s)
  PROVE  LET p == ticker[w]
             row == p.old[s] IN
         /\ p \in Pass /\ p.busy /\ row \in Schedule /\ p.now \in 0..MaxClock
         /\ s \in p.due /\ s \in p.todo /\ row.next # 0 /\ row.next <= p.now
         /\ \E fanout \in Fanouts : \E q \in Pass :
              /\ fanout \in SUBSET Combos
              /\ ticker' = [ticker EXCEPT ![w] = q] /\ Handles(p, s, fanout, q)
<1> DEFINE p == ticker[w]
           row == p.old[s]
           seen == queue \cup p.rows
<1>1. ticker \in [Workers -> Pass] /\ clock \in 0..MaxClock /\ queue \subseteq Row
  BY DEF TickerTypeInv, TypeOK
<1>2. p \in Pass /\ p.busy /\ s \in p.todo
  BY <1>1 DEF TickSchedule
<1>3. /\ p.old \in [Schedules -> Schedule] /\ p.new \in [Schedules -> Schedule] /\ p.now \in Nat
      /\ p.rows \subseteq Row
  BY <1>2 DEF Pass
<1>4. /\ p.now <= clock /\ s \in p.due /\ row.next # 0 /\ row.next <= p.now
  BY <1>2 DEF TickerTypeInv, PassesOK, PassOK
<1>5. row \in Schedule /\ p.now \in 0..MaxClock
  BY <1>1, <1>3, <1>4, BoundsAreNaturals
<1>6. PICK fanout \in Fanouts : ticker' = [ticker EXCEPT ![w] = Enqueued(p, s, fanout)]
  BY <1>1 DEF TickSchedule
<1>7. fanout \in SUBSET Combos
  BY FanoutsAreSets
<1> DEFINE added == Fresh(WindowRows(s, row, p.now, fanout, Depth(seen)), seen)
           new == Advanced(row, p.now)
           q == [p EXCEPT !.todo = @ \ {s}, !.rows = @ \cup added, !.new[s] = new]
<1>8. added \subseteq Row
  <2>1. WindowRows(s, row, p.now, fanout, Depth(seen)) \subseteq Row
    BY <1>4, <1>5, <1>7, WindowRowsAre
  <2> QED
    BY <2>1 DEF Fresh
<1>9. new \in Schedule
  BY <1>4, <1>5, AdvancedIs
<1>10. ticker' = [ticker EXCEPT ![w] = q]
  BY <1>6 DEF Enqueued
<1> HIDE DEF added, new
<1>11. /\ q.busy = p.busy /\ q.now = p.now /\ q.old = p.old /\ q.due = p.due
       /\ q.todo = p.todo \ {s} /\ q.new = [p.new EXCEPT ![s] = new]
       /\ q.rows = p.rows \cup added
  BY <1>2 DEF Pass
<1>12. q \in Pass
  BY <1>2, <1>3, <1>8, <1>9 DEF Pass
<1> HIDE DEF q
<1> QED
  <2>1. Handles(p, s, fanout, q)
    BY <1>11 DEF Handles, added, new
  <2> QED
    BY <1>2, <1>4, <1>5, <1>7, <1>10, <1>12, <2>1

\* A row whose next window is the first one after `after'.
LooksAhead(row, after) ==
  /\ row.next # 0 /\ row.next \in Fires[row.rule] /\ row.next > after
  /\ \A t \in Fires[row.rule] : t > after => row.next <= t
  /\ ~Ended(row, row.next)

LEMMA RescheduledLooksAhead ==
  ASSUME NEW row \in Schedule, NEW after \in 0..MaxClock, Rescheduled(row, after).active
  PROVE  LooksAhead(Rescheduled(row, after), after)
<1> DEFINE new == Rescheduled(row, after)
           first == Min({t \in Fires[row.rule] : t > after})
<1>1. /\ first \in Fires[row.rule] /\ first \in Nat \ {0} /\ first > after
      /\ \A t \in Fires[row.rule] : t > after => first <= t
      /\ NextRun(row, after) = IF Ended(row, first) THEN 0 ELSE first
  BY NextRunIsNext
<1>2. /\ new.next = NextRun(row, after) /\ new.active = (new.next # 0)
      /\ new.count = row.count /\ new.rule = row.rule
      /\ new.end = row.end /\ new.max = row.max
  BY RescheduledIs
<1> HIDE DEF new, first
<1>3. new.next = first /\ ~Ended(row, first)
  BY <1>1, <1>2 DEF new
<1> QED
  BY <1>1, <1>2, <1>3 DEF LooksAhead, Ended, new

\* A schedule has an end: a time or a number of occurrences.
Ends(row) == row.end # 0 \/ row.max # 0

\* A request that writes: the row it writes looks ahead from now, or is not active.
LEMMA SaveStepIs ==
  ASSUME TickerTypeInv, NEW e \in Editors, SaveStep(e)
  PROVE  /\ editor[e].busy /\ editor' = [editor EXCEPT ![e] = NoRequest]
         /\ UNCHANGED <<clock, present, deleted, queue, ticker, edits, kills, deferrals>>
         /\ \/ UNCHANGED <<sched, since>>
            \/ \E new \in Schedule : Save(e, new) /\ (new.active => LooksAhead(new, clock))
                                     /\ (Ends(editor[e].old) => Ends(new))
<1> DEFINE old == editor[e].old
<1>1. old \in Schedule /\ clock \in 0..MaxClock
  BY DEF TickerTypeInv, TypeOK, Request
<1> HIDE DEF old
<1>2. ASSUME NEW rule \in Rules, NEW limit \in Limits, Update(e, rule, limit)
      PROVE  \E new \in Schedule : Save(e, new) /\ (new.active => LooksAhead(new, clock))
                                   /\ (Ends(old) => Ends(new))
  <2> DEFINE row == [old EXCEPT !.rule = rule, !.end = limit.end, !.max = limit.max]
             new == IF row.active THEN Rescheduled(row, clock) ELSE row
  <2>1. limit.end \in Nat /\ limit.max \in Nat
    BY EveryScheduleEnds
  <2>2. row \in Schedule /\ Ends(row)
    BY <1>1, <2>1, EveryScheduleEnds DEF Schedule, Ends
  <2>3. Save(e, new)
    BY <1>2 DEF Update, old
  <2> HIDE DEF row
  <2>4. new \in Schedule
    BY <1>1, <2>2, RescheduledIs
  <2>5. new.active => LooksAhead(new, clock)
    BY <1>1, <2>2, RescheduledLooksAhead
  <2>6. Ends(new)
    BY <1>1, <2>2, RescheduledIs DEF Ends
  <2> HIDE DEF new
  <2> QED
    BY <2>3, <2>4, <2>5, <2>6
<1>3. ASSUME NEW reason \in {"user", "owner_deactivated"}, SwitchOff(e, reason)
      PROVE  \E new \in Schedule : Save(e, new) /\ (new.active => LooksAhead(new, clock))
                                   /\ (Ends(old) => Ends(new))
  <2> DEFINE new == [old EXCEPT !.active = FALSE, !.reason = reason, !.next = 0]
  <2>1. new \in Schedule /\ ~new.active /\ (Ends(old) => Ends(new))
    BY <1>1 DEF Schedule, Ends
  <2>2. Save(e, new)
    BY <1>3 DEF SwitchOff, old
  <2> HIDE DEF new
  <2> QED
    BY <2>1, <2>2
<1>4. ASSUME Resume(e)
      PROVE  \E new \in Schedule : Save(e, new) /\ (new.active => LooksAhead(new, clock))
                                   /\ (Ends(old) => Ends(new))
  <2> DEFINE row == [old EXCEPT !.reason = "none"]
             new == Rescheduled(row, clock)
  <2>1. row \in Schedule /\ (Ends(old) => Ends(row))
    BY <1>1 DEF Schedule, Ends
  <2>2. Save(e, new)
    BY <1>4 DEF Resume, old
  <2> HIDE DEF row
  <2>3. new \in Schedule
    BY <1>1, <2>1, RescheduledIs
  <2>4. new.active => LooksAhead(new, clock)
    BY <1>1, <2>1, RescheduledLooksAhead
  <2>5. Ends(old) => Ends(new)
    BY <1>1, <2>1, RescheduledIs DEF Ends
  <2> HIDE DEF new
  <2> QED
    BY <2>2, <2>3, <2>4, <2>5
<1>5. CASE Refuse(e)
  BY <1>5 DEF Refuse
<1>6. ASSUME \E new \in Schedule : Save(e, new) /\ (new.active => LooksAhead(new, clock))
                                   /\ (Ends(old) => Ends(new))
      PROVE  /\ editor[e].busy /\ editor' = [editor EXCEPT ![e] = NoRequest]
             /\ UNCHANGED <<clock, present, deleted, queue, ticker, edits, kills, deferrals>>
  BY <1>6 DEF Save
<1> QED
  BY <1>2, <1>3, <1>4, <1>5, <1>6 DEF SaveStep, Pause, OwnerDeactivated, old

\* What a commit writes.
LEMMA CommitIs ==
  ASSUME TickerTypeInv, NEW w \in Workers, TickCommit(w)
  PROVE  /\ queue' = queue \cup Fresh(ticker[w].rows, queue) /\ queue' \subseteq Row
         /\ sched' \in [Schedules -> Schedule]
         /\ \A s \in Schedules \ ticker[w].due : sched'[s] = sched[s]
         /\ \A s \in ticker[w].due :
              sched'[s] = Flush(sched[s], ticker[w].old[s], ticker[w].new[s])
<1>1. /\ sched \in [Schedules -> Schedule] /\ ticker[w] \in Pass /\ queue \subseteq Row
  BY DEF TickerTypeInv, TypeOK
<1>2. /\ ticker[w].old \in [Schedules -> Schedule] /\ ticker[w].new \in [Schedules -> Schedule]
      /\ ticker[w].due \subseteq Schedules /\ ticker[w].rows \subseteq Row
  BY <1>1 DEF Pass
<1>3. \A s \in Schedules : Flush(sched[s], ticker[w].old[s], ticker[w].new[s]) \in Schedule
  BY <1>1, <1>2, FlushIs
<1>4. Fresh(ticker[w].rows, queue) \subseteq Row
  BY <1>2 DEF Fresh
<1> QED
  BY <1>1, <1>2, <1>3, <1>4 DEF TickCommit

\* What a pass reads.
LEMMA ReadIs ==
  ASSUME TickerTypeInv, NEW w \in Workers, TickRead(w)
  PROVE  \E p \in Pass :
           /\ ticker' = [ticker EXCEPT ![w] = p]
           /\ p.busy /\ p.now = clock /\ p.rows = {} /\ p.due = Due(clock) /\ p.todo = p.due
           /\ p.new = p.old /\ p.due \subseteq present
           /\ \A s \in p.due : /\ p.old[s] = sched[s] /\ sched[s].active /\ sched[s].next # 0
                               /\ sched[s].next <= clock
<1> DEFINE rows == [s \in Schedules |-> IF s \in Due(clock) THEN sched[s] ELSE NoRow]
           p == [busy |-> TRUE, now |-> clock, old |-> rows, new |-> rows,
                 due |-> Due(clock), todo |-> Due(clock), rows |-> {}]
<1>1. /\ sched \in [Schedules -> Schedule] /\ present \subseteq Schedules /\ clock \in Nat
  BY BoundsAreNaturals DEF TickerTypeInv, TypeOK
<1>2. rows \in [Schedules -> Schedule]
  BY <1>1, NothingIsTyped
<1>3. Due(clock) \subseteq present /\ Due(clock) \subseteq Schedules
  BY <1>1 DEF Due
<1>4. p \in Pass
  BY <1>1, <1>2, <1>3 DEF Pass
<1>5. ticker' = [ticker EXCEPT ![w] = p]
  BY DEF TickRead
<1>6. \A s \in Due(clock) : /\ rows[s] = sched[s] /\ sched[s].active /\ sched[s].next # 0
                            /\ sched[s].next <= clock
  BY <1>3 DEF Due
<1> HIDE DEF rows
<1> QED
  BY <1>3, <1>4, <1>5, <1>6

\* A new schedule.
LEMMA CreateIs ==
  ASSUME TickerTypeInv, NEW s \in Schedules, NEW rule \in Rules, NEW limit \in Limits,
         Create(s, rule, limit)
  PROVE  \E midnight \in 0..clock : \E row \in Schedule :
           /\ sched' = [sched EXCEPT ![s] = row] /\ since' = [since EXCEPT ![s] = midnight]
           /\ row.active /\ (row.next # 0 => LooksAhead(row, midnight)) /\ Ends(row)
<1>1. PICK midnight \in 0..clock :
        LET row == [NoRow EXCEPT !.rule = rule, !.end = limit.end, !.max = limit.max]
            next == NextRun(row, midnight)
        IN  /\ sched' = [sched EXCEPT ![s] = [row EXCEPT !.active = TRUE, !.next = next]]
            /\ since' = [since EXCEPT ![s] = midnight]
  BY DEF Create
<1> DEFINE row == [NoRow EXCEPT !.rule = rule, !.end = limit.end, !.max = limit.max]
           first == Min({t \in Fires[row.rule] : t > midnight})
           new == [row EXCEPT !.active = TRUE, !.next = NextRun(row, midnight)]
<1>2. limit.end \in Nat /\ limit.max \in Nat /\ midnight \in 0..MaxClock
  BY EveryScheduleEnds, BoundsAreNaturals DEF TickerTypeInv, TypeOK
<1>3. row \in Schedule /\ Ends(row)
  BY <1>2, NothingIsTyped, EveryScheduleEnds DEF Schedule, Ends
<1> HIDE DEF row
<1>4. /\ first \in Fires[row.rule] /\ first \in Nat \ {0} /\ first > midnight
      /\ \A t \in Fires[row.rule] : t > midnight => first <= t
      /\ NextRun(row, midnight) = IF Ended(row, first) THEN 0 ELSE first
      /\ NextRun(row, midnight) \in Nat
  BY <1>2, <1>3, NextRunIsNext
<1>5. /\ new \in Schedule /\ new.active /\ new.next = NextRun(row, midnight)
      /\ new.count = row.count /\ new.rule = row.rule
      /\ new.end = row.end /\ new.max = row.max
  BY <1>3, <1>4 DEF Schedule
<1>6. sched' = [sched EXCEPT ![s] = new]
  BY <1>1 DEF row
<1> HIDE DEF first, new
<1>7. new.next # 0 => LooksAhead(new, midnight)
  BY <1>4, <1>5 DEF LooksAhead, Ended
<1>8. Ends(new)
  BY <1>3, <1>5 DEF Ends
<1> QED
  BY <1>1, <1>5, <1>6, <1>7, <1>8

LEMMA TickerTypesHoldInitially == Init => TickerTypeInv
BY NothingIsTyped, BoundsAreNaturals DEF Init, TickerTypeInv, TypeOK, PassesOK, PassOK, NoRows, Asleep

LEMMA TickerTypesKept ==
  ASSUME TickerTypeInv, [Next]_vars
  PROVE  TickerTypeInv'
<1>1. TypeOK /\ PassesOK /\ clock \in Nat /\ MaxClock \in Nat
  BY BoundsAreNaturals DEF TickerTypeInv, TypeOK
<1>2. /\ edits \in Nat /\ kills \in Nat /\ deferrals \in Nat
      /\ MaxEdits \in Nat /\ MaxKills \in Nat /\ MaxDeferrals \in Nat
  BY <1>1, BoundsAreNaturals DEF TypeOK
<1>3. ASSUME NEW w \in Workers, NEW p \in Pass, ticker' = [ticker EXCEPT ![w] = p],
             PassOK(p), clock' = clock
      PROVE  ticker' \in [Workers -> Pass] /\ PassesOK'
  <2>1. \A q : PassOK(q)' <=> PassOK(q)
    BY <1>3 DEF PassOK
  <2> QED
    BY <1>1, <1>3, <2>1 DEF TypeOK, PassesOK
<1>4. Asleep \in Pass /\ PassOK(Asleep)
  BY NothingIsTyped DEF Asleep, PassOK
<1>5. ASSUME NEW w \in Workers, TickRead(w)
      PROVE  TickerTypeInv'
  <2>1. PICK p \in Pass :
          /\ ticker' = [ticker EXCEPT ![w] = p]
          /\ p.busy /\ p.now = clock /\ p.due = Due(clock) /\ p.todo = p.due
          /\ p.due \subseteq present
          /\ \A s \in p.due : /\ p.old[s] = sched[s] /\ sched[s].active /\ sched[s].next # 0
                              /\ sched[s].next <= clock
    BY <1>5, ReadIs DEF TickerTypeInv
  <2>2. UNCHANGED <<clock, present, deleted, sched, queue, editor, since, edits, kills, deferrals>>
    BY <1>5 DEF TickRead
  <2>3. PassOK(p)
    BY <1>1, <2>1 DEF PassOK
  <2>4. ticker' \in [Workers -> Pass] /\ PassesOK'
    BY <1>3, <2>1, <2>2, <2>3
  <2> QED
    BY <1>1, <2>2, <2>4 DEF TypeOK, TickerTypeInv
<1>6. ASSUME NEW w \in Workers, NEW s \in Schedules, TickSchedule(w, s)
      PROVE  TickerTypeInv'
  <2>1. PICK fanout \in Fanouts, q \in Pass :
          ticker' = [ticker EXCEPT ![w] = q] /\ Handles(ticker[w], s, fanout, q)
    BY <1>6, EnqueuedIs
  <2>2. UNCHANGED <<clock, present, deleted, sched, queue, editor, since, edits, kills, deferrals>>
    BY <1>6 DEF TickSchedule
  <2>3. PassOK(ticker[w])
    BY <1>1 DEF PassesOK
  <2>4. PassOK(q)
    BY <2>1, <2>3 DEF PassOK, Handles
  <2>5. ticker' \in [Workers -> Pass] /\ PassesOK'
    BY <1>3, <2>1, <2>2, <2>4
  <2> QED
    BY <1>1, <2>2, <2>5 DEF TypeOK, TickerTypeInv
<1>7. ASSUME NEW w \in Workers, TickCommit(w)
      PROVE  TickerTypeInv'
  <2>1. queue' \subseteq Row /\ sched' \in [Schedules -> Schedule]
    BY <1>7, CommitIs
  <2>2. /\ ticker' = [ticker EXCEPT ![w] = Asleep]
        /\ UNCHANGED <<clock, present, deleted, editor, since, edits, kills, deferrals>>
    BY <1>7 DEF TickCommit
  <2>3. ticker' \in [Workers -> Pass] /\ PassesOK'
    BY <1>3, <1>4, <2>2
  <2> QED
    BY <1>1, <2>1, <2>2, <2>3 DEF TypeOK, TickerTypeInv
<1>8. ASSUME NEW w \in Workers, TickAborts(w) \/ Kill(w)
      PROVE  TickerTypeInv'
  <2>1. /\ ticker' = [ticker EXCEPT ![w] = Asleep] /\ kills' \in 0..MaxKills
        /\ UNCHANGED <<clock, present, deleted, sched, queue, editor, since, edits, deferrals>>
    BY <1>1, <1>2, <1>8 DEF TickAborts, Kill, TypeOK
  <2>2. ticker' \in [Workers -> Pass] /\ PassesOK'
    BY <1>3, <1>4, <2>1
  <2> QED
    BY <1>1, <2>1, <2>2 DEF TypeOK, TickerTypeInv
<1>9. ASSUME NEW e \in Editors, SaveStep(e)
      PROVE  TickerTypeInv'
  <2>1. /\ editor' = [editor EXCEPT ![e] = NoRequest]
        /\ UNCHANGED <<clock, present, deleted, queue, ticker, edits, kills, deferrals>>
        /\ UNCHANGED <<sched, since>> \/ \E new \in Schedule : Save(e, new)
    BY <1>9, SaveStepIs
  <2>2. editor' \in [Editors -> Request]
    BY <1>1, <2>1, NothingIsTyped DEF TypeOK
  <2>3. sched' \in [Schedules -> Schedule] /\ since' \in [Schedules -> Nat]
    <3>1. CASE UNCHANGED <<sched, since>>
      BY <1>1, <3>1 DEF TypeOK
    <3>2. ASSUME NEW new \in Schedule, Save(e, new)
          PROVE  sched' \in [Schedules -> Schedule] /\ since' \in [Schedules -> Nat]
      <4>1. editor[e].on \in Schedules /\ editor[e].old \in Schedule
        BY <1>1 DEF TypeOK, Request
      <4>2. Flush(sched[editor[e].on], editor[e].old, new) \in Schedule
        BY <1>1, <4>1, FlushIs DEF TypeOK
      <4> QED
        BY <1>1, <3>2, <4>1, <4>2 DEF Save, TypeOK
    <3> QED
      BY <2>1, <3>1, <3>2
  <2>4. PassesOK'
    BY <1>1, <2>1 DEF PassesOK, PassOK
  <2> QED
    BY <1>1, <2>1, <2>2, <2>3, <2>4 DEF TypeOK, TickerTypeInv
<1>10. ASSUME NEW e \in Editors, NEW s \in Schedules, Open(e, s)
       PROVE  TickerTypeInv'
  <2>1. [busy |-> TRUE, on |-> s, old |-> sched[s]] \in Request
    BY <1>1 DEF TypeOK, Request
  <2>2. editor' \in [Editors -> Request] /\ edits' \in 0..MaxEdits
    BY <1>1, <1>2, <1>10, <2>1 DEF Open, TypeOK
  <2>3. UNCHANGED <<clock, present, deleted, sched, queue, ticker, since, kills, deferrals>>
    BY <1>10 DEF Open
  <2>4. PassesOK'
    BY <1>1, <2>3 DEF PassesOK, PassOK
  <2> QED
    BY <1>1, <2>2, <2>3, <2>4 DEF TypeOK, TickerTypeInv
<1>11. ASSUME NEW s \in Schedules, NEW rule \in Rules, NEW limit \in Limits, Create(s, rule, limit)
       PROVE  TickerTypeInv'
  <2>1. PICK midnight \in 0..clock : \E row \in Schedule :
          sched' = [sched EXCEPT ![s] = row] /\ since' = [since EXCEPT ![s] = midnight]
    BY <1>11, CreateIs
  <2>2. sched' \in [Schedules -> Schedule] /\ since' \in [Schedules -> Nat]
    BY <1>1, <2>1 DEF TypeOK
  <2>3. /\ present' \subseteq Schedules /\ deleted \subseteq Schedules \ present'
        /\ edits' \in 0..MaxEdits
        /\ UNCHANGED <<clock, deleted, queue, ticker, editor, kills, deferrals>>
    BY <1>1, <1>2, <1>11 DEF Create, TypeOK
  <2>4. PassesOK'
    BY <1>1, <2>3 DEF PassesOK, PassOK
  <2> QED
    BY <1>1, <2>2, <2>3, <2>4 DEF TypeOK, TickerTypeInv
<1>12. ASSUME NEW s \in Schedules, Delete(s)
       PROVE  TickerTypeInv'
  <2>1. sched' \in [Schedules -> Schedule] /\ edits' \in 0..MaxEdits
    BY <1>1, <1>2, <1>12, NothingIsTyped DEF Delete, TypeOK
  <2>2. queue' \subseteq Row
    <3>1. \A q \in Row : [q EXCEPT !.schedule = NoSchedule] \in Row
      BY DEF Row
    <3> QED
      BY <1>1, <1>12, <3>1 DEF Delete, TypeOK
  <2>3. /\ present' \subseteq Schedules /\ deleted' \subseteq Schedules \ present'
        /\ UNCHANGED <<clock, ticker, editor, since, kills, deferrals>>
    BY <1>1, <1>12 DEF Delete, TypeOK
  <2>4. PassesOK'
    BY <1>1, <2>3 DEF PassesOK, PassOK
  <2> QED
    BY <1>1, <2>1, <2>2, <2>3, <2>4 DEF TypeOK, TickerTypeInv
<1>13. ASSUME NEW q \in queue, Execute(q) \/ Defer(q)
       PROVE  TickerTypeInv'
  <2>1. queue \subseteq Row /\ q \in Row
    BY <1>1 DEF TypeOK
  <2>2. [q EXCEPT !.status = "done"] \in Row /\ [q EXCEPT !.moved = TRUE] \in Row
    BY <2>1 DEF Row
  <2>3. queue' \subseteq Row /\ deferrals' \in 0..MaxDeferrals
    <3>1. CASE Execute(q)
      BY <1>1, <2>1, <2>2, <3>1 DEF Execute, TypeOK
    <3>2. CASE Defer(q)
      <4>1. queue' = (queue \ {q}) \cup {[q EXCEPT !.moved = TRUE]}
            /\ deferrals < MaxDeferrals /\ deferrals' = deferrals + 1
        BY <3>2 DEF Defer
      <4>2. deferrals' \in 0..MaxDeferrals
        BY <1>2, <4>1
      <4> QED
        BY <2>1, <2>2, <4>1, <4>2
    <3> QED
      BY <1>13, <3>1, <3>2
  <2>4. UNCHANGED <<clock, present, deleted, sched, ticker, editor, since, edits, kills>>
    BY <1>13 DEF Execute, Defer
  <2>5. PassesOK'
    BY <1>1, <2>4 DEF PassesOK, PassOK
  <2> QED
    BY <1>1, <2>3, <2>4, <2>5 DEF TypeOK, TickerTypeInv
<1>14. CASE Tick
  <2>1. clock' = clock + 1 /\ clock' \in 0..MaxClock
        /\ UNCHANGED <<present, deleted, sched, queue, ticker, editor, since, edits, kills, deferrals>>
    BY <1>1, <1>14 DEF Tick
  <2>2. \A w \in Workers : ticker[w].now \in Nat
    BY <1>1 DEF TypeOK, Pass
  <2>3. PassesOK'
    BY <1>1, <2>1, <2>2 DEF PassesOK, PassOK
  <2> QED
    BY <1>1, <2>1, <2>3 DEF TypeOK, TickerTypeInv
<1>15. CASE UNCHANGED vars
  BY <1>1, <1>15 DEF vars, TypeOK, PassesOK, PassOK, TickerTypeInv
<1> QED
  BY <1>5, <1>6, <1>7, <1>8, <1>9, <1>10, <1>11, <1>12, <1>13, <1>14, <1>15 DEF Next, TickStep

\* Every state of the ticker, its schedules, rows, passes and requests is well typed, and a
\* pass works on rows that were due when it read them, for any tickers and requests.
THEOREM TickerIsTyped == Spec => []TickerTypeInv
<1>1. Init => TickerTypeInv
  BY TickerTypesHoldInitially
<1>2. TickerTypeInv /\ [Next]_vars => TickerTypeInv'
  BY TickerTypesKept
<1> QED
  BY <1>1, <1>2, PTL DEF Spec

-----------------------------------------------------------------------------
(* One row for each window and combination *)

Unmoved(rows) == \A q \in rows : ~q.moved

\* WindowOnce of any set of rows.
Once(rows) ==
  \A p, q \in rows : /\ p.schedule = q.schedule /\ p.schedule # NoSchedule
                     /\ p.window = q.window /\ p.combo = q.combo
                     => p = q

OnceInv ==
  /\ TickerTypeInv /\ Unmoved(queue) /\ Once(queue)
  /\ \A w \in Workers : Unmoved(ticker[w].rows) /\ Once(ticker[w].rows)

\* What ON CONFLICT DO NOTHING lets through, as long as no row has been moved.
LEMMA FreshKeepsOnce ==
  ASSUME NEW table, NEW rows, Unmoved(table), Once(table), Unmoved(rows), Once(rows)
  PROVE  Unmoved(table \cup Fresh(rows, table)) /\ Once(table \cup Fresh(rows, table))
BY DEF Unmoved, Once, Fresh, SameOccurrence

LEMMA OnceInitially == Init => OnceInv
BY TickerTypesHoldInitially DEF Init, OnceInv, Unmoved, Once, Asleep

LEMMA OnceKept ==
  ASSUME OnceInv, [Next]_vars, MaxDeferrals = 0
  PROVE  OnceInv'
<1>1. TickerTypeInv' /\ TickerTypeInv /\ ticker \in [Workers -> Pass]
      /\ NoSchedule \notin Schedules
  BY TickerTypesKept, FanoutsAreSets DEF OnceInv, TickerTypeInv, TypeOK
<1>2. ASSUME NEW w \in Workers, NEW p, ticker' = [ticker EXCEPT ![w] = p],
             Unmoved(p.rows), Once(p.rows), Unmoved(queue'), Once(queue')
      PROVE  OnceInv'
  BY <1>1, <1>2 DEF OnceInv, Unmoved, Once
<1>3. Unmoved(Asleep.rows) /\ Once(Asleep.rows)
  BY DEF Asleep, Unmoved, Once
<1>4. Unmoved(queue) /\ Once(queue) /\ \A w \in Workers : Unmoved(ticker[w].rows) /\ Once(ticker[w].rows)
  BY DEF OnceInv
<1>5. ASSUME NEW w \in Workers, TickRead(w)
      PROVE  OnceInv'
  <2>1. PICK p \in Pass : ticker' = [ticker EXCEPT ![w] = p] /\ p.rows = {}
    BY <1>1, <1>5, ReadIs
  <2>2. Unmoved(p.rows) /\ Once(p.rows) /\ queue' = queue
    BY <1>5, <2>1 DEF TickRead, Unmoved, Once
  <2> QED
    BY <1>2, <1>4, <2>1, <2>2
<1>6. ASSUME NEW w \in Workers, NEW s \in Schedules, TickSchedule(w, s)
      PROVE  OnceInv'
  <2> DEFINE p == ticker[w]
             row == p.old[s]
             seen == queue \cup p.rows
  <2>1. PICK fanout \in Fanouts, q \in Pass :
          ticker' = [ticker EXCEPT ![w] = q] /\ Handles(p, s, fanout, q)
    BY <1>1, <1>6, EnqueuedIs
  <2>2. row \in Schedule /\ p.now \in 0..MaxClock /\ row.next <= p.now /\ fanout \in SUBSET Combos
    BY <1>1, <1>6, EnqueuedIs, FanoutsAreSets
  <2> DEFINE rows == WindowRows(s, row, p.now, fanout, Depth(seen))
  <2>3. Unmoved(rows) /\ Once(rows)
    <3>1. StandFor(rows, s, Windows(row, p.now), fanout)
      BY <2>2, WindowRowsAre
    <3> HIDE DEF rows
    <3> QED
      BY <3>1 DEF Unmoved, Once, StandFor
  <2>4. q.rows = p.rows \cup Fresh(rows, seen)
    BY <2>1 DEF Handles
  <2> HIDE DEF rows
  <2>5. Unmoved(q.rows) /\ Once(q.rows)
    <3>1. Unmoved(p.rows) /\ Once(p.rows)
      BY <1>4
    <3>2. \A x \in Fresh(rows, seen) : x \in rows
      BY DEF Fresh
    <3>3. \A x \in Fresh(rows, seen), y \in p.rows : ~SameOccurrence(x, y)
      BY DEF Fresh
    <3> QED
      BY <2>3, <2>4, <3>1, <3>2, <3>3 DEF Unmoved, Once, SameOccurrence
  <2>6. queue' = queue
    BY <1>6 DEF TickSchedule
  <2> QED
    BY <1>2, <1>4, <2>1, <2>5, <2>6
<1>7. ASSUME NEW w \in Workers, TickCommit(w)
      PROVE  OnceInv'
  <2>1. queue' = queue \cup Fresh(ticker[w].rows, queue) /\ ticker' = [ticker EXCEPT ![w] = Asleep]
    BY <1>7 DEF TickCommit
  <2> QED
    BY <1>2, <1>3, <1>4, <2>1, FreshKeepsOnce
<1>8. ASSUME NEW w \in Workers, TickAborts(w) \/ Kill(w)
      PROVE  OnceInv'
  <2>1. queue' = queue /\ ticker' = [ticker EXCEPT ![w] = Asleep]
    BY <1>8 DEF TickAborts, Kill
  <2> QED
    BY <1>2, <1>3, <1>4, <2>1
<1>9. ASSUME UNCHANGED <<queue, ticker>>
      PROVE  OnceInv'
  BY <1>1, <1>9 DEF OnceInv, Unmoved, Once
<1>10. ASSUME NEW s \in Schedules, Delete(s)
       PROVE  OnceInv'
  <2>1. ticker' = ticker
        /\ queue' = {IF q.schedule = s THEN [q EXCEPT !.schedule = NoSchedule] ELSE q : q \in queue}
    BY <1>10 DEF Delete
  <2>2. \A q \in Row : /\ [q EXCEPT !.schedule = NoSchedule].schedule = NoSchedule
                       /\ [q EXCEPT !.schedule = NoSchedule].moved = q.moved
    BY DEF Row
  <2>3. queue \subseteq Row
    BY <1>1 DEF TickerTypeInv, TypeOK
  <2>4. \A q \in queue' : (q \in queue /\ q.schedule # s) \/ (q.schedule = NoSchedule /\ ~q.moved)
    BY <1>4, <2>1, <2>2, <2>3 DEF Unmoved
  <2>5. Unmoved(queue') /\ Once(queue')
    BY <1>4, <2>4 DEF Unmoved, Once
  <2> QED
    BY <1>1, <1>4, <2>1, <2>5 DEF OnceInv, Unmoved, Once
<1>11. ASSUME NEW q \in queue, Execute(q)
       PROVE  OnceInv'
  <2> DEFINE r == [q EXCEPT !.status = "done"]
  <2>1. ticker' = ticker /\ queue' = (queue \ {q}) \cup {r}
    BY <1>11 DEF Execute
  <2>2. q \in Row
    BY <1>1 DEF TickerTypeInv, TypeOK
  <2>3. /\ r.schedule = q.schedule /\ r.window = q.window /\ r.combo = q.combo
        /\ r.moved = q.moved
    BY <2>2 DEF Row
  <2> HIDE DEF r
  <2>4. Unmoved(queue') /\ Once(queue')
    BY <1>4, <2>1, <2>3 DEF Unmoved, Once
  <2> QED
    BY <1>1, <1>4, <2>1, <2>4 DEF OnceInv, Unmoved, Once
<1>12. ~\E q \in queue : Defer(q)
  BY <1>1 DEF Defer, TickerTypeInv, TypeOK
<1>13. ASSUME NEW e \in Editors, SaveStep(e)
       PROVE  UNCHANGED <<queue, ticker>>
  BY <1>1, <1>13, SaveStepIs
<1> QED
  BY <1>5, <1>6, <1>7, <1>8, <1>9, <1>10, <1>11, <1>12, <1>13
     DEF Next, TickStep, Open, Create, Tick, vars

\* A second ticker, a killed pass or one that is overtaken by edits never queues an
\* occurrence again, unless the worker has postponed its row: for any tickers and requests,
\* whether or not they overlap.
THEOREM WindowsAreQueuedOnce ==
  ASSUME MaxDeferrals = 0
  PROVE  Spec => []WindowOnce
<1>1. Init => OnceInv
  BY OnceInitially
<1>2. OnceInv /\ [Next]_vars => OnceInv'
  BY OnceKept
<1>3. OnceInv => WindowOnce
  BY DEF OnceInv, Once, WindowOnce
<1> QED
  BY <1>1, <1>2, <1>3, PTL DEF Spec

-----------------------------------------------------------------------------
(* Requests and passes that do not overlap *)

\* The next window of a row comes after t and belongs to its rule and before its end.
Aims(row, t) ==
  row.next \in Fires[row.rule] /\ row.next > t /\ ~Ended(row, row.next)

SameRule(p, q) == p.rule = q.rule /\ p.end = q.end /\ p.max = q.max

\* A request that is open has read the row as it is.
RequestsFit ==
  \A e \in Editors : editor[e].busy =>
    /\ editor[e].on \in present \cup deleted
    /\ editor[e].on \in present => editor[e].old = sched[editor[e].on]

RowsFit ==
  \A s \in present :
    /\ since[s] <= clock
    /\ sched[s].active /\ sched[s].next # 0 => Aims(sched[s], since[s])

\* A pass has read the rule in force, and works it off.
PassFits(p) ==
  p.busy =>
    /\ p.due \subseteq present
    /\ \A s \in p.due : /\ SameRule(p.old[s], sched[s]) /\ Aims(p.old[s], since[s])
                        /\ p.new[s] = IF s \in p.todo THEN p.old[s]
                                      ELSE Advanced(p.old[s], p.now)
    /\ \A q \in p.rows :
         /\ q.schedule \in p.due /\ q.window \in Fires[sched[q.schedule].rule]
         /\ since[q.schedule] < q.window /\ q.window <= clock

QueueFits ==
  \A q \in queue : q.schedule \in present \cup {NoSchedule} /\ q.window <= clock

TurnInv ==
  /\ TickerTypeInv
  /\ NobodyEdits \/ NobodyTicks
  /\ RequestsFit /\ RowsFit /\ QueueFits
  /\ \A w \in Workers : PassFits(ticker[w])

\* What a pass makes of a row, in the terms of TurnInv.
LEMMA AdvancedAims ==
  ASSUME TickerTypeInv, NEW w \in Workers, ticker[w].busy, PassFits(ticker[w]),
         NEW s \in ticker[w].due, s \notin ticker[w].todo
  PROVE  LET p == ticker[w]
             old == p.old[s]
             new == p.new[s]
             row == Flush(sched[s], old, new)
             last == Max(Windows(old, p.now)) IN
         /\ s \in Schedules /\ s \in present /\ old \in Schedule /\ new \in Schedule
         /\ row \in Schedule /\ old.next <= p.now /\ old.next # 0 /\ p.now \in 0..MaxClock
         /\ SameRule(row, sched[s]) /\ SameRule(old, sched[s])
         /\ row.next = new.next /\ row.count = new.count
         /\ new = Advanced(old, p.now)
         /\ since[s] < old.next /\ old.next <= last
         /\ row.next # 0 => Aims(row, since[s])
<1> DEFINE p == ticker[w]
           old == p.old[s]
           new == p.new[s]
           row == Flush(sched[s], old, new)
           W == Windows(old, p.now)
<1>1. p \in Pass /\ sched \in [Schedules -> Schedule] /\ clock \in 0..MaxClock
      /\ since \in [Schedules -> Nat] /\ PassOK(p) /\ present \subseteq Schedules
  BY DEF TickerTypeInv, TypeOK, PassesOK
<1>2. s \in Schedules /\ old \in Schedule /\ new \in Schedule /\ p.now \in Nat
      /\ sched[s] \in Schedule /\ since[s] \in Nat
  BY <1>1 DEF Pass
<1>3. old.next # 0 /\ old.next <= p.now /\ p.now \in 0..MaxClock
  BY <1>1, <1>2, BoundsAreNaturals DEF PassOK
<1>4. SameRule(old, sched[s]) /\ Aims(old, since[s]) /\ new = Advanced(old, p.now) /\ s \in present
  BY DEF PassFits
<1> HIDE DEF p, old, new
<1>5. /\ new.rule = old.rule /\ new.next # old.next /\ new.end = old.end /\ new.max = old.max
      /\ new.count = old.count + Cardinality(W)
      /\ new.next # 0 => new.next \in Fires[old.rule] /\ new.next > Max(W) /\ ~Ended(new, new.next)
  BY <1>2, <1>3, <1>4, AdvancedIs
<1>6. /\ old.next \in W /\ \A t \in W : t <= Max(W)
      /\ IsFiniteSet(W) /\ Cardinality(W) \in Nat
  BY <1>2, <1>3, WindowsAreDue
<1> HIDE DEF W
<1>7. Cardinality(W) # 0
  BY <1>6, FS_EmptySet
<1>8. /\ row \in Schedule /\ row.next = new.next /\ row.count = new.count
      /\ row.rule = sched[s].rule /\ row.end = sched[s].end /\ row.max = sched[s].max
  <2>1. new.count # old.count
    BY <1>2, <1>5, <1>6, <1>7 DEF Schedule
  <2> QED
    BY <1>2, <1>5, <2>1, FlushIs
<1> HIDE DEF row
<1>9. old.next <= Max(W) /\ since[s] < old.next
  BY <1>4, <1>6 DEF Aims
<1>10. Max(W) \in Nat /\ old.next \in Nat /\ new.next \in Nat
  BY <1>1, <1>2, <1>3, WindowsAreDue DEF Schedule, W
<1>11. row.next # 0 => Aims(row, since[s])
  BY <1>2, <1>4, <1>5, <1>8, <1>9, <1>10 DEF Aims, Ended, SameRule
<1> QED
  BY <1>2, <1>3, <1>4, <1>8, <1>9, <1>11 DEF p, old, new, row, W, SameRule

LEMMA TurnHoldsInitially == Init => TurnInv
BY TickerTypesHoldInitially
   DEF Init, TurnInv, NobodyEdits, RequestsFit, RowsFit, QueueFits, PassFits, Asleep, NoRequest

\* A step of a ticker that leaves the schedules alone.
LEMMA TurnKeptByPasses ==
  ASSUME TurnInv, TickerTypeInv', NEW w \in Workers, NEW p, PassFits(p),
         ticker' = [ticker EXCEPT ![w] = p], ~p.busy \/ NobodyEdits,
         UNCHANGED <<clock, present, deleted, sched, queue, editor, since>>
  PROVE  TurnInv'
<1>1. ticker \in [Workers -> Pass]
  BY DEF TurnInv, TickerTypeInv, TypeOK
<1>2. \A q : PassFits(q)' <=> PassFits(q)
  BY DEF PassFits
<1>3. \A v \in Workers : PassFits(ticker[v])'
  BY <1>1, <1>2 DEF TurnInv
<1>4. NobodyEdits' \/ NobodyTicks'
  BY <1>1 DEF TurnInv, NobodyEdits, NobodyTicks
<1> QED
  BY <1>3, <1>4 DEF TurnInv, RequestsFit, RowsFit, QueueFits

LEMMA TurnKept ==
  ASSUME TurnInv, [Next]_vars, ~Overlapping, \A e, f \in Editors : e = f
  PROVE  TurnInv'
<1>1. /\ TickerTypeInv' /\ TickerTypeInv
      /\ ticker \in [Workers -> Pass] /\ editor \in [Editors -> Request]
      /\ sched \in [Schedules -> Schedule] /\ since \in [Schedules -> Nat]
      /\ clock \in 0..MaxClock /\ clock \in Nat /\ queue \subseteq Row
      /\ present \subseteq Schedules /\ deleted \subseteq Schedules \ present
      /\ NoSchedule \notin Schedules
  BY TickerTypesKept, FanoutsAreSets, BoundsAreNaturals DEF TurnInv, TickerTypeInv, TypeOK
<1>2. /\ RequestsFit /\ RowsFit /\ QueueFits /\ \A w \in Workers : PassFits(ticker[w])
      /\ NobodyEdits \/ NobodyTicks
  BY DEF TurnInv
<1>3. PassFits(Asleep) /\ ~Asleep.busy
  BY DEF PassFits, Asleep
<1>4. ASSUME NEW w \in Workers, TickRead(w)
      PROVE  TurnInv'
  <2>1. PICK p \in Pass :
           /\ ticker' = [ticker EXCEPT ![w] = p]
           /\ p.busy /\ p.now = clock /\ p.rows = {} /\ p.due = Due(clock) /\ p.todo = p.due
           /\ p.new = p.old /\ p.due \subseteq present
           /\ \A s \in p.due : /\ p.old[s] = sched[s] /\ sched[s].active /\ sched[s].next # 0
                               /\ sched[s].next <= clock
    BY <1>1, <1>4, ReadIs
  <2>2. NobodyEdits /\ UNCHANGED <<clock, present, deleted, sched, queue, editor, since>>
    BY <1>4 DEF TickRead
  <2>3. PassFits(p)
    BY <1>2, <2>1 DEF PassFits, RowsFit, SameRule
  <2> QED
    BY <1>1, <2>1, <2>2, <2>3, TurnKeptByPasses
<1>5. ASSUME NEW w \in Workers, NEW s \in Schedules, TickSchedule(w, s)
      PROVE  TurnInv'
  <2> DEFINE p == ticker[w]
             row == p.old[s]
             seen == queue \cup p.rows
  <2>1. PICK fanout \in Fanouts, q \in Pass :
          ticker' = [ticker EXCEPT ![w] = q] /\ Handles(p, s, fanout, q)
    BY <1>1, <1>5, EnqueuedIs
  <2>2. /\ p \in Pass /\ p.busy /\ row \in Schedule /\ p.now \in 0..MaxClock
        /\ s \in p.due /\ s \in p.todo /\ row.next # 0 /\ row.next <= p.now
        /\ fanout \in SUBSET Combos
    BY <1>1, <1>5, EnqueuedIs, FanoutsAreSets
  <2>3. UNCHANGED <<clock, present, deleted, sched, queue, editor, since>>
    BY <1>5 DEF TickSchedule
  <2>4. NobodyEdits
    BY <1>2, <2>2 DEF NobodyTicks
  <2> DEFINE rows == WindowRows(s, row, p.now, fanout, Depth(seen))
             W == Windows(row, p.now)
  <2>5. StandFor(rows, s, W, fanout)
    BY <2>2, WindowRowsAre
  <2>6. W \subseteq 0..p.now /\ \A t \in W : row.next <= t /\ (t = row.next \/ t \in Fires[row.rule])
    BY <2>2, WindowsAreDue
  <2>7. /\ q.busy = p.busy /\ q.now = p.now /\ q.old = p.old /\ q.due = p.due
        /\ q.todo = p.todo \ {s} /\ q.new = [p.new EXCEPT ![s] = Advanced(row, p.now)]
        /\ q.rows = p.rows \cup Fresh(rows, seen)
    BY <2>1 DEF Handles
  <2> HIDE DEF rows, W
  <2>8. PassFits(p) /\ p.new \in [Schedules -> Schedule] /\ p.now <= clock /\ p.due \subseteq Schedules
    BY <1>1, <1>2, <2>2 DEF Pass, TickerTypeInv, PassesOK, PassOK
  <2>9. row.rule = sched[s].rule /\ Aims(row, since[s])
    BY <2>2, <2>8 DEF PassFits, SameRule
  <2>10. ASSUME NEW x \in Fresh(rows, seen)
         PROVE  x.schedule = s /\ x.window \in Fires[sched[s].rule]
                /\ since[s] < x.window /\ x.window <= clock
    <3>1. x.schedule = s /\ x.window \in W
      BY <2>5 DEF Fresh, StandFor
    <3>2. since[s] \in Nat /\ row.next \in Nat /\ p.now \in Nat /\ x.window \in 0..p.now
      <4>1. since[s] \in Nat /\ row.next \in Nat
        BY <1>1, <2>2 DEF Schedule
      <4>2. p.now \in Nat
        BY <2>2 DEF Pass
      <4>3. x.window \in 0..p.now
        BY <2>6, <3>1
      <4> QED
        BY <4>1, <4>2, <4>3
    <3>3. row.next <= x.window /\ x.window \in Fires[sched[s].rule] /\ row.next > since[s]
      BY <2>6, <2>9, <3>1 DEF Aims
    <3> QED
      BY <1>1, <2>8, <3>1, <3>2, <3>3
  <2>11. \A x \in p.due : q.new[x] = IF x \in q.todo THEN q.old[x] ELSE Advanced(q.old[x], q.now)
    BY <2>2, <2>7, <2>8 DEF PassFits
  <2>12. PassFits(q)
    BY <2>2, <2>7, <2>8, <2>10, <2>11 DEF PassFits
  <2> QED
    BY <1>1, <2>1, <2>3, <2>4, <2>12, TurnKeptByPasses
<1>6. ASSUME NEW w \in Workers, TickAborts(w) \/ Kill(w)
      PROVE  TurnInv'
  <2>1. /\ ticker' = [ticker EXCEPT ![w] = Asleep]
        /\ UNCHANGED <<clock, present, deleted, sched, queue, editor, since>>
    BY <1>6 DEF TickAborts, Kill
  <2> QED
    BY <1>1, <1>3, <2>1, TurnKeptByPasses
<1>7. ASSUME NEW w \in Workers, TickCommit(w)
      PROVE  TurnInv'
  <2> DEFINE p == ticker[w]
  <2>1. /\ p.busy /\ p.todo = {} /\ p.due \subseteq present
        /\ queue' = queue \cup Fresh(p.rows, queue)
        /\ ticker' = [ticker EXCEPT ![w] = Asleep]
        /\ UNCHANGED <<clock, present, deleted, editor, since>>
    BY <1>7 DEF TickCommit
  <2>2. /\ sched' \in [Schedules -> Schedule]
        /\ \A s \in Schedules \ p.due : sched'[s] = sched[s]
        /\ \A s \in p.due : sched'[s] = Flush(sched[s], p.old[s], p.new[s])
    BY <1>1, <1>7, CommitIs
  <2>3. NobodyEdits /\ NobodyEdits'
    BY <1>2, <2>1 DEF NobodyTicks, NobodyEdits
  <2>4. \A s \in Schedules : SameRule(sched'[s], sched[s])
    <3>1. ASSUME NEW s \in p.due
          PROVE  SameRule(sched'[s], sched[s])
      BY <1>1, <1>2, <2>1, <2>2, AdvancedAims
    <3> QED
      BY <2>2, <3>1 DEF SameRule
  <2>5. RowsFit'
    <3>1. ASSUME NEW s \in present
          PROVE  since[s] <= clock /\ (sched'[s].active /\ sched'[s].next # 0
                                        => Aims(sched'[s], since[s]))
      <4>1. CASE s \in p.due
        BY <1>1, <1>2, <2>1, <2>2, <4>1, AdvancedAims DEF RowsFit
      <4>2. CASE s \notin p.due
        BY <1>1, <1>2, <2>2, <4>2 DEF RowsFit
      <4> QED
        BY <4>1, <4>2
    <3> QED
      BY <2>1, <3>1 DEF RowsFit
  <2>6. QueueFits'
    <3>1. \A q \in Fresh(p.rows, queue) : q.schedule \in present /\ q.window <= clock
      BY <1>2, <2>1 DEF PassFits, Fresh
    <3> QED
      BY <1>2, <2>1, <3>1 DEF QueueFits
  <2>7. RequestsFit'
    BY <2>3 DEF RequestsFit, NobodyEdits
  <2>8. ASSUME NEW v \in Workers
        PROVE  PassFits(ticker[v])'
    <3>1. CASE v = w
      BY <1>1, <2>1, <3>1 DEF PassFits, Asleep
    <3>2. CASE v # w
      <4>1. ticker'[v] = ticker[v] /\ PassFits(ticker[v]) /\ ticker[v] \in Pass
        BY <1>1, <1>2, <2>1, <3>2
      <4>2. ticker[v].due \subseteq Schedules /\ \A s \in Schedules : sched'[s].rule = sched[s].rule
        BY <2>4, <4>1 DEF Pass, SameRule
      <4>3. \A s \in ticker[v].due : SameRule(ticker[v].old[s], sched'[s]) <=>
                                     SameRule(ticker[v].old[s], sched[s])
        BY <2>4, <4>2 DEF SameRule
      <4> QED
        BY <2>1, <4>1, <4>2, <4>3 DEF PassFits
    <3> QED
      BY <3>1, <3>2
  <2> QED
    BY <1>1, <2>3, <2>5, <2>6, <2>7, <2>8 DEF TurnInv
<1>8. ASSUME NEW e \in Editors, SaveStep(e)
      PROVE  TurnInv'
  <2>1. /\ editor[e].busy /\ editor' = [editor EXCEPT ![e] = NoRequest]
        /\ UNCHANGED <<clock, present, deleted, queue, ticker, edits, kills, deferrals>>
        /\ \/ UNCHANGED <<sched, since>>
           \/ \E new \in Schedule : Save(e, new) /\ (new.active => LooksAhead(new, clock))
    BY <1>1, <1>8, SaveStepIs
  <2>2. NobodyTicks /\ NobodyTicks'
    BY <1>2, <2>1 DEF NobodyEdits, NobodyTicks
  <2>3. NobodyEdits'
    BY <1>1, <2>1 DEF NobodyEdits, NoRequest
  <2>4. RequestsFit'
    BY <2>3 DEF RequestsFit, NobodyEdits
  <2>5. RowsFit'
    <3>1. CASE UNCHANGED <<sched, since>>
      BY <1>2, <2>1, <3>1 DEF RowsFit
    <3>2. ASSUME NEW new \in Schedule, Save(e, new), new.active => LooksAhead(new, clock)
          PROVE  RowsFit'
      <4> DEFINE s == editor[e].on
      <4>1. CASE s \notin present
        BY <1>2, <2>1, <3>2, <4>1 DEF RowsFit, Save
      <4>2. CASE s \in present
        <5>1. editor[e].old = sched[s] /\ sched[s] \in Schedule
          BY <1>1, <1>2, <2>1, <4>2 DEF RequestsFit
        <5>2. sched' = [sched EXCEPT ![s] = Flush(sched[s], sched[s], new)]
              /\ since' = [since EXCEPT ![s] = clock]
          BY <3>2, <4>2, <5>1 DEF Save
        <5> DEFINE row == Flush(sched[s], sched[s], new)
        <5>3. /\ row.active = new.active /\ row.next = new.next /\ row.count = new.count
              /\ row.rule = new.rule /\ row.end = new.end /\ row.max = new.max
          BY <3>2, <5>1, FlushIs
        <5> HIDE DEF row
        <5>4. row.active => Aims(row, clock)
          BY <3>2, <5>3 DEF LooksAhead, Aims, Ended
        <5>5. /\ sched'[s] = row /\ since'[s] = clock
              /\ \A x \in present \ {s} : sched'[x] = sched[x] /\ since'[x] = since[x]
          BY <1>1, <4>2, <5>2 DEF row
        <5> QED
          BY <1>1, <1>2, <2>1, <5>4, <5>5 DEF RowsFit
      <4> QED
        BY <4>1, <4>2
    <3> QED
      BY <2>1, <3>1, <3>2
  <2>6. QueueFits' /\ \A w \in Workers : PassFits(ticker[w])'
    BY <1>2, <2>1, <2>2 DEF QueueFits, PassFits, NobodyTicks
  <2> QED
    BY <1>1, <2>3, <2>4, <2>5, <2>6 DEF TurnInv
<1>9. ASSUME NEW e \in Editors, NEW s \in Schedules, Open(e, s)
      PROVE  TurnInv'
  <2>1. /\ NobodyTicks /\ s \in present
        /\ editor' = [editor EXCEPT ![e] = [busy |-> TRUE, on |-> s, old |-> sched[s]]]
        /\ UNCHANGED <<clock, present, deleted, sched, queue, ticker, since>>
    BY <1>9 DEF Open
  <2>2. RequestsFit'
    BY <1>1, <1>2, <2>1 DEF RequestsFit
  <2>3. NobodyTicks' /\ RowsFit' /\ QueueFits' /\ \A w \in Workers : PassFits(ticker[w])'
    BY <1>2, <2>1 DEF NobodyTicks, RowsFit, QueueFits, PassFits
  <2> QED
    BY <1>1, <2>2, <2>3 DEF TurnInv
<1>10. ASSUME NEW s \in Schedules, NEW rule \in Rules, NEW limit \in Limits, Create(s, rule, limit)
       PROVE  TurnInv'
  <2>1. PICK midnight \in 0..clock, row \in Schedule :
          /\ sched' = [sched EXCEPT ![s] = row] /\ since' = [since EXCEPT ![s] = midnight]
          /\ row.active /\ (row.next # 0 => LooksAhead(row, midnight))
    BY <1>1, <1>10, CreateIs
  <2>2. /\ NobodyTicks /\ s \notin present \cup deleted /\ present' = present \cup {s}
        /\ UNCHANGED <<clock, deleted, queue, ticker, editor>>
    BY <1>10 DEF Create
  <2>3. /\ sched'[s] = row /\ since'[s] = midnight
        /\ \A x \in Schedules \ {s} : sched'[x] = sched[x] /\ since'[x] = since[x]
    BY <1>1, <2>1
  <2>4. RequestsFit'
    BY <1>1, <1>2, <2>2, <2>3 DEF RequestsFit
  <2>5. row.next # 0 => Aims(row, midnight)
    BY <2>1 DEF LooksAhead, Aims
  <2>6. RowsFit'
    BY <1>1, <1>2, <2>2, <2>3, <2>5 DEF RowsFit
  <2>7. NobodyTicks' /\ QueueFits' /\ \A w \in Workers : PassFits(ticker[w])'
    BY <1>2, <2>2 DEF NobodyTicks, QueueFits, PassFits
  <2> QED
    BY <1>1, <2>4, <2>6, <2>7 DEF TurnInv
<1>11. ASSUME NEW s \in Schedules, Delete(s)
       PROVE  TurnInv'
  <2>1. /\ NobodyTicks /\ s \in present /\ present' = present \ {s} /\ deleted' = deleted \cup {s}
        /\ sched' = [sched EXCEPT ![s] = NoRow]
        /\ queue' = {IF q.schedule = s THEN [q EXCEPT !.schedule = NoSchedule] ELSE q : q \in queue}
        /\ UNCHANGED <<clock, ticker, editor, since>>
    BY <1>11 DEF Delete
  <2>2. RequestsFit' /\ RowsFit'
    BY <1>1, <1>2, <2>1 DEF RequestsFit, RowsFit
  <2>3. QueueFits'
    <3>1. \A q \in Row : /\ [q EXCEPT !.schedule = NoSchedule].schedule = NoSchedule
                         /\ [q EXCEPT !.schedule = NoSchedule].window = q.window
      BY DEF Row
    <3>2. \A q \in queue' : \E x \in queue :
            q.window = x.window /\ (q.schedule = NoSchedule \/ (q.schedule = x.schedule /\ x.schedule # s))
      BY <1>1, <2>1, <3>1
    <3> QED
      BY <1>2, <2>1, <3>2 DEF QueueFits
  <2>4. NobodyTicks' /\ \A w \in Workers : PassFits(ticker[w])'
    BY <2>1 DEF NobodyTicks, PassFits
  <2> QED
    BY <1>1, <2>2, <2>3, <2>4 DEF TurnInv
<1>12. ASSUME NEW q \in queue, Execute(q) \/ Defer(q)
       PROVE  TurnInv'
  <2>1. UNCHANGED <<clock, present, deleted, sched, ticker, editor, since>>
    BY <1>12 DEF Execute, Defer
  <2>2. PICK r \in Row : /\ queue' = (queue \ {q}) \cup {r}
                         /\ r.schedule = q.schedule /\ r.window = q.window
    <3>1. q \in Row
      BY <1>1
    <3>2. /\ [q EXCEPT !.status = "done"] \in Row /\ [q EXCEPT !.moved = TRUE] \in Row
          /\ [q EXCEPT !.status = "done"].schedule = q.schedule
          /\ [q EXCEPT !.status = "done"].window = q.window
          /\ [q EXCEPT !.moved = TRUE].schedule = q.schedule
          /\ [q EXCEPT !.moved = TRUE].window = q.window
      BY <3>1 DEF Row
    <3>3. \/ queue' = (queue \ {q}) \cup {[q EXCEPT !.status = "done"]}
          \/ queue' = (queue \ {q}) \cup {[q EXCEPT !.moved = TRUE]}
      BY <1>12 DEF Execute, Defer
    <3> QED
      BY <3>2, <3>3, Zenon
  <2>3. QueueFits'
    BY <1>2, <2>1, <2>2 DEF QueueFits
  <2> QED
    BY <1>1, <1>2, <2>1, <2>3 DEF TurnInv, NobodyEdits, NobodyTicks, RequestsFit, RowsFit, PassFits
<1>13. CASE Tick
  <2>1. /\ clock' = clock + 1
        /\ UNCHANGED <<present, deleted, sched, queue, ticker, editor, since>>
    BY <1>13 DEF Tick
  <2>2. RowsFit'
    BY <1>1, <1>2, <2>1 DEF RowsFit
  <2>3. \A q \in Row : q.window \in Nat
    BY DEF Row
  <2>4. QueueFits'
    BY <1>1, <1>2, <2>1, <2>3 DEF QueueFits
  <2>5. ASSUME NEW w \in Workers
        PROVE  PassFits(ticker[w])'
    <3>1. ticker[w].rows \subseteq Row /\ PassFits(ticker[w])
      BY <1>1, <1>2 DEF Pass
    <3>2. \A q \in ticker[w].rows : q.window <= clock => q.window <= clock'
      BY <1>1, <2>1, <2>3, <3>1
    <3> QED
      BY <2>1, <3>1, <3>2 DEF PassFits
  <2> QED
    BY <1>1, <1>2, <2>1, <2>2, <2>4, <2>5 DEF TurnInv, NobodyEdits, NobodyTicks, RequestsFit
<1>14. CASE UNCHANGED vars
  BY <1>1, <1>2, <1>14
     DEF vars, TurnInv, NobodyEdits, NobodyTicks, RequestsFit, RowsFit, QueueFits, PassFits
<1> QED
  BY <1>4, <1>5, <1>6, <1>7, <1>8, <1>9, <1>10, <1>11, <1>12, <1>13, <1>14 DEF Next, TickStep

\* Only a commit adds windows, and those are the pass's.
LEMMA NewRowsAreAhead ==
  ASSUME TurnInv, [Next]_vars
  PROVE  \A q \in NewRows : /\ q.window \in Fires[sched[q.schedule].rule]
                            /\ q.window > since[q.schedule]
<1>1. /\ TickerTypeInv /\ ticker \in [Workers -> Pass] /\ queue \subseteq Row
      /\ since \in [Schedules -> Nat] /\ present \subseteq Schedules /\ NoSchedule \notin Schedules
      /\ \A w \in Workers : PassFits(ticker[w])
  BY FanoutsAreSets DEF TurnInv, TickerTypeInv, TypeOK
<1>2. ASSUME queue' = queue
      PROVE  NewRows = {}
  BY <1>2 DEF NewRows
<1>3. ASSUME NEW w \in Workers, TickCommit(w), NEW q \in NewRows
      PROVE  q.window \in Fires[sched[q.schedule].rule] /\ q.window > since[q.schedule]
  <2>1. ticker[w].busy /\ queue' = queue \cup Fresh(ticker[w].rows, queue)
    BY <1>3 DEF TickCommit
  <2>2. q \in ticker[w].rows
    BY <2>1 DEF NewRows, Fresh
  <2>3. q.schedule \in Schedules /\ q.window \in Nat
    <3>1. ticker[w].rows \subseteq Row /\ ticker[w].due \subseteq Schedules
      BY <1>1 DEF Pass
    <3> QED
      BY <1>1, <2>1, <2>2, <3>1 DEF PassFits, Row
  <2> QED
    BY <1>1, <2>1, <2>2, <2>3 DEF PassFits
<1>4. ASSUME NEW s \in Schedules, Delete(s)
      PROVE  NewRows = {}
  <2>1. \A q \in Row : [q EXCEPT !.schedule = NoSchedule].schedule = NoSchedule
    BY DEF Row
  <2>2. \A q \in queue' : q \in queue \/ q.schedule = NoSchedule
    BY <1>1, <1>4, <2>1 DEF Delete
  <2> QED
    BY <1>1, <2>2 DEF NewRows
<1>5. ASSUME NEW q \in queue, Execute(q) \/ Defer(q)
      PROVE  NewRows = {}
  <2>1. q \in Row
    BY <1>1
  <2>2. \A x \in queue' : x \in queue \/ (x.schedule = q.schedule /\ x.window = q.window
                                          /\ x.combo = q.combo)
    <3>1. CASE Execute(q)
      BY <2>1, <3>1 DEF Execute, Row
    <3>2. CASE Defer(q)
      BY <2>1, <3>2 DEF Defer, Row
    <3> QED
      BY <1>5, <3>1, <3>2
  <2> QED
    BY <2>2 DEF NewRows
<1>6. ASSUME NEW e \in Editors, SaveStep(e)
      PROVE  queue' = queue
  BY <1>1, <1>6, SaveStepIs
<1> QED
  BY <1>2, <1>3, <1>4, <1>5, <1>6
     DEF Next, TickStep, TickRead, TickSchedule, TickAborts, Kill, Open, Create, Tick, vars

\* A window is only queued if the rule in force fires then, and never for a time before
\* that rule was created, edited or resumed, however many tickers run and are killed, as
\* long as requests are answered one at a time and between passes.
THEOREM EditsTakeEffectForward ==
  ASSUME ~Overlapping, \A e, f \in Editors : e = f
  PROVE  Spec => NeverRetroactive
<1>1. Init => TurnInv
  BY TurnHoldsInitially
<1>2. TurnInv /\ [Next]_vars => TurnInv'
  BY TurnKept
<1>3. TurnInv /\ [Next]_vars =>
        [\A q \in NewRows : /\ q.window \in Fires[sched[q.schedule].rule]
                            /\ q.window > since[q.schedule]]_vars
  BY NewRowsAreAhead
<1> QED
  BY <1>1, <1>2, <1>3, PTL DEF Spec, NeverRetroactive

-----------------------------------------------------------------------------
(* No window is lost *)

\* A row for the window t of a schedule, or the summary row that covers it.
Covered(s, t, rows) ==
  \E q \in rows : /\ q.schedule = s
                  /\ q.window = t \/ (q.status = "worker_down" /\ q.window > t)

\* Of the times of a rule, those after `from' and before u.
CoveredFrom(fires, from, s, u, rows) ==
  \A t \in fires : from < t /\ t < u => Covered(s, t, rows)

\* Of the rule in force, the windows before u.
CoveredBefore(s, u, rows) == CoveredFrom(Fires[sched[s].rule], since[s], s, u, rows)

\* A row stands for more than its window: those before it are covered, too.
RowsCover(rows, table) ==
  \A q \in rows : q.schedule \in present => CoveredBefore(q.schedule, q.window, table)

PassCovers(p) ==
  p.busy =>
    /\ RowsCover(p.rows, queue \cup p.rows)
    /\ \A s \in p.due :
         /\ CoveredBefore(s, p.old[s].next, queue)
         /\ s \notin p.todo => CoveredBefore(s, p.new[s].next, queue \cup p.rows)

CoverInv ==
  /\ TurnInv
  /\ \A s \in present : sched[s].active => CoveredBefore(s, sched[s].next, queue)
  /\ RowsCover(queue, queue)
  /\ \A w \in Workers : PassCovers(ticker[w])

\* A row may give way to another that covers as much.
LEMMA StandInsCover ==
  ASSUME NEW fires, NEW from, NEW s, NEW u, NEW A, NEW B, CoveredFrom(fires, from, s, u, A),
         \A q \in A : q.schedule = s => \E r \in B :
           /\ r.schedule = s /\ r.window = q.window
           /\ q.status = "worker_down" => r.status = "worker_down"
  PROVE  CoveredFrom(fires, from, s, u, B)
<1>1. ASSUME NEW t \in fires, from < t, t < u
      PROVE  Covered(s, t, B)
  <2>1. PICK q \in A : /\ q.schedule = s
                       /\ q.window = t \/ (q.status = "worker_down" /\ q.window > t)
    BY <1>1 DEF CoveredFrom, Covered
  <2> QED
    BY <2>1 DEF Covered
<1> QED
  BY <1>1 DEF CoveredFrom

\* More rows cover no less.
LEMMA MoreCover ==
  ASSUME NEW s, NEW u, NEW A, NEW B, A \subseteq B, CoveredBefore(s, u, A)
  PROVE  CoveredBefore(s, u, B)
BY DEF CoveredBefore, CoveredFrom, Covered

\* What a pass inserts into a table, together with the table, covers what its rows do:
\* where a row is dropped, the one it meets covers the windows before.
LEMMA FreshCover ==
  ASSUME TurnInv, NEW s \in present, NEW u \in Nat, NEW table, NEW rows,
         RowsCover(table, table), CoveredBefore(s, u, table \cup rows)
  PROVE  CoveredBefore(s, u, table \cup Fresh(rows, table))
<1>1. ASSUME NEW t \in Fires[sched[s].rule], since[s] < t, t < u
      PROVE  Covered(s, t, table \cup Fresh(rows, table))
  <2>1. PICK q \in table \cup rows :
          q.schedule = s /\ (q.window = t \/ (q.status = "worker_down" /\ q.window > t))
    BY <1>1 DEF CoveredBefore, CoveredFrom, Covered
  <2>2. CASE q \in table \cup Fresh(rows, table)
    BY <2>1, <2>2 DEF Covered
  <2>3. CASE q \notin table \cup Fresh(rows, table)
    <3>1. PICK x \in table : SameOccurrence(q, x)
      BY <2>1, <2>3 DEF Fresh
    <3>2. x.schedule = s /\ x.window = q.window
      BY <2>1, <3>1 DEF SameOccurrence
    <3>3. CASE q.window = t
      BY <3>2, <3>3 DEF Covered
    <3>4. CASE q.window > t
      <4>1. t < x.window
        BY <3>2, <3>4
      <4>2. Covered(s, t, table)
        BY <1>1, <3>2, <4>1 DEF RowsCover, CoveredBefore, CoveredFrom
      <4> QED
        BY <4>2 DEF Covered
    <3> QED
      BY <2>1, <3>3, <3>4
  <2> QED
    BY <2>2, <2>3
<1> QED
  BY <1>1 DEF CoveredBefore, CoveredFrom

LEMMA CoverHoldsInitially == Init => CoverInv
BY TurnHoldsInitially DEF Init, CoverInv, RowsCover, PassCovers, Asleep

\* A step of a ticker that leaves the schedules and the queue alone.
LEMMA CoverKeptByPasses ==
  ASSUME CoverInv, TurnInv', NEW w \in Workers, NEW p, PassCovers(p),
         ticker' = [ticker EXCEPT ![w] = p], UNCHANGED <<present, sched, queue, since>>
  PROVE  CoverInv'
<1>1. ticker \in [Workers -> Pass]
  BY DEF CoverInv, TurnInv, TickerTypeInv, TypeOK
<1>2. \A q : PassCovers(q)' <=> PassCovers(q)
  BY DEF PassCovers, RowsCover, CoveredBefore
<1>3. \A v \in Workers : PassCovers(ticker[v])'
  BY <1>1, <1>2 DEF CoverInv
<1> QED
  BY <1>3 DEF CoverInv, RowsCover, CoveredBefore

\* The rows of one schedule's windows leave no window out.
LEMMA EnqueuedCovers ==
  ASSUME CoverInv, {} \notin Fanouts, NEW w \in Workers, NEW s \in Schedules, TickSchedule(w, s),
         NEW fanout \in Fanouts, NEW q \in Pass, Handles(ticker[w], s, fanout, q)
  PROVE  PassCovers(q)
<1> DEFINE p == ticker[w]
           row == p.old[s]
           seen == queue \cup p.rows
           rows == WindowRows(s, row, p.now, fanout, Depth(seen))
           W == Windows(row, p.now)
           after == queue \cup q.rows
<1>1. /\ TurnInv /\ TickerTypeInv /\ PassFits(p) /\ PassCovers(p)
      /\ RowsCover(queue, queue) /\ since \in [Schedules -> Nat] /\ present \subseteq Schedules
      /\ sched \in [Schedules -> Schedule] /\ queue \subseteq Row
  BY DEF CoverInv, TurnInv, TickerTypeInv, TypeOK
<1>2. /\ p \in Pass /\ p.busy /\ row \in Schedule /\ p.now \in 0..MaxClock
      /\ s \in p.due /\ s \in p.todo /\ row.next # 0 /\ row.next <= p.now
      /\ fanout \in SUBSET Combos /\ fanout # {}
  BY <1>1, EnqueuedIs, FanoutsAreSets
<1>3. StandFor(rows, s, W, fanout)
  BY <1>2, WindowRowsAre
<1>4. /\ Max(W) \in W /\ W \subseteq 0..p.now
      /\ \A t \in W : t <= Max(W)
      /\ \A t \in Fires[row.rule] : row.next <= t /\ t <= Max(W) => t \in W
      /\ \A t \in W : t \in Nat
  <2>1. p.now \in Nat
    BY <1>2 DEF Pass
  <2>2. /\ Max(W) \in W /\ W \subseteq 0..p.now
        /\ \A t \in W : t <= Max(W)
        /\ \A t \in Fires[row.rule] : row.next <= t /\ t <= Max(W) => t \in W
    BY <1>2, WindowsAreDue
  <2> HIDE DEF W
  <2>3. \A t \in W : t \in 0..p.now
    BY <2>2
  <2>4. \A t \in 0..p.now : t \in Nat
    BY <2>1
  <2> QED
    BY <2>2, <2>3, <2>4
<1>5. /\ q.busy = p.busy /\ q.now = p.now /\ q.old = p.old /\ q.due = p.due
      /\ q.todo = p.todo \ {s} /\ q.new = [p.new EXCEPT ![s] = Advanced(row, p.now)]
      /\ q.rows = p.rows \cup Fresh(rows, seen) /\ after = seen \cup Fresh(rows, seen)
  BY DEF Handles
<1>6. LET new == Advanced(row, p.now) IN
      /\ new \in Schedule
      /\ new.next # 0 => \A t \in Fires[row.rule] : t > Max(W) => new.next <= t
  BY <1>2, AdvancedIs
<1> DEFINE last == Max(W)
           new == Advanced(row, p.now)
<1> HIDE DEF rows, W, new
<1>7. /\ s \in present /\ row.rule = sched[s].rule /\ Aims(row, since[s])
      /\ p.due \subseteq present /\ p.due \subseteq Schedules /\ p.new \in [Schedules -> Schedule]
  BY <1>1, <1>2 DEF PassFits, SameRule, Pass
<1>8. /\ last \in Nat /\ row.next \in Nat /\ since[s] \in Nat /\ new.next \in Nat
      /\ sched[s].rule \in Rules
  <2>1. last \in Nat
    BY <1>4
  <2>2. row.next \in Nat
    BY <1>2 DEF Schedule
  <2>3. new.next \in Nat
    BY <1>6 DEF Schedule, new
  <2>4. since[s] \in Nat /\ sched[s].rule \in Rules
    BY <1>1 DEF Schedule
  <2> QED
    BY <2>1, <2>2, <2>3, <2>4
<1>9. Fires[sched[s].rule] \subseteq Nat
  BY <1>8, RulesFire
<1>10. RowsCover(seen, seen)
  <2>1. ASSUME NEW x \in seen, x.schedule \in present
        PROVE  CoveredBefore(x.schedule, x.window, seen)
    <3>1. CASE x \in queue
      BY <1>1, <2>1, <3>1, MoreCover DEF RowsCover
    <3>2. CASE x \in p.rows
      BY <1>1, <1>2, <2>1, <3>2 DEF RowsCover, PassCovers
    <3> QED
      BY <3>1, <3>2
  <2> QED
    BY <2>1 DEF RowsCover
<1> HIDE DEF seen, after, last
<1>11. CoveredBefore(s, last + 1, seen \cup rows)
  <2>1. ASSUME NEW t \in Fires[sched[s].rule], since[s] < t, t < last + 1
        PROVE  Covered(s, t, seen \cup rows)
    <3>1. CASE t < row.next
      <4>1. CoveredBefore(s, row.next, queue)
        BY <1>1, <1>2 DEF PassCovers
      <4> QED
        BY <2>1, <3>1, <4>1 DEF CoveredBefore, CoveredFrom, Covered, seen
    <3>2. CASE ~(t < row.next)
      <4>1. t \in W
        BY <1>4, <1>7, <1>8, <1>9, <2>1, <3>2 DEF last
      <4>2. PICK x \in rows : x.window = t \/ (x.status = "worker_down" /\ x.window > t)
        BY <1>2, <1>3, <4>1 DEF StandFor
      <4>3. x.schedule = s
        BY <1>3 DEF StandFor
      <4> QED
        BY <4>2, <4>3 DEF Covered
    <3> QED
      BY <3>1, <3>2
  <2> QED
    BY <2>1 DEF CoveredBefore, CoveredFrom
<1>12. CoveredBefore(s, last + 1, after)
  <2>1. last + 1 \in Nat
    BY <1>8
  <2>2. CoveredBefore(s, last + 1, seen \cup Fresh(rows, seen))
    BY <1>1, <1>7, <1>10, <1>11, <2>1, FreshCover
  <2> QED
    BY <1>5, <2>2
<1>13. ASSUME NEW u \in Nat, \A t \in Fires[sched[s].rule] : t > last => u <= t
       PROVE  CoveredBefore(s, u, after)
  <2>1. \A t \in Fires[sched[s].rule] : t < u => t < last + 1
    BY <1>8, <1>9, <1>13
  <2> QED
    BY <1>12, <2>1 DEF CoveredBefore, CoveredFrom
<1>14. CoveredBefore(s, new.next, after)
  <2>1. CASE new.next = 0
    BY <1>8, <1>9, <2>1 DEF CoveredBefore, CoveredFrom
  <2>2. CASE new.next # 0
    BY <1>6, <1>7, <1>8, <1>13, <2>2 DEF new, last
  <2> QED
    BY <2>1, <2>2
<1>15. seen \subseteq after /\ queue \cup p.rows = seen /\ queue \cup q.rows = after
  BY <1>5 DEF seen, after
<1>16. RowsCover(q.rows, after)
  <2>1. ASSUME NEW x \in q.rows, x.schedule \in present
        PROVE  CoveredBefore(x.schedule, x.window, after)
    <3>1. CASE x \in p.rows
      <4>1. CoveredBefore(x.schedule, x.window, seen)
        BY <1>1, <1>2, <1>15, <2>1, <3>1 DEF RowsCover, PassCovers
      <4> QED
        BY <1>15, <4>1, MoreCover
    <3>2. CASE x \in Fresh(rows, seen)
      <4>1. x.schedule = s /\ x.window \in W
        BY <1>3, <3>2 DEF StandFor, Fresh
      <4>2. x.window \in Nat /\ x.window <= last
        BY <1>4, <4>1 DEF last
      <4>3. \A t \in Fires[sched[s].rule] : t > last => x.window <= t
        BY <1>8, <1>9, <4>2
      <4> QED
        BY <1>13, <4>1, <4>2, <4>3
    <3> QED
      BY <1>5, <2>1, <3>1, <3>2
  <2> QED
    BY <2>1 DEF RowsCover
<1>17. ASSUME NEW x \in q.due
       PROVE  /\ CoveredBefore(x, q.old[x].next, queue)
              /\ x \notin q.todo => CoveredBefore(x, q.new[x].next, after)
  <2>1. x \in p.due /\ CoveredBefore(x, p.old[x].next, queue) /\ x \in Schedules
    BY <1>1, <1>2, <1>5, <1>7, <1>17 DEF PassCovers
  <2>2. CASE x = s
    BY <1>5, <1>7, <1>14, <2>1, <2>2 DEF new
  <2>3. CASE x # s
    <3>1. q.new[x] = p.new[x] /\ (x \notin q.todo => x \notin p.todo)
      BY <1>5, <1>7, <2>1, <2>3
    <3>2. x \notin p.todo => CoveredBefore(x, p.new[x].next, seen)
      BY <1>1, <1>2, <1>15, <2>1 DEF PassCovers
    <3> QED
      BY <1>5, <1>15, <2>1, <3>1, <3>2, MoreCover
  <2> QED
    BY <2>2, <2>3
<1> QED
  BY <1>15, <1>16, <1>17 DEF PassCovers

\* A pass keeps its cover while other rows come and stand-ins take the place of rows.
LEMMA PassCoverKept ==
  ASSUME NEW p, PassCovers(p), p.due \subseteq present', present' \subseteq present,
         since' = since, \A s \in present' : sched'[s].rule = sched[s].rule,
         \A q \in queue : q.schedule \in present' => \E r \in queue' :
           /\ r.schedule = q.schedule /\ r.window = q.window
           /\ q.status = "worker_down" => r.status = "worker_down"
  PROVE  PassCovers(p)'
<1> DEFINE A == queue \cup p.rows
           B == queue' \cup p.rows
<1>1. ASSUME NEW s \in present', NEW u
      PROVE  /\ CoveredBefore(s, u, A) => CoveredFrom(Fires[sched'[s].rule], since'[s], s, u, B)
             /\ CoveredBefore(s, u, queue)
                  => CoveredFrom(Fires[sched'[s].rule], since'[s], s, u, queue')
  <2>1. \A q \in queue : q.schedule = s => \E r \in queue' :
          /\ r.schedule = s /\ r.window = q.window
          /\ q.status = "worker_down" => r.status = "worker_down"
    BY <1>1
  <2>2. \A q \in A : q.schedule = s => \E r \in B :
          /\ r.schedule = s /\ r.window = q.window
          /\ q.status = "worker_down" => r.status = "worker_down"
    BY <2>1
  <2>3. CoveredBefore(s, u, A) => CoveredFrom(Fires[sched[s].rule], since[s], s, u, B)
    BY <2>2, StandInsCover DEF CoveredBefore
  <2>4. CoveredBefore(s, u, queue) => CoveredFrom(Fires[sched[s].rule], since[s], s, u, queue')
    BY <2>1, StandInsCover DEF CoveredBefore
  <2> QED
    BY <1>1, <2>3, <2>4
<1>2. RowsCover(p.rows, A) => \A q \in p.rows : q.schedule \in present' =>
        CoveredFrom(Fires[sched'[q.schedule].rule], since'[q.schedule], q.schedule, q.window, B)
  BY <1>1 DEF RowsCover
<1>3. \A s \in p.due : /\ CoveredBefore(s, p.old[s].next, queue) =>
                            CoveredFrom(Fires[sched'[s].rule], since'[s], s, p.old[s].next, queue')
                       /\ CoveredBefore(s, p.new[s].next, A) =>
                            CoveredFrom(Fires[sched'[s].rule], since'[s], s, p.new[s].next, B)
  BY <1>1
<1> QED
  BY <1>2, <1>3 DEF PassCovers, RowsCover, CoveredBefore

\* A commit: the schedules move on as far as the rows it adds cover them.
LEMMA CommitCovers ==
  ASSUME CoverInv, TurnInv', NEW w \in Workers, TickCommit(w)
  PROVE  CoverInv'
<1> DEFINE p == ticker[w]
<1>1. /\ TurnInv /\ TickerTypeInv /\ PassFits(p) /\ PassCovers(p) /\ RowsCover(queue, queue)
      /\ ticker \in [Workers -> Pass] /\ sched \in [Schedules -> Schedule]
      /\ queue \subseteq Row /\ present \subseteq Schedules
      /\ \A v \in Workers : PassFits(ticker[v]) /\ PassCovers(ticker[v])
      /\ \A s \in present : sched[s].active => CoveredBefore(s, sched[s].next, queue)
  BY DEF CoverInv, TurnInv, TickerTypeInv, TypeOK
<1>2. /\ p.busy /\ p.todo = {} /\ p.due \subseteq present
      /\ queue' = queue \cup Fresh(p.rows, queue)
      /\ ticker' = [ticker EXCEPT ![w] = Asleep]
      /\ UNCHANGED <<clock, present, deleted, editor, since>>
  BY DEF TickCommit
<1>3. /\ \A s \in Schedules \ p.due : sched'[s] = sched[s]
      /\ \A s \in p.due : sched'[s] = Flush(sched[s], p.old[s], p.new[s])
  BY <1>1, CommitIs
<1>4. \A s \in p.due : /\ sched'[s].rule = sched[s].rule /\ sched'[s].next = p.new[s].next
                       /\ p.new[s] \in Schedule
  BY <1>1, <1>2, <1>3, AdvancedAims DEF SameRule
<1>5. \A s \in present : sched'[s].rule = sched[s].rule
  BY <1>1, <1>3, <1>4
<1>6. ASSUME NEW s \in present, NEW u \in Nat, CoveredBefore(s, u, queue \cup p.rows)
      PROVE  CoveredFrom(Fires[sched'[s].rule], since'[s], s, u, queue')
  <2>1. CoveredBefore(s, u, queue \cup Fresh(p.rows, queue))
    BY <1>1, <1>6, FreshCover
  <2> QED
    BY <1>2, <1>5, <2>1 DEF CoveredBefore
<1>7. ASSUME NEW s \in present, NEW u, CoveredBefore(s, u, queue)
      PROVE  CoveredFrom(Fires[sched'[s].rule], since'[s], s, u, queue')
  <2>1. CoveredBefore(s, u, queue')
    BY <1>2, <1>7, MoreCover
  <2> QED
    BY <1>2, <1>5, <2>1 DEF CoveredBefore
<1>8. ASSUME NEW s \in present, sched'[s].active
      PROVE  CoveredFrom(Fires[sched'[s].rule], since'[s], s, sched'[s].next, queue')
  <2>1. CASE s \in p.due
    <3>1. CoveredBefore(s, p.new[s].next, queue \cup p.rows)
      BY <1>1, <1>2, <2>1 DEF PassCovers
    <3>2. p.new[s].next \in Nat
      BY <1>4, <2>1 DEF Schedule
    <3> QED
      BY <1>4, <1>6, <2>1, <3>1, <3>2
  <2>2. CASE s \notin p.due
    <3>1. sched'[s] = sched[s]
      BY <1>1, <1>3, <2>2
    <3> QED
      BY <1>1, <1>7, <1>8, <3>1
  <2> QED
    BY <2>1, <2>2
<1>9. ASSUME NEW q \in queue', q.schedule \in present
      PROVE  CoveredFrom(Fires[sched'[q.schedule].rule], since'[q.schedule], q.schedule,
                         q.window, queue')
  <2>1. CASE q \in queue
    BY <1>1, <1>7, <1>9, <2>1 DEF RowsCover
  <2>2. CASE q \notin queue
    <3>1. q \in p.rows /\ q \in Row
      BY <1>1, <1>2, <2>2 DEF Fresh, Pass
    <3>2. CoveredBefore(q.schedule, q.window, queue \cup p.rows)
      BY <1>1, <1>2, <1>9, <3>1 DEF PassCovers, RowsCover
    <3>3. q.window \in Nat
      BY <3>1 DEF Row
    <3> QED
      BY <1>6, <1>9, <3>2, <3>3
  <2> QED
    BY <2>1, <2>2
<1>10. ASSUME NEW v \in Workers
       PROVE  PassCovers(ticker[v])'
  <2>1. CASE v = w
    BY <1>1, <1>2, <2>1 DEF PassCovers, Asleep
  <2>2. CASE v # w
    <3>1. ticker'[v] = ticker[v]
      BY <1>1, <1>2, <2>2
    <3>2. CASE ticker[v].busy
      <4>1. ticker[v].due \subseteq present'
        BY <1>1, <1>2, <3>2 DEF PassFits
      <4>2. queue \subseteq queue'
        BY <1>2
      <4>3. \A x : x = ticker[v] => PassCovers(x)'
        BY <1>1, <1>2, <1>5, <4>1, <4>2, PassCoverKept
      <4> QED
        BY <3>1, <4>3
    <3>3. CASE ~ticker[v].busy
      BY <3>1, <3>3 DEF PassCovers
    <3> QED
      BY <3>2, <3>3
  <2> QED
    BY <2>1, <2>2
<1> QED
  BY <1>2, <1>8, <1>9, <1>10 DEF CoverInv, RowsCover, CoveredBefore

\* An edit, a resume and a new schedule look ahead: nothing is due yet.
LEMMA NothingIsDueYet ==
  ASSUME TypeOK, NEW row \in Schedule, NEW after \in Nat, NEW s, NEW rows,
         row.next # 0 => LooksAhead(row, after)
  PROVE  CoveredFrom(Fires[row.rule], after, s, row.next, rows)
<1>1. Fires[row.rule] \subseteq Nat /\ row.next \in Nat
  BY RulesFire DEF Schedule
<1>2. ~\E t \in Fires[row.rule] : after < t /\ t < row.next
  BY <1>1 DEF LooksAhead
<1> QED
  BY <1>2 DEF CoveredFrom

LEMMA CoverKept ==
  ASSUME CoverInv, [Next]_vars, ~Overlapping, \A e, f \in Editors : e = f, {} \notin Fanouts
  PROVE  CoverInv'
<1>1. /\ TurnInv' /\ TurnInv /\ TickerTypeInv /\ RowsCover(queue, queue)
      /\ ticker \in [Workers -> Pass] /\ sched \in [Schedules -> Schedule]
      /\ since \in [Schedules -> Nat] /\ editor \in [Editors -> Request]
      /\ queue \subseteq Row /\ present \subseteq Schedules /\ clock \in Nat
      /\ NoSchedule \notin Schedules /\ QueueFits /\ RequestsFit
      /\ \A v \in Workers : PassFits(ticker[v]) /\ PassCovers(ticker[v])
      /\ \A s \in present : sched[s].active => CoveredBefore(s, sched[s].next, queue)
      /\ NobodyEdits \/ NobodyTicks
  BY TurnKept, FanoutsAreSets, BoundsAreNaturals DEF CoverInv, TurnInv, TickerTypeInv, TypeOK
<1>2. PassCovers(Asleep)
  BY DEF PassCovers, Asleep
<1>3. ASSUME NEW w \in Workers, TickRead(w)
      PROVE  CoverInv'
  <2>1. PICK p \in Pass :
           /\ ticker' = [ticker EXCEPT ![w] = p]
           /\ p.busy /\ p.rows = {} /\ p.due = Due(clock) /\ p.todo = p.due
           /\ p.due \subseteq present
           /\ \A s \in p.due : p.old[s] = sched[s] /\ sched[s].active
    BY <1>1, <1>3, ReadIs
  <2>2. UNCHANGED <<present, sched, queue, since>>
    BY <1>3 DEF TickRead
  <2>3. PassCovers(p)
    BY <1>1, <2>1 DEF PassCovers, RowsCover
  <2> QED
    BY <1>1, <2>1, <2>2, <2>3, CoverKeptByPasses
<1>4. ASSUME NEW w \in Workers, NEW s \in Schedules, TickSchedule(w, s)
      PROVE  CoverInv'
  <2>1. PICK fanout \in Fanouts, q \in Pass :
          ticker' = [ticker EXCEPT ![w] = q] /\ Handles(ticker[w], s, fanout, q)
    BY <1>1, <1>4, EnqueuedIs
  <2>2. UNCHANGED <<present, sched, queue, since>>
    BY <1>4 DEF TickSchedule
  <2>3. PassCovers(q)
    BY <1>4, <2>1, EnqueuedCovers
  <2> QED
    BY <1>1, <2>1, <2>2, <2>3, CoverKeptByPasses
<1>5. ASSUME NEW w \in Workers, TickAborts(w) \/ Kill(w)
      PROVE  CoverInv'
  <2>1. ticker' = [ticker EXCEPT ![w] = Asleep] /\ UNCHANGED <<present, sched, queue, since>>
    BY <1>5 DEF TickAborts, Kill
  <2> QED
    BY <1>1, <1>2, <2>1, CoverKeptByPasses
<1>6. ASSUME NEW w \in Workers, TickCommit(w)
      PROVE  CoverInv'
  BY <1>1, <1>6, CommitCovers
<1>7. ASSUME NEW s \in Schedules, NEW row \in Schedule, NEW after \in 0..clock,
             sched' = [sched EXCEPT ![s] = row], since' = [since EXCEPT ![s] = after],
             row.active /\ row.next # 0 => LooksAhead(row, after),
             \A q \in queue : q.schedule = s => q.window <= after,
             UNCHANGED <<queue, ticker>>, present' \subseteq present \cup {s}, NobodyTicks
      PROVE  CoverInv'
  <2>1. /\ sched'[s] = row /\ since'[s] = after /\ after \in Nat
        /\ \A x \in Schedules \ {s} : sched'[x] = sched[x] /\ since'[x] = since[x]
    BY <1>1, <1>7
  <2>2. ASSUME NEW x \in present', sched'[x].active
        PROVE  CoveredFrom(Fires[sched'[x].rule], since'[x], x, sched'[x].next, queue')
    <3>1. CASE x = s
      BY <1>1, <1>7, <2>1, <2>2, <3>1, NothingIsDueYet DEF TickerTypeInv
    <3>2. CASE x # s
      BY <1>1, <1>7, <2>1, <2>2, <3>2 DEF CoveredBefore
    <3> QED
      BY <3>1, <3>2
  <2>3. ASSUME NEW q \in queue', q.schedule \in present'
        PROVE  CoveredFrom(Fires[sched'[q.schedule].rule], since'[q.schedule], q.schedule,
                           q.window, queue')
    <3>1. CASE q.schedule = s
      <4>1. q.window \in Nat /\ q.window <= after /\ Fires[row.rule] \subseteq Nat
        BY <1>1, <1>7, <2>3, <3>1, RulesFire DEF Row, Schedule
      <4> QED
        BY <2>1, <3>1, <4>1 DEF CoveredFrom
    <3>2. CASE q.schedule # s
      BY <1>1, <1>7, <2>1, <2>3, <3>2 DEF RowsCover, CoveredBefore
    <3> QED
      BY <3>1, <3>2
  <2>4. \A v \in Workers : PassCovers(ticker[v])'
    BY <1>7 DEF PassCovers, NobodyTicks
  <2> QED
    BY <1>1, <2>2, <2>3, <2>4 DEF CoverInv, RowsCover, CoveredBefore
<1>8. ASSUME UNCHANGED <<present, sched, since, queue, ticker>>
      PROVE  CoverInv'
  BY <1>1, <1>8 DEF CoverInv, RowsCover, CoveredBefore, PassCovers
<1>9. ASSUME NEW e \in Editors, SaveStep(e)
      PROVE  CoverInv'
  <2>1. /\ editor[e].busy
        /\ UNCHANGED <<clock, present, deleted, queue, ticker, edits, kills, deferrals>>
        /\ \/ UNCHANGED <<sched, since>>
           \/ \E new \in Schedule : Save(e, new) /\ (new.active => LooksAhead(new, clock))
    BY <1>1, <1>9, SaveStepIs
  <2>2. CASE UNCHANGED <<sched, since>>
    BY <1>8, <2>1, <2>2
  <2>3. ASSUME NEW new \in Schedule, Save(e, new), new.active => LooksAhead(new, clock)
        PROVE  CoverInv'
    <3> DEFINE s == editor[e].on
               row == Flush(sched[s], sched[s], new)
    <3>1. CASE s \notin present
      BY <1>8, <2>1, <2>3, <3>1 DEF Save
    <3>2. CASE s \in present
      <4>1. editor[e].old = sched[s] /\ sched[s] \in Schedule /\ s \in Schedules
        BY <1>1, <2>1, <3>2 DEF RequestsFit
      <4>2. sched' = [sched EXCEPT ![s] = row] /\ since' = [since EXCEPT ![s] = clock]
        BY <2>3, <3>2, <4>1 DEF Save
      <4>3. /\ row.active = new.active /\ row.next = new.next /\ row.count = new.count
            /\ row.rule = new.rule /\ row.end = new.end /\ row.max = new.max
            /\ row \in Schedule
        BY <2>3, <4>1, FlushIs
      <4> HIDE DEF row
      <4>4. row.active /\ row.next # 0 => LooksAhead(row, clock)
        BY <2>3, <4>3 DEF LooksAhead, Ended
      <4>5. NobodyTicks /\ clock \in 0..clock
        BY <1>1, <2>1 DEF NobodyEdits
      <4>6. \A q \in queue : q.window <= clock
        BY <1>1 DEF QueueFits
      <4> QED
        BY <1>7, <2>1, <4>1, <4>2, <4>3, <4>4, <4>5, <4>6
    <3> QED
      BY <3>1, <3>2
  <2> QED
    BY <2>1, <2>2, <2>3
<1>10. ASSUME NEW s \in Schedules, NEW rule \in Rules, NEW limit \in Limits, Create(s, rule, limit)
       PROVE  CoverInv'
  <2>1. PICK midnight \in 0..clock, row \in Schedule :
          /\ sched' = [sched EXCEPT ![s] = row] /\ since' = [since EXCEPT ![s] = midnight]
          /\ row.active /\ (row.next # 0 => LooksAhead(row, midnight))
    BY <1>1, <1>10, CreateIs
  <2>2. /\ NobodyTicks /\ s \notin present /\ present' = present \cup {s}
        /\ UNCHANGED <<queue, ticker>>
    BY <1>10 DEF Create
  <2>3. \A q \in queue : q.schedule # s
    BY <1>1, <2>2 DEF QueueFits
  <2> QED
    BY <1>7, <2>1, <2>2, <2>3
<1>11. ASSUME NEW s \in Schedules, Delete(s)
       PROVE  CoverInv'
  <2>1. /\ NobodyTicks /\ present' = present \ {s} /\ sched' = [sched EXCEPT ![s] = NoRow]
        /\ queue' = {IF q.schedule = s THEN [q EXCEPT !.schedule = NoSchedule] ELSE q : q \in queue}
        /\ UNCHANGED <<ticker, since>>
    BY <1>11 DEF Delete
  <2>2. \A x \in present' : x # s /\ x \in present /\ sched'[x] = sched[x]
    BY <1>1, <2>1
  <2>3. \A q \in queue : q.schedule # s => q \in queue'
    BY <2>1
  <2>4. \A q \in queue' : q.schedule \in present' => q \in queue
    <3>1. \A q \in Row : [q EXCEPT !.schedule = NoSchedule].schedule = NoSchedule
      BY DEF Row
    <3> QED
      BY <1>1, <2>1, <3>1
  <2>5. ASSUME NEW x \in present', NEW u, CoveredBefore(x, u, queue)
        PROVE  CoveredFrom(Fires[sched'[x].rule], since'[x], x, u, queue')
    <3>1. \A q \in queue : q.schedule = x => q \in queue'
      BY <2>2, <2>3
    <3>2. CoveredFrom(Fires[sched[x].rule], since[x], x, u, queue')
      BY <2>5, <3>1, StandInsCover DEF CoveredBefore
    <3> QED
      BY <2>1, <2>2, <3>2
  <2>6. \A v \in Workers : PassCovers(ticker[v])'
    BY <2>1 DEF PassCovers, NobodyTicks
  <2>7. \A x \in present' : sched'[x].active =>
          CoveredFrom(Fires[sched'[x].rule], since'[x], x, sched'[x].next, queue')
    BY <1>1, <2>2, <2>5
  <2>8. \A q \in queue' : q.schedule \in present' =>
          CoveredFrom(Fires[sched'[q.schedule].rule], since'[q.schedule], q.schedule,
                      q.window, queue')
    BY <1>1, <2>2, <2>4, <2>5 DEF RowsCover
  <2> QED
    BY <1>1, <2>6, <2>7, <2>8 DEF CoverInv, RowsCover, CoveredBefore
<1>12. ASSUME NEW q \in queue, Execute(q) \/ Defer(q)
       PROVE  CoverInv'
  <2>1. UNCHANGED <<present, sched, ticker, since>> /\ q.status = "queued"
    BY <1>12 DEF Execute, Defer
  <2>2. PICK r \in Row : /\ queue' = (queue \ {q}) \cup {r}
                         /\ r.schedule = q.schedule /\ r.window = q.window
    <3>1. q \in Row
      BY <1>1
    <3>2. /\ [q EXCEPT !.status = "done"] \in Row /\ [q EXCEPT !.moved = TRUE] \in Row
          /\ [q EXCEPT !.status = "done"].schedule = q.schedule
          /\ [q EXCEPT !.status = "done"].window = q.window
          /\ [q EXCEPT !.moved = TRUE].schedule = q.schedule
          /\ [q EXCEPT !.moved = TRUE].window = q.window
      BY <3>1 DEF Row
    <3>3. \/ queue' = (queue \ {q}) \cup {[q EXCEPT !.status = "done"]}
          \/ queue' = (queue \ {q}) \cup {[q EXCEPT !.moved = TRUE]}
      BY <1>12 DEF Execute, Defer
    <3> QED
      BY <3>2, <3>3, Zenon
  <2>3. \A x \in queue : \E y \in queue' : /\ y.schedule = x.schedule /\ y.window = x.window
                                           /\ x.status = "worker_down" => y.status = "worker_down"
    BY <2>1, <2>2
  <2>4. ASSUME NEW x \in present, NEW u, CoveredBefore(x, u, queue)
        PROVE  CoveredFrom(Fires[sched'[x].rule], since'[x], x, u, queue')
    <3>1. \A y \in queue : y.schedule = x => \E z \in queue' :
            /\ z.schedule = x /\ z.window = y.window
            /\ y.status = "worker_down" => z.status = "worker_down"
      BY <2>3
    <3>2. CoveredFrom(Fires[sched[x].rule], since[x], x, u, queue')
      BY <2>4, <3>1, StandInsCover DEF CoveredBefore
    <3> QED
      BY <2>1, <3>2
  <2>5. \A x \in present : sched'[x].active =>
          CoveredFrom(Fires[sched'[x].rule], since'[x], x, sched'[x].next, queue')
    BY <1>1, <2>1, <2>4
  <2>6. \A x \in queue' : x.schedule \in present =>
          CoveredFrom(Fires[sched'[x.schedule].rule], since'[x.schedule], x.schedule,
                      x.window, queue')
    BY <1>1, <2>2, <2>4 DEF RowsCover
  <2>7. ASSUME NEW v \in Workers
        PROVE  PassCovers(ticker[v])'
    <3>1. CASE ticker[v].busy
      <4>1. ticker[v].due \subseteq present' /\ PassCovers(ticker[v])
        BY <1>1, <2>1, <3>1 DEF PassFits
      <4>2. \A x : x = ticker[v] => PassCovers(x)'
        BY <2>1, <2>3, <4>1, PassCoverKept
      <4> QED
        BY <2>1, <4>2
    <3>2. CASE ~ticker[v].busy
      BY <2>1, <3>2 DEF PassCovers
    <3> QED
      BY <3>1, <3>2
  <2> QED
    BY <1>1, <2>1, <2>5, <2>6, <2>7 DEF CoverInv, RowsCover, CoveredBefore
<1>13. CASE Tick
  BY <1>8, <1>13 DEF Tick
<1>14. CASE UNCHANGED vars
  BY <1>8, <1>14 DEF vars
<1>15. ASSUME NEW e \in Editors, NEW s \in Schedules, Open(e, s)
       PROVE  CoverInv'
  BY <1>8, <1>15 DEF Open
<1> QED
  BY <1>3, <1>4, <1>5, <1>6, <1>9, <1>10, <1>11, <1>12, <1>13, <1>14, <1>15 DEF Next, TickStep

\* No due window of the rule in force is lost, however many ticker passes are killed,
\* overtaken or race each other, as long as requests are answered one at a time and
\* between passes and every schedule fans out to something.
THEOREM NoWindowIsLost ==
  ASSUME ~Overlapping, \A e, f \in Editors : e = f, {} \notin Fanouts
  PROVE  Spec => []NothingSkipped
<1>1. Init => CoverInv
  BY CoverHoldsInitially
<1>2. CoverInv /\ [Next]_vars => CoverInv'
  BY CoverKept
<1>3. CoverInv => NothingSkipped
  BY DEF CoverInv, CoveredBefore, CoveredFrom, Covered, NothingSkipped
<1> QED
  BY <1>1, <1>2, <1>3, PTL DEF Spec

-----------------------------------------------------------------------------
(* What was announced *)

\* The windows a row has consumed and those it still announces.
Promised(row) ==
  row.count + IF row.next = 0 THEN 0 ELSE Cardinality(Upcoming(row, row.next - 1))

\* The times at which a row's rule fires after `after' and before t.
Between(row, after, t) == {u \in Fires[row.rule] : after < u /\ u < t}

LEMMA BetweenGrows ==
  ASSUME NEW row \in Schedule, NEW after \in Nat, NEW t \in Nat
  PROVE  /\ Cardinality(Between(row, after, t)) \in Nat
         /\ \A u \in Fires[row.rule] : after < u /\ u < t =>
              Cardinality(Between(row, after, u)) < Cardinality(Between(row, after, t))
<1>1. Fires[row.rule] \subseteq Nat
  BY RulesFire DEF Schedule
<1>2. Between(row, after, t) \subseteq Nat /\ \A u \in Between(row, after, t) : u <= t
  BY <1>1 DEF Between
<1>3. IsFiniteSet(Between(row, after, t)) /\ Cardinality(Between(row, after, t)) \in Nat
  BY <1>2, BoundedIsFinite
<1>4. ASSUME NEW u \in Fires[row.rule], after < u, u < t
      PROVE  Cardinality(Between(row, after, u)) < Cardinality(Between(row, after, t))
  <2>1. Between(row, after, u) \subseteq Between(row, after, t)
    BY <1>1, <1>4 DEF Between
  <2>2. u \in Between(row, after, t) /\ u \notin Between(row, after, u)
    BY <1>1, <1>4 DEF Between
  <2> QED
    BY <1>3, <2>1, <2>2, PartIsSmaller
<1> QED
  BY <1>3, <1>4

\* A schedule announces finitely many windows: none after its end, or one for each
\* occurrence it has left.
LEMMA UpcomingIsFinite ==
  ASSUME NEW row \in Schedule, NEW after \in Nat, Ends(row)
  PROVE  IsFiniteSet(Upcoming(row, after)) /\ Cardinality(Upcoming(row, after)) \in Nat
<1> DEFINE U == Upcoming(row, after)
           n(t) == Cardinality(Between(row, after, t))
<1>1. Fires[row.rule] \subseteq Nat /\ row.end \in Nat /\ row.max \in Nat /\ row.count \in Nat
  BY RulesFire DEF Schedule
<1>2. U = {t \in Fires[row.rule] : after < t /\ ~Ended([row EXCEPT !.count = @ + n(t)], t)}
  BY DEF Upcoming, Between
<1>3. U \subseteq Nat /\ \A t \in U : t \in Fires[row.rule] /\ after < t
  BY <1>1, <1>2
<1>4. \A t \in U : /\ row.max # 0 => row.count + n(t) < row.max
                   /\ row.end # 0 => t <= row.end
  <2>1. \A t \in U : n(t) \in Nat
    BY <1>3, BetweenGrows
  <2> HIDE DEF U, n
  <2> QED
    BY <1>1, <1>2, <1>3, <2>1 DEF Ended, Schedule
<1>5. CASE row.end # 0
  BY <1>1, <1>3, <1>4, <1>5, BoundedIsFinite
<1>6. CASE row.max # 0
  <2> DEFINE f == [t \in U |-> n(t)]
  <2>1. \A t \in U : n(t) \in 0..row.max
    <3>1. \A t \in U : n(t) \in Nat
      BY <1>3, BetweenGrows
    <3> HIDE DEF U, n
    <3> QED
      BY <1>1, <1>4, <1>6, <3>1
  <2>2. \A t, u \in U : u < t => n(u) < n(t)
    BY <1>3, BetweenGrows
  <2>3. \A t \in U : n(t) \in Nat
    BY <1>3, BetweenGrows
  <2> HIDE DEF U, n
  <2>4. ASSUME NEW t \in U, NEW u \in U, n(t) = n(u)
        PROVE  t = u
    <3>1. t \in Nat /\ u \in Nat /\ n(t) \in Nat
      BY <1>3, <2>3
    <3>2. ~(n(t) < n(u)) /\ ~(n(u) < n(t))
      BY <2>4, <3>1
    <3>3. ~(t < u) /\ ~(u < t)
      BY <2>2, <3>2
    <3> QED
      BY <3>1, <3>3
  <2>5. f \in [U -> 0..row.max]
    BY <2>1
  <2>6. f \in Injection(U, 0..row.max)
    BY <2>4, <2>5 DEF Injection, IsInjective
  <2>7. IsFiniteSet(0..row.max)
    BY <1>1, FS_Interval
  <2>8. IsFiniteSet(U)
    BY <2>6, <2>7, FS_Injection
  <2> QED
    BY <2>8, FS_CardinalityType DEF U
<1> QED
  BY <1>5, <1>6 DEF Ends

\* A pass takes the windows it handles from those that were announced, and no others.
LEMMA PromiseKept ==
  ASSUME NEW row \in Schedule, NEW now \in 0..MaxClock, row.next <= now, row.next # 0,
         row.next \in Fires[row.rule], ~Ended(row, row.next), Ends(row)
  PROVE  Promised(Advanced(row, now)) = Promised(row)
<1> DEFINE W == Windows(row, now)
           last == Max(W)
           from == row.next - 1
           new == Advanced(row, now)
           U == Upcoming(row, from)
           n(t) == Cardinality(Between(row, from, t))
           Counted(t) == [row EXCEPT !.count = @ + n(t)]
<1>1. /\ row.next \in Nat /\ from \in Nat /\ Fires[row.rule] \subseteq Nat
      /\ row.count \in Nat /\ row.rule \in Rules
  BY RulesFire DEF Schedule
<1>2. /\ row.next \in W /\ last \in W
      /\ \A t \in W : row.next <= t /\ t <= last
      /\ \A t \in W : t \in Fires[row.rule]
      /\ \A t \in Fires[row.rule] : row.next <= t /\ t <= last => t \in W
      /\ IsFiniteSet(W) /\ Cardinality(W) \in Nat
  BY WindowsAreDue
<1>3. W \subseteq U
  <2>1. ASSUME NEW t \in W, t # row.next
        PROVE  t \in U
    <3>1. /\ t \in Fires[row.rule] /\ row.next < t /\ t \in Nat
          /\ ~Ended([row EXCEPT !.count = @ + 1 + Cardinality(Passed(row, t))], t)
      BY <1>1, <2>1 DEF Windows, Passed
    <3>2. Between(row, from, t) = Passed(row, t) \cup {row.next}
      BY <1>1, <3>1 DEF Between, Passed
    <3>3. IsFiniteSet(Passed(row, t)) /\ Cardinality(Passed(row, t)) \in Nat
      BY <3>1, PassedIsFinite
    <3>4. row.next \notin Passed(row, t)
      BY <1>1 DEF Passed
    <3>5. n(t) = Cardinality(Passed(row, t)) + 1
      BY <3>2, <3>3, <3>4, FS_AddElement
    <3>6. row.count + 1 + Cardinality(Passed(row, t)) = row.count + n(t)
      BY <1>1, <3>3, <3>5
    <3>7. from < t
      BY <1>1, <3>1
    <3> QED
      BY <3>1, <3>6, <3>7 DEF Upcoming, Between
  <2>2. row.next \in U
    <3>1. Between(row, from, row.next) = {}
      BY <1>1 DEF Between
    <3>2. n(row.next) = 0
      BY <3>1, FS_EmptySet
    <3>3. [row EXCEPT !.count = @ + n(row.next)] = row
      BY <1>1, <3>2 DEF Schedule
    <3>4. from < row.next
      BY <1>1
    <3> QED
      BY <3>3, <3>4 DEF Upcoming, Between
  <2> QED
    BY <2>1, <2>2
<1>4. /\ new \in Schedule /\ new.rule = row.rule /\ new.end = row.end /\ new.max = row.max
      /\ new.count = row.count + Cardinality(W)
      /\ new.next # 0 => /\ new.next \in Fires[row.rule] /\ new.next > last
                         /\ \A t \in Fires[row.rule] : t > last => new.next <= t
      /\ new.next = 0 => \A t \in Fires[row.rule] : t > last => Ended(new, t)
  BY AdvancedIs
<1>5. \A t \in U : t \in Fires[row.rule] /\ t \in Nat /\ row.next <= t
                   /\ ~Ended(Counted(t), t)
  BY <1>1 DEF Upcoming, Between
<1>6. last \in Nat
  BY <1>1, <1>2
<1> HIDE DEF new, W, U, last, Counted
<1>7. ASSUME new.next = 0
      PROVE  Promised(new) = Promised(row)
  <2>1. ASSUME NEW t \in U, t \notin W
        PROVE  FALSE
    <3>1. t \in Fires[row.rule] /\ t \in Nat /\ t > last
      BY <1>2, <1>5, <1>6, <2>1
    <3>2. Ended([new EXCEPT !.count = new.count], t)
      BY <1>4, <1>7, <3>1 DEF Schedule
    <3>3. W \subseteq Between(row, from, t)
      BY <1>1, <1>2, <1>6, <3>1 DEF Between
    <3>4. Between(row, from, t) \subseteq Nat /\ \A u \in Between(row, from, t) : u <= t
      BY <1>1, <3>1 DEF Between
    <3>5. IsFiniteSet(Between(row, from, t))
      BY <3>1, <3>4, BoundedIsFinite
    <3>6. n(t) \in Nat /\ Cardinality(W) <= n(t)
      BY <3>3, <3>5, PartIsSmaller
    <3> DEFINE m == row.count + n(t)
    <3>7. m \in Nat /\ new.count <= m /\ new.count \in Nat
      BY <1>1, <1>2, <1>4, <3>6
    <3> HIDE DEF m
    <3>8. Ended([new EXCEPT !.count = m], t)
      BY <1>4, <3>1, <3>2, <3>7, EndedIsForEver
    <3>9. Ended(Counted(t), t)
      BY <1>4, <3>8 DEF Ended, Schedule, m, Counted
    <3> QED
      BY <1>5, <2>1, <3>9
  <2>2. U = W
    BY <1>3, <2>1
  <2> QED
    BY <1>1, <1>2, <1>4, <1>7, <2>2 DEF Promised, U
<1>8. ASSUME new.next # 0
      PROVE  Promised(new) = Promised(row)
  <2> DEFINE then == new.next - 1
             V == Upcoming(new, then)
  <2>1. then \in Nat /\ new.next \in Nat /\ then < new.next
    BY <1>4, <1>8 DEF Schedule
  <2>2. \A t \in Fires[row.rule] : t > last <=> then < t
    <3>1. \A t \in Fires[row.rule] : t > last => new.next <= t
      BY <1>4, <1>8
    <3>2. new.next > last
      BY <1>4, <1>8
    <3> QED
      BY <1>1, <1>6, <2>1, <3>1, <3>2
  <2>3. ASSUME NEW t \in Fires[row.rule], t > last
        PROVE  t \in U <=> t \in V
    <3> DEFINE k == Cardinality(Between(new, then, t))
    <3>1. Between(row, from, t) = W \cup Between(new, then, t)
      <4>1. \A u \in Fires[row.rule] : u \in W <=> from < u /\ u <= last
        BY <1>1, <1>2, <1>6
      <4>2. \A u \in Between(row, from, t) : u \in W \/ u \in Between(new, then, t)
        BY <1>1, <1>4, <1>6, <2>2, <4>1 DEF Between
      <4>3. \A u \in W : u \in Between(row, from, t)
        BY <1>1, <1>2, <1>6, <2>3, <4>1 DEF Between
      <4>4. \A u \in Between(new, then, t) : u \in Between(row, from, t)
        BY <1>1, <1>2, <1>4, <1>6, <2>2 DEF Between
      <4> QED
        BY <4>2, <4>3, <4>4
    <3>2. W \cap Between(new, then, t) = {}
      BY <1>1, <1>2, <1>4, <1>6, <2>2 DEF Between
    <3>3. t \in Nat
      BY <1>1
    <3>4. Between(new, then, t) \subseteq Nat /\ \A u \in Between(new, then, t) : u <= t
      BY <1>1, <1>4, <3>3 DEF Between
    <3>5. IsFiniteSet(Between(new, then, t)) /\ k \in Nat
      BY <3>3, <3>4, BoundedIsFinite
    <3>6. n(t) = Cardinality(W) + k - Cardinality({})
      BY <1>2, <3>1, <3>2, <3>5, FS_Union
    <3>7. n(t) = Cardinality(W) + k
      BY <1>2, <3>5, <3>6, FS_EmptySet
    <3>8. row.count + n(t) = new.count + k
      BY <1>1, <1>2, <1>4, <3>5, <3>7
    <3>9. Ended(Counted(t), t) <=> Ended([new EXCEPT !.count = @ + k], t)
      BY <1>4, <3>8 DEF Ended, Schedule, Counted
    <3>10. from < t /\ then < t
      BY <1>1, <1>2, <1>6, <2>2, <2>3, <3>3
    <3>11. t \in U <=> ~Ended(Counted(t), t)
      BY <2>3, <3>10 DEF U, Upcoming, Between, Counted
    <3>12. t \in V <=> ~Ended([new EXCEPT !.count = @ + k], t)
      BY <1>4, <2>3, <3>10 DEF Upcoming, Between
    <3> QED
      BY <3>9, <3>11, <3>12
  <2>4. V \subseteq Fires[row.rule] /\ \A t \in V : then < t
    BY <1>4 DEF Upcoming
  <2> HIDE DEF V
  <2>5. U = W \cup V
    <3>1. \A t \in U : t \in W \/ t \in V
      BY <1>2, <1>5, <1>6, <2>3
    <3>2. \A t \in V : t \in U
      BY <2>2, <2>3, <2>4
    <3> QED
      BY <1>3, <3>1, <3>2
  <2>6. W \cap V = {}
    BY <1>1, <1>2, <1>6, <2>2, <2>4
  <2>7. IsFiniteSet(U)
    BY <1>1, UpcomingIsFinite DEF U
  <2>8. IsFiniteSet(V) /\ Cardinality(V) \in Nat
    BY <2>5, <2>7, FS_Subset, FS_CardinalityType
  <2>9. Cardinality(U) = Cardinality(W) + Cardinality(V)
    BY <1>2, <2>5, <2>6, <2>8, FS_Union, FS_EmptySet
  <2> QED
    BY <1>1, <1>2, <1>4, <1>8, <2>8, <2>9 DEF Promised, U, V
<1> QED
  BY <1>7, <1>8 DEF new

\* A pass has read a row that promises what the row promises now, whatever another
\* ticker has made of it meanwhile.
PledgeInv ==
  /\ TurnInv
  /\ \A s \in present : Ends(sched[s])
  /\ \A w \in Workers : ticker[w].busy =>
       \A s \in ticker[w].due : Promised(ticker[w].old[s]) = Promised(sched[s])

LEMMA PledgeHoldsInitially == Init => PledgeInv
BY TurnHoldsInitially DEF Init, PledgeInv, Asleep

\* A commit writes rows that promise what the rows they replace did.
LEMMA CommitKeepsPromises ==
  ASSUME PledgeInv, NEW w \in Workers, TickCommit(w), NEW s \in present
  PROVE  Promised(sched'[s]) = Promised(sched[s]) /\ Ends(sched'[s])
<1> DEFINE p == ticker[w]
           old == p.old[s]
           new == p.new[s]
           row == Flush(sched[s], old, new)
<1>1. /\ TickerTypeInv /\ PassFits(p) /\ present \subseteq Schedules /\ Ends(sched[s])
      /\ p.busy /\ p.todo = {}
  BY DEF PledgeInv, TurnInv, TickerTypeInv, TypeOK, TickCommit
<1>2. /\ s \notin p.due => sched'[s] = sched[s]
      /\ s \in p.due => sched'[s] = row
  BY <1>1, CommitIs
<1>3. CASE s \in p.due
  <2>1. /\ old \in Schedule /\ old.next <= p.now /\ old.next # 0 /\ p.now \in 0..MaxClock
        /\ SameRule(row, sched[s]) /\ SameRule(old, sched[s])
        /\ row.next = new.next /\ row.count = new.count /\ new = Advanced(old, p.now)
    BY <1>1, <1>3, AdvancedAims
  <2>2. Aims(old, since[s]) /\ Promised(old) = Promised(sched[s])
    BY <1>1, <1>3 DEF PassFits, PledgeInv
  <2> HIDE DEF row, new, old
  <2>3. Ends(old) /\ Ends(row)
    BY <1>1, <2>1 DEF Ends, SameRule
  <2>4. old.next \in Fires[old.rule] /\ ~Ended(old, old.next)
    BY <2>2 DEF Aims
  <2>5. Promised(new) = Promised(old)
    BY <2>1, <2>3, <2>4, PromiseKept
  <2>6. new.rule = old.rule /\ new.end = old.end /\ new.max = old.max
    BY <2>1, AdvancedIs
  <2>7. Upcoming(row, row.next - 1) = Upcoming(new, new.next - 1)
    <3>1. \A k, t : Ended([row EXCEPT !.count = row.count + k], t)
                      <=> Ended([new EXCEPT !.count = new.count + k], t)
      <4>1. row \in Schedule /\ new \in Schedule
        BY <1>1, <1>3, <2>1, AdvancedAims DEF row, new, old
      <4> QED
        BY <2>1, <2>6, <4>1 DEF Ended, SameRule, Schedule
    <3>2. row.rule = new.rule /\ row.next = new.next
      BY <2>1, <2>6 DEF SameRule
    <3> QED
      BY <3>1, <3>2 DEF Upcoming
  <2>8. Promised(row) = Promised(new)
    BY <2>1, <2>7 DEF Promised
  <2> QED
    BY <1>2, <1>3, <2>2, <2>3, <2>5, <2>8
<1>4. CASE s \notin p.due
  BY <1>1, <1>2, <1>4
<1> QED
  BY <1>3, <1>4

LEMMA PledgeKept ==
  ASSUME PledgeInv, [Next]_vars, ~Overlapping, \A e, f \in Editors : e = f
  PROVE  PledgeInv'
<1>1. /\ TurnInv' /\ TurnInv /\ TickerTypeInv
      /\ ticker \in [Workers -> Pass] /\ sched \in [Schedules -> Schedule]
      /\ present \subseteq Schedules /\ RequestsFit
      /\ \A v \in Workers : PassFits(ticker[v])
      /\ NobodyEdits \/ NobodyTicks
  BY TurnKept DEF PledgeInv, TurnInv, TickerTypeInv, TypeOK
<1>2. /\ \A s \in present : Ends(sched[s])
      /\ \A v \in Workers : ticker[v].busy =>
           \A s \in ticker[v].due : Promised(ticker[v].old[s]) = Promised(sched[s])
  BY DEF PledgeInv
<1>3. ASSUME NEW w \in Workers, NEW p, ticker' = [ticker EXCEPT ![w] = p],
             p.busy => \A s \in p.due : Promised(p.old[s]) = Promised(sched[s]),
             UNCHANGED <<present, sched>>
      PROVE  PledgeInv'
  <2>1. \A v \in Workers : ticker'[v].busy =>
          \A s \in ticker'[v].due : Promised(ticker'[v].old[s]) = Promised(sched'[s])
    BY <1>1, <1>2, <1>3
  <2> QED
    BY <1>1, <1>2, <1>3, <2>1 DEF PledgeInv
<1>4. ASSUME NEW w \in Workers, TickRead(w)
      PROVE  PledgeInv'
  <2>1. PICK p \in Pass : /\ ticker' = [ticker EXCEPT ![w] = p]
                          /\ \A s \in p.due : p.old[s] = sched[s]
    BY <1>1, <1>4, ReadIs
  <2>2. UNCHANGED <<present, sched>>
    BY <1>4 DEF TickRead
  <2> QED
    BY <1>3, <2>1, <2>2
<1>5. ASSUME NEW w \in Workers, NEW s \in Schedules, TickSchedule(w, s)
      PROVE  PledgeInv'
  <2>1. PICK fanout \in Fanouts, q \in Pass :
          ticker' = [ticker EXCEPT ![w] = q] /\ Handles(ticker[w], s, fanout, q)
    BY <1>1, <1>5, EnqueuedIs
  <2>2. q.busy = ticker[w].busy /\ q.old = ticker[w].old /\ q.due = ticker[w].due
    BY <2>1 DEF Handles
  <2>3. UNCHANGED <<present, sched>>
    BY <1>5 DEF TickSchedule
  <2> QED
    BY <1>2, <1>3, <2>1, <2>2, <2>3
<1>6. ASSUME NEW w \in Workers, TickAborts(w) \/ Kill(w)
      PROVE  PledgeInv'
  <2>1. ticker' = [ticker EXCEPT ![w] = Asleep] /\ UNCHANGED <<present, sched>>
    BY <1>6 DEF TickAborts, Kill
  <2>2. ~Asleep.busy
    BY DEF Asleep
  <2> QED
    BY <1>3, <2>1, <2>2
<1>7. ASSUME NEW w \in Workers, TickCommit(w)
      PROVE  PledgeInv'
  <2>1. ticker' = [ticker EXCEPT ![w] = Asleep] /\ present' = present
    BY <1>7 DEF TickCommit
  <2>2. \A s \in present : Promised(sched'[s]) = Promised(sched[s]) /\ Ends(sched'[s])
    BY <1>7, CommitKeepsPromises
  <2>3. ASSUME NEW v \in Workers, ticker'[v].busy, NEW s \in ticker'[v].due
        PROVE  Promised(ticker'[v].old[s]) = Promised(sched'[s])
    <3>1. ticker'[v] = ticker[v] /\ ticker[v].busy
      BY <1>1, <2>1, <2>3 DEF Asleep
    <3>2. s \in present
      BY <1>1, <2>3, <3>1 DEF PassFits
    <3> QED
      BY <1>2, <2>2, <2>3, <3>1, <3>2
  <2> QED
    BY <1>1, <2>1, <2>2, <2>3 DEF PledgeInv
<1>8. ASSUME NobodyTicks, ticker' = ticker, \A s \in present' : Ends(sched'[s])
      PROVE  PledgeInv'
  BY <1>1, <1>8 DEF PledgeInv, NobodyTicks
<1>9. ASSUME NEW e \in Editors, SaveStep(e)
      PROVE  PledgeInv'
  <2>1. /\ editor[e].busy /\ present' = present /\ ticker' = ticker
        /\ \/ UNCHANGED <<sched, since>>
           \/ \E new \in Schedule : Save(e, new) /\ (Ends(editor[e].old) => Ends(new))
    BY <1>1, <1>9, SaveStepIs
  <2>2. NobodyTicks
    BY <1>1, <2>1 DEF NobodyEdits
  <2>3. ASSUME NEW new \in Schedule, Save(e, new), Ends(editor[e].old) => Ends(new)
        PROVE  \A s \in present : Ends(sched'[s])
    <3> DEFINE s == editor[e].on
    <3>1. CASE s \notin present
      BY <1>2, <2>3, <3>1 DEF Save
    <3>2. CASE s \in present
      <4>1. editor[e].old = sched[s] /\ sched[s] \in Schedule
        BY <1>1, <2>1, <3>2 DEF RequestsFit
      <4> DEFINE row == Flush(sched[s], sched[s], new)
      <4>2. sched' = [sched EXCEPT ![s] = row]
        BY <2>3, <3>2, <4>1 DEF Save
      <4>3. row.end = new.end /\ row.max = new.max
        BY <2>3, <4>1, FlushIs
      <4> HIDE DEF row
      <4>4. Ends(row)
        BY <1>2, <2>3, <3>2, <4>1, <4>3 DEF Ends
      <4> QED
        BY <1>1, <1>2, <4>2, <4>4
    <3> QED
      BY <3>1, <3>2
  <2> QED
    BY <1>2, <1>8, <2>1, <2>2, <2>3
<1>10. ASSUME NEW s \in Schedules, NEW rule \in Rules, NEW limit \in Limits, Create(s, rule, limit)
       PROVE  PledgeInv'
  <2>1. PICK row \in Schedule : sched' = [sched EXCEPT ![s] = row] /\ Ends(row)
    BY <1>1, <1>10, CreateIs
  <2>2. NobodyTicks /\ present' = present \cup {s} /\ ticker' = ticker
    BY <1>10 DEF Create
  <2>3. \A x \in present' : Ends(sched'[x])
    BY <1>1, <1>2, <2>1, <2>2
  <2> QED
    BY <1>8, <2>2, <2>3
<1>11. ASSUME NEW s \in Schedules, Delete(s)
       PROVE  PledgeInv'
  <2>1. /\ NobodyTicks /\ present' = present \ {s} /\ ticker' = ticker
        /\ sched' = [sched EXCEPT ![s] = NoRow]
    BY <1>11 DEF Delete
  <2>2. \A x \in present' : Ends(sched'[x])
    BY <1>1, <1>2, <2>1
  <2> QED
    BY <1>8, <2>1, <2>2
<1>12. ASSUME UNCHANGED <<present, sched, ticker>>
       PROVE  PledgeInv'
  BY <1>1, <1>2, <1>12 DEF PledgeInv
<1> QED
  BY <1>4, <1>5, <1>6, <1>7, <1>9, <1>10, <1>11, <1>12
     DEF Next, TickStep, Open, Execute, Defer, Tick, vars

\* Only the request that edits a schedule changes what it promises.
LEMMA PromisesHold ==
  ASSUME PledgeInv, [Next]_vars
  PROVE  \A s \in present \cap present' :
           \/ Announced(s)' = Announced(s)
           \/ \E e \in Editors : editor[e].busy /\ ~editor'[e].busy /\ editor[e].on = s
<1>1. /\ TickerTypeInv /\ sched \in [Schedules -> Schedule] /\ present \subseteq Schedules
      /\ editor \in [Editors -> Request]
  BY DEF PledgeInv, TurnInv, TickerTypeInv, TypeOK
<1>2. ASSUME NEW s, Promised(sched'[s]) = Promised(sched[s])
      PROVE  Announced(s)' = Announced(s)
  BY <1>2 DEF Announced, Promised
<1>3. ASSUME NEW s, sched'[s] = sched[s]
      PROVE  Announced(s)' = Announced(s)
  BY <1>2, <1>3
<1>4. ASSUME NEW w \in Workers, TickCommit(w), NEW s \in present
      PROVE  Announced(s)' = Announced(s)
  BY <1>2, <1>4, CommitKeepsPromises
<1>5. ASSUME NEW e \in Editors, SaveStep(e), NEW s \in present
      PROVE  \/ Announced(s)' = Announced(s)
             \/ editor[e].busy /\ ~editor'[e].busy /\ editor[e].on = s
  <2>1. /\ editor[e].busy /\ editor' = [editor EXCEPT ![e] = NoRequest]
        /\ sched' = sched \/ \E new \in Schedule : Save(e, new)
    BY <1>1, <1>5, SaveStepIs
  <2>2. ~editor'[e].busy
    BY <1>1, <2>1 DEF NoRequest
  <2>3. editor[e].on # s => sched'[s] = sched[s]
    BY <1>1, <1>5, <2>1 DEF Save
  <2> QED
    BY <1>3, <2>1, <2>2, <2>3
<1>6. ASSUME NEW x \in Schedules, NEW rule \in Rules, NEW limit \in Limits, Create(x, rule, limit),
             NEW s \in present
      PROVE  Announced(s)' = Announced(s)
  <2>1. x # s /\ \E row : sched' = [sched EXCEPT ![x] = row]
    BY <1>1, <1>6, CreateIs DEF Create
  <2> QED
    BY <1>1, <1>3, <2>1
<1>7. ASSUME NEW x \in Schedules, Delete(x), NEW s \in present \cap present'
      PROVE  Announced(s)' = Announced(s)
  <2>1. x # s /\ sched' = [sched EXCEPT ![x] = NoRow]
    BY <1>7 DEF Delete
  <2> QED
    BY <1>1, <1>3, <1>7, <2>1
<1>8. ASSUME sched' = sched, NEW s
      PROVE  Announced(s)' = Announced(s)
  BY <1>3, <1>8
<1> QED
  BY <1>4, <1>5, <1>6, <1>7, <1>8
     DEF Next, TickStep, TickRead, TickSchedule, TickAborts, Kill, Open, Execute, Defer, Tick, vars

\* What a schedule's form announced comes true: the windows it has consumed and those it
\* still announces add up to the same number until it is edited, whichever were late, did
\* not fit or met a second ticker or a killed pass, as long as requests are answered one
\* at a time and between passes.
THEOREM FormsTellTheTruth ==
  ASSUME ~Overlapping, \A e, f \in Editors : e = f
  PROVE  Spec => AnnouncementsAreKept
<1>1. Init => PledgeInv
  BY PledgeHoldsInitially
<1>2. PledgeInv /\ [Next]_vars => PledgeInv'
  BY PledgeKept
<1>3. PledgeInv /\ [Next]_vars =>
        [\A s \in present \cap present' :
           \/ Announced(s)' = Announced(s)
           \/ \E e \in Editors : editor[e].busy /\ ~editor'[e].busy /\ editor[e].on = s]_vars
  BY PromisesHold
<1> QED
  BY <1>1, <1>2, <1>3, PTL DEF Spec, AnnouncementsAreKept
=============================================================================

------------------------------- MODULE Calendar -------------------------------
(***************************************************************************)
(* The date windows of both dashboards and the axes of their charts:       *)
(* app/services/date_ranges.py and previous_range_bounds.  A tick is the   *)
(* smallest step of a timestamp; days start at its multiples of Day, weeks *)
(* at those of a week, and every month has thirty days.                    *)
(***************************************************************************)
EXTENDS Integers, FiniteSets, FiniteSetsExt

CONSTANTS
  Day,   \* ticks per day
  Null   \* None, NULL

DayRange == {"7d", "30d", "90d"}
DashboardRange == DayRange \cup {"quarter", "all"}

Days(range) == CASE range = "7d" -> 7 [] range = "30d" -> 30 [] range = "90d" -> 90

Ticks(unit) ==
  CASE unit = "day" -> Day [] unit = "week" -> 7 * Day
    [] unit = "month" -> 30 * Day [] unit = "quarter" -> 90 * Day

Bucket(t, unit) == t \div Ticks(unit)

\* range_bounds; <<Null, Null>> is "all time".
RangeBounds(range, now) ==
  CASE range = "all" -> <<Null, Null>>
    [] range = "quarter" -> <<Bucket(now, "quarter") * Ticks("quarter"), now>>
    [] range \in DayRange -> <<now - Days(range) * Day, now>>

Within(t, bounds) ==
  /\ bounds[1] = Null \/ t >= bounds[1]
  /\ bounds[2] = Null \/ t <= bounds[2]

\* previous_range_bounds: both ends of a window belong to it.
PreviousBounds(bounds) ==
  IF Null \in {bounds[1], bounds[2]} THEN Null
  ELSE <<bounds[1] - (bounds[2] - bounds[1]), bounds[1] - 1>>

\* Mutant: buckets are counted from the first instant, not from where its bucket starts.
Starts_Unaligned(from, to, unit) == {Bucket(from, unit) + n : n \in 0..((to - from) \div Ticks(unit))}

\* day_starts, week_starts and month_starts: the bucket of every instant from `from' to `to'.
Starts(from, to, unit) == Bucket(from, unit)..Bucket(to, unit)

\* resolve_daily_bounds and resolve_week_range: an open side ends at the first or last run.
Axis(times, bounds, unit) ==
  IF Null \in {bounds[1], bounds[2]} /\ times = {} THEN {}
  ELSE Starts(IF bounds[1] = Null THEN Min(times) ELSE bounds[1],
              IF bounds[2] = Null THEN Max(times) ELSE bounds[2], unit)

\* daily_granularity
Granularity(range) ==
  CASE range \in {"7d", "30d"} -> "day"
    [] range \in {"90d", "quarter"} -> "week"
    [] OTHER -> "month"
=============================================================================

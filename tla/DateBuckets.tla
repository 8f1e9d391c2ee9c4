----------------------------- MODULE DateBuckets -----------------------------
(***************************************************************************)
(* Grouping by periods of time: the label an aggregation gives a date      *)
(* (actions/aggregate-ir/dateBucket.ts), on the server's calendar.  An     *)
(* instant is a number of minutes since Saturday, 1 January 2000, in UTC;  *)
(* a label is the numbers its text is written with.                        *)
(***************************************************************************)
EXTENDS Integers, FiniteSets, Sequences

-----------------------------------------------------------------------------
(* The server's calendar                                                    *)

Years == 2000 .. 2030
IsLeap(y) == y % 4 = 0
DaysBefore == <<0, 31, 59, 90, 120, 151, 181, 212, 243, 273, 304, 334>>
FirstOfYear(y) == 365 * (y - 2000) + ((y - 1997) \div 4)
FirstOfMonth(y, m) == FirstOfYear(y) + DaysBefore[m] + (IF IsLeap(y) /\ m > 2 THEN 1 ELSE 0)

DayOf(t)   == t \div 1440
YearOf(day)  == CHOOSE y \in Years : FirstOfYear(y) <= day /\ day < FirstOfYear(y + 1)
MonthOf(day) == LET started == {m \in 1 .. 12 : FirstOfMonth(YearOf(day), m) <= day}
                IN Cardinality(started)

\* The week of ISO 8601 is in the year its Thursday is in.
Thursday(day) == day - ((day + 5) % 7) + 3

\* A zone is a difference to UTC, and another one from one instant to another.
Local(zone, t) == t + (IF zone.from <= t /\ t < zone.until THEN zone.summer ELSE zone.offset)

\* $dateToString, by the unit of its format.
ToLabel(unit, t) ==
  LET day == DayOf(t)
      y   == YearOf(day)
      m   == MonthOf(day)
      dated == <<y, m, day - FirstOfMonth(y, m) + 1>>
  IN CASE unit = "minute"  -> dated \o <<(t % 1440) \div 60, t % 60>>
       [] unit = "hour"    -> dated \o <<(t % 1440) \div 60>>
       [] unit = "day"     -> dated
       [] unit = "week"    -> LET th == Thursday(day)
                              IN <<YearOf(th), ((th - FirstOfYear(YearOf(th))) \div 7) + 1>>
       [] unit = "month"   -> <<y, m>>
       [] unit = "year"    -> <<y>>

\* $dateTrunc of a local time.  Bins are counted from the start of 2000, those of
\* weeks from the Sunday after it.
DateTrunc(unit, every, t) ==
  LET size == [minute |-> 1, hour |-> 60, day |-> 1440, week |-> 10080]
      months == 12 * (YearOf(DayOf(t)) - 2000) + MonthOf(DayOf(t)) - 1
      bin    == months - (months % every)
  IN CASE unit = "month" -> 1440 * FirstOfMonth(2000 + (bin \div 12), (bin % 12) + 1)
       [] unit = "week"  -> t - ((t - 1440) % (every * size["week"]))
       [] OTHER          -> t - (t % (every * size[unit]))

-----------------------------------------------------------------------------
(* compileDateBucket                                                        *)

Units == {"minute", "hour", "day", "week", "month"}

\* A bin has a size; a named period has none.  A zone nobody knows is refused.
BucketRefused(bucket) == \/ ~bucket.zone.valid
                         \/ bucket.custom /\ bucket.every < 1

\* formatForUnit.
FormatForUnit(unit) == IF unit \in Units THEN unit ELSE "year"

CompileDateBucket(bucket, t) ==
  LET local == Local(bucket.zone, t)
      month == MonthOf(DayOf(local))
  IN CASE bucket.custom -> ToLabel(FormatForUnit(bucket.unit), DateTrunc(bucket.unit, bucket.every, local))
       [] ~bucket.custom /\ bucket.unit = "quarter" -> ToLabel("year", local) \o <<(month + 2) \div 3>>
       [] OTHER -> ToLabel(bucket.unit, local)
=============================================================================

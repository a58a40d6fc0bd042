------------------------------- MODULE Calendar -------------------------------
(* Instants, local days and reporting periods. An instant is a number of half    *)
(* hours since 1970 in UTC, so that every zone's offset is whole; a zone has one  *)
(* offset before an instant and another from it on.                               *)
EXTENDS Integers

Day == 48

\* Days since 1970 of a civil date, and back, for 1901 to 2099: years are counted from March 2000,
\* so that a leap day is the last of its year. A day past the end of its month runs into the next one.
March2000 == 11017
DayNumber(date) ==
  LET y == date.year - 2000 - (IF date.month <= 2 THEN 1 ELSE 0)
      m == (date.month + 9) % 12
  IN March2000 + 365 * y + (y \div 4) + ((153 * m + 2) \div 5) + date.day - 1

CivilIn(n, y, d) ==
  LET m == (5 * d + 2) \div 153 IN
  [ year |-> y + (m \div 10), month |-> ((m + 2) % 12) + 1, day |-> d - ((153 * m + 2) \div 5) + 1,
    isoWeekday |-> ((n + 3) % 7) + 1 ]    \* Monday is 1

Civil(n) ==
  LET z == n - March2000
      r == z % 1461
      y == (r - (r \div 1460)) \div 365
  IN CivilIn(n, 2000 + 4 * (z \div 1461) + y, r - 365 * y)

\* The first of a month; a month past either end is in the year before or after.
FirstOf(y, m) ==
  [year |-> IF m < 1 THEN y - 1 ELSE IF m > 12 THEN y + 1 ELSE y, month |-> ((m + 11) % 12) + 1, day |-> 1]

DaysInMonth(y, m) == Civil(DayNumber(FirstOf(y, m + 1)) - 1).day

OffsetAt(zone, t) == IF t < zone.at THEN zone.before ELSE zone.after
LocalDay(t, zone) == (t + OffsetAt(zone, t)) \div Day

-----------------------------------------------------------------------------
\* getZonedParts.
ZonedParts(t, zone) == Civil(LocalDay(t, zone))

\* Seeded fault: the midnight of UTC.
UtcMidnight(date, zone) == DayNumber(date) * Day

\* zonedMidnightToUtc takes the offset of the zone at the midnight of UTC.
ZonedMidnightToUtc(date, zone) == LET guess == DayNumber(date) * Day IN guess - OffsetAt(zone, guess)

AddDays(date, n) == Civil(DayNumber(date) + n)

\* Seeded fault: a week starts the day before Monday.
MondayOrSunday(parts) == AddDays(parts, -parts.isoWeekday)

WeekStart(parts) == AddDays(parts, -(parts.isoWeekday - 1))

Periods == {"week", "month", "quarter"}

\* The local dates a period starts, ends, and its predecessor starts.
WeekDates(start) == [start |-> start, end |-> AddDays(start, 7), before |-> AddDays(start, -7)]

PeriodDates(period, parts) ==
  LET quarter == (((parts.month - 1) \div 3) * 3) + 1
      month == FirstOf(parts.year, parts.month)
  IN CASE period = "month" ->
            [ start |-> month, end |-> AddDays(month, DaysInMonth(parts.year, parts.month)),
              before |-> FirstOf(parts.year, parts.month - 1) ]
       [] period = "quarter" ->
            [ start |-> FirstOf(parts.year, quarter), end |-> FirstOf(parts.year, quarter + 3),
              before |-> FirstOf(parts.year, quarter - 3) ]
       [] period = "week" -> WeekDates(WeekStart(parts))

BoundsOf(dates, zone) ==
  [ currentStart  |-> ZonedMidnightToUtc(dates.start, zone),
    currentEnd    |-> ZonedMidnightToUtc(dates.end, zone),
    previousStart |-> ZonedMidnightToUtc(dates.before, zone),
    previousEnd   |-> ZonedMidnightToUtc(dates.start, zone) ]
PeriodBounds(period, zone, now) == BoundsOf(PeriodDates(period, ZonedParts(now, zone)), zone)

\* Which bar of the chart a local day falls in: a weekday, or a week counted from the first day.
BucketKey(period, parts, start) ==
  IF period = "week" THEN parts.isoWeekday
  ELSE ((DayNumber(parts) - DayNumber(start)) \div 7) + 1

\* mondayUtc.
MondayUtc(t) == ((t \div Day) - (((t \div Day) + 3) % 7)) * Day

-----------------------------------------------------------------------------
\* nextOccurrence on a server in UTC. In setMonth a day the month lacks runs into the month after.
MonthAfter(c) == DayNumber(FirstOf(c.year, c.month + 1)) + c.day - 1
NextOccurrence(t, frequency) ==
  CASE frequency = "daily" -> t + Day
    [] frequency = "weekly" -> t + 7 * Day
    [] frequency = "monthly" -> MonthAfter(Civil(t \div Day)) * Day + (t % Day)

-----------------------------------------------------------------------------
\* The first instant of a local day, where no switch takes it away.
MidnightOf(n, zone) ==
  IF n * Day - zone.before < zone.at THEN n * Day - zone.before ELSE n * Day - zone.after

\* The clocks are not changed over a local midnight, which would be skipped or come twice, and the zone has the same offset
\* at the midnight of UTC as then: zonedMidnightToUtc reads the one for the other.
OneOffset(n, zone) ==
  /\ OffsetAt(zone, n * Day) = OffsetAt(zone, MidnightOf(n, zone))
  /\ ~(zone.at + zone.before < n * Day /\ n * Day < zone.at + zone.after)
  /\ ~(zone.at + zone.after < n * Day /\ n * Day < zone.at + zone.before)
=============================================================================

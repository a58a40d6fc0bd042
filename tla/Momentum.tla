------------------------------- MODULE Momentum -------------------------------
(* The numbers people are shown about their work: Momentum, the digest of the day, *)
(* the client's status page and the owner's overview of clients, over the tasks of  *)
(* one workspace that are created, imported, moved and redated as the clock goes on. *)
EXTENDS Calendar, FiniteSets, Sequences

CONSTANTS
  Users,      \* the owner and the members, who reach all its tasks
  TaskIds,
  UTC,        \* the zone of UTC
  Views,      \* [zone, moments]: where people look from, and the instants the clock stops at
  DueIn,      \* how many days from the day in UTC a due date may be
  DoneIn,     \* and a date of completion in an imported file
  Every,      \* frequencies a task may recur with, or None
  MaxCalls,   \* bound on requests
  None

VARIABLES
  now, later,   \* the clock, and the moments to come
  zone,         \* User.timezone
  task,         \* task[t]: its row, or None
  calls,
  \* History:
  past          \* [at, task] for every moment gone by: the rows as it ended

vars == <<now, later, zone, task, calls, past>>

Frequencies == {"daily", "weekly", "monthly"}
Statuses == {"todo", "in_progress", "done"}
Task ==
  [ by : Users, status : Statuses, created : Int, completed : Int \cup {None}, due : Int \cup {None},
    every : Frequencies \cup {None} ]

\* Time goes on, and offsets are whole.
ASSUME MomentsAssumption ==
  \A view \in Views :
    /\ view.moments \in Seq(Int) \ {<< >>}
    /\ \A i, j \in 1 .. Len(view.moments) : i < j => view.moments[i] < view.moments[j]
    /\ view.zone \in [before : Int, at : Int, after : Int]
ASSUME EveryAssumption == Every \subseteq Frequencies \cup {None} /\ DueIn \subseteq Int /\ DoneIn \subseteq Int
ASSUME NoneAssumption == None \notin Int /\ None \notin Task
ASSUME UTCAssumption == UTC \in [before : {0}, at : Int, after : {0}]
ASSUME TasksAssumption == IsFiniteSet(TaskIds)

TypeOK ==
  /\ now \in Int /\ later \in Seq(Int) /\ zone \in [before : Int, at : Int, after : Int]
  /\ task \in [TaskIds -> Task \cup {None}]
  /\ calls \in Int
  /\ past \subseteq [at : Int, task : [TaskIds -> Task \cup {None}]]

Init ==
  /\ \E view \in Views : zone = view.zone /\ now = Head(view.moments) /\ later = Tail(view.moments)
  /\ task = [t \in TaskIds |-> None] /\ calls = 0 /\ past = {}

-----------------------------------------------------------------------------
Call == calls < MaxCalls /\ calls' = calls + 1 /\ UNCHANGED <<now, later, zone, past>>

\* withNormalizedDueDate: a date without a time is the midnight of UTC.
Dates(days) == {((now \div Day) + n) * Day : n \in days} \cup {None}

\* withCompletedAt: a task that is done keeps the time it was completed.
Moved(row, status) ==
  [row EXCEPT !.status = status,
              !.completed = IF status # "done" THEN None ELSE IF row.status = "done" THEN @ ELSE now]

Create(t, u, status, due, every) ==
  LET row == [by |-> u, status |-> "todo", created |-> now, completed |-> None, due |-> due, every |-> every] IN
  /\ task[t] = None /\ Call
  /\ task' = [task EXCEPT ![t] = Moved(row, status)]

\* A row of importMany that is done: completed when the file says, else when it was due, never after now.
ImportDone(t, u, completed, due) ==
  LET given == IF completed # None THEN completed ELSE due
      at == IF given # None /\ given > now THEN now ELSE given
  IN
  /\ task[t] = None /\ Call
  /\ task' = [task EXCEPT ![t] =
       [by |-> u, status |-> "done", created |-> now, completed |-> at, due |-> due, every |-> None]]

\* spawnNextOccurrence.
Again(row) ==
  [row EXCEPT !.status = "todo", !.completed = None, !.created = now,
              !.due = NextOccurrence(IF @ = None THEN now ELSE @, row.every)]

Move(t, status) ==
  /\ task[t] # None /\ Call
  /\ IF status = "done" /\ task[t].status # "done" /\ task[t].every # None
     THEN \E n \in TaskIds :
            /\ task[n] = None
            /\ task' = [task EXCEPT ![t] = Moved(@, status), ![n] = Again(task[t])]
     ELSE task' = [task EXCEPT ![t] = Moved(@, status)]

Redate(t, due) ==
  /\ task[t] # None /\ Call
  /\ task' = [task EXCEPT ![t].due = due]

Tick ==
  /\ later # << >>
  /\ now' = Head(later) /\ later' = Tail(later)
  /\ past' = past \cup {[at |-> now, task |-> task]}
  /\ UNCHANGED <<zone, task, calls>>

Next ==
  \/ \E t \in TaskIds, u \in Users, due \in Dates(DueIn) :
       \/ \E status \in Statuses, every \in Every : Create(t, u, status, due, every)
       \/ \E completed \in Dates(DoneIn) : ImportDone(t, u, completed, due)
  \/ \E t \in TaskIds, status \in Statuses : Move(t, status)
  \/ \E t \in TaskIds, due \in Dates(DueIn) : Redate(t, due)
  \/ Tick

Spec == Init /\ [][Next]_vars

-----------------------------------------------------------------------------
(* What the screens show. *)

Rows == {t \in TaskIds : task[t] # None}
Of(u) == {t \in Rows : task[t].by = u}
Open(S) == {t \in S : task[t].status # "done"}
Due(S, from, to) == {t \in S : task[t].due # None /\ from <= task[t].due /\ task[t].due < to}
DueBefore(S, to) == {t \in S : task[t].due # None /\ task[t].due < to}
ShippedSince(S, from) ==
  {t \in S : task[t].status = "done" /\ task[t].completed # None /\ from <= task[t].completed}
Shipped(S, from, to) == {t \in ShippedSince(S, from) : task[t].completed < to}

Soon == 2 * Day    \* AT_RISK_WINDOW_MS

\* getSnapshot.
Snapshot(u) ==
  [ inFlight |-> {t \in Of(u) : task[t].status = "in_progress"},
    atRisk   |-> Due(Open(Of(u)), now, now + Soon),
    overdue  |-> DueBefore(Open(Of(u)), now) ]

\* Seeded fault: what was completed since is taken as done then.
StillOpen(u, asOf) == {t \in Of(u) : task[t].completed = None}

NotDoneAsOf(u, asOf) == {t \in Of(u) : task[t].completed = None \/ task[t].completed > asOf}

\* getSnapshotAsOf.
SnapshotAsOf(u, asOf) ==
  [ atRisk |-> Due(NotDoneAsOf(u, asOf), asOf, asOf + Soon), overdue |-> DueBefore(NotDoneAsOf(u, asOf), asOf) ]

\* Seeded fault: the days left over from whole weeks have no bar.
WholeWeeks(period, bounds) ==
  IF period = "week" THEN 7 ELSE (bounds.currentEnd - bounds.currentStart) \div (7 * Day)

\* emptyBuckets: a bar for each day of a week, else for each week begun; a day is rounded to a whole one.
Bars(period, bounds) ==
  IF period = "week" THEN 7
  ELSE LET days == (bounds.currentEnd - bounds.currentStart + Day \div 2) \div Day IN (days + 6) \div 7

\* The tasks of each bar of the chart, of those completed in a period that starts on a local date.
Chart(done, bars, period, start) ==
  LET key == [t \in done |-> BucketKey(period, ZonedParts(task[t].completed, zone), start)] IN
  [bar \in 1 .. bars |-> {t \in done : key[t] = bar}]

\* summarizeCompleted: of the tasks with a due date, those completed by it.
OnTime(done) == {t \in done : task[t].due # None /\ task[t].completed <= task[t].due}

\* getMomentum.
MomentumIn(u, period, bounds) ==
  LET current == Shipped(Of(u), bounds.currentStart, bounds.currentEnd)
      previous == Shipped(Of(u), bounds.previousStart, bounds.currentStart)
      bars == Bars(period, bounds)
  IN [ bounds |-> bounds, shipped |-> current, shippedBefore |-> previous, onTime |-> OnTime(current),
       then |-> SnapshotAsOf(u, bounds.previousEnd),
       chart |-> Chart(current, bars, period, ZonedParts(bounds.currentStart, zone)),
       chartBefore |-> Chart(previous, bars, period, ZonedParts(bounds.previousStart, zone)) ]
MomentumOf(u, period) == MomentumIn(u, period, PeriodBounds(period, zone, now))

\* The controller: anything else is a week, and so are the longer ones without Pro.
PeriodShown(asked, isPro) ==
  IF asked \notin Periods \/ (asked \in {"month", "quarter"} /\ ~isPro) THEN "week" ELSE asked
ShownPeriods == {PeriodShown(asked, isPro) : asked \in Periods \cup {"year"}, isPro \in BOOLEAN}

ByStatus(u, status) == {t \in Open(Of(u)) : task[t].status = status}

\* pctDelta: no number for what was nothing before.
PctDelta(current, previous) ==
  IF previous = 0 THEN IF current = 0 THEN 0 ELSE None
  ELSE (200 * (current - previous) + previous) \div (2 * previous)
Rises(delta) == delta # None /\ delta > 0

\* buildInsights, what it says of due dates.
Insights(overdue, overdueBefore, atRisk) ==
  { IF overdue = 0 THEN "nothing overdue"
    ELSE IF Rises(PctDelta(overdue, overdueBefore)) THEN "overdue is up" ELSE "overdue",
    IF atRisk > 0 THEN "due soon" ELSE "nothing at risk" }
InsightsOf(u, period) ==
  Insights(Cardinality(Snapshot(u).overdue), Cardinality(MomentumOf(u, period).then.overdue),
           Cardinality(Snapshot(u).atRisk))

\* getDailyDigest.
DigestOf(u, start, end) ==
  LET overdue == DueBefore(Open(Of(u)), start)
      dueToday == Due(Open(Of(u)), start, end)
  IN [overdue |-> overdue, dueToday |-> dueToday, caughtUp |-> overdue = {} /\ dueToday = {}]
Digest(u) ==
  LET today == ZonedParts(now, zone) IN
  DigestOf(u, ZonedMidnightToUtc(today, zone), ZonedMidnightToUtc(AddDays(today, 1), zone))

\* weeklyThroughput: the last eight weeks of UTC, the last one so far.
ThroughputWeeks == 8
Throughput ==
  LET first == MondayUtc(now) - (ThroughputWeeks - 1) * 7 * Day IN
  [i \in 1 .. ThroughputWeeks |->
     {t \in ShippedSince(Rows, first) : MondayUtc(task[t].completed) = first + (i - 1) * 7 * Day}]

\* getStatusByToken, what it counts.
StatusPage ==
  [ todo |-> {t \in Rows : task[t].status = "todo"},
    in_progress |-> {t \in Rows : task[t].status = "in_progress"},
    done |-> {t \in Rows : task[t].status = "done"},
    recent |-> ShippedSince(Rows, now - 7 * Day),
    throughput |-> Throughput ]

\* overview, what it counts of this client, and what of it asks for attention.
Overview ==
  [ open |-> Open(Rows), overdue |-> DueBefore(Open(Rows), now),
    shippedThisWeek |-> ShippedSince(Rows, now - 7 * Day),
    attention |-> IF DueBefore(Open(Rows), now) = {} THEN {} ELSE {"overdue"} ]

\* collect, for the weekly email and the note the owner may send.
Collected ==
  [ shipped |-> ShippedSince(Rows, now - 7 * Day), inProgress |-> {t \in Rows : task[t].status = "in_progress"},
    upcoming |-> {t \in Due(Rows, now, now + 14 * Day + 1) : task[t].status = "todo"} ]
NothingToSend == Collected.shipped = {} /\ Collected.inProgress = {}

-----------------------------------------------------------------------------
(* What must hold. *)

InBars(chart) == UNION {chart[bar] : bar \in DOMAIN chart}
AddsUp(m, period) ==
  LET before == m.bounds.previousEnd - m.bounds.previousStart IN
  /\ InBars(m.chart) = m.shipped
  /\ InBars(m.chartBefore) = m.shippedBefore \/ before > 7 * Day * Bars(period, m.bounds)

\* The bars of the chart add up to the tasks shipped, also where the clocks change within the period (momentum.service.js
\* 25-30, 208-219); those of the period before only lose the days it has beyond the weeks of this one. So it is in every zone
\* whose clocks are not changed about the midnight a month or quarter is cut at (timezone.util.js 7-12).
ChartAddsUp ==
  \A period \in ShownPeriods :
    LET bounds == PeriodBounds(period, zone, now) IN
    \A u \in Users : AddsUp(MomentumIn(u, period, bounds), period)

SameWeeks(recent, thisWeek, lastWeek) ==
  /\ thisWeek \subseteq recent /\ recent \subseteq thisWeek \cup lastWeek
  /\ zone = UTC =>
       /\ thisWeek = UNION {MomentumOf(u, "week").shipped : u \in Users}
       /\ lastWeek = UNION {MomentumOf(u, "week").shippedBefore : u \in Users}

\* The owner's overview, the client's page, the weekly email and the Momentum of each member tell of the same work: what is open,
\* overdue and in progress, and in UTC what was shipped this week, which is part of the last seven days, as those are of this week and the
\* one before. A client is flagged overdue exactly if some member is not told that nothing is (clientOverview.service.js 38-66,
\* workspace.service.js 842-856 and 917-939, statusDigest.service.js 40-53, momentum.service.js 35-50, 74-79 and 105-150).
SameNumbersEverywhere ==
  /\ Overview.open = StatusPage.todo \cup StatusPage.in_progress
  /\ Overview.overdue = UNION {Snapshot(u).overdue : u \in Users}
  /\ StatusPage.todo = UNION {ByStatus(u, "todo") : u \in Users}
  /\ StatusPage.in_progress = UNION {Snapshot(u).inFlight : u \in Users}
  /\ Overview.shippedThisWeek = StatusPage.recent
  /\ SameWeeks(StatusPage.recent, StatusPage.throughput[ThroughputWeeks], StatusPage.throughput[ThroughputWeeks - 1])
  /\ "overdue" \notin Overview.attention <=> \A u \in Users : "nothing overdue" \in InsightsOf(u, "week")
  /\ NothingToSend => Open(Rows) = StatusPage.todo /\ StatusPage.throughput[ThroughputWeeks] = {}
  /\ Collected.upcoming \cap Overview.overdue = {}
  /\ \A u \in Users : Snapshot(u).atRisk \subseteq Collected.upcoming \cup Collected.inProgress

\* The rows as they were at an instant: at the end of the last moment not after it, which may be the one that lasts.
Before(asOf) == {p \in past : p.at <= asOf}
RowsAt(asOf) ==
  IF now <= asOf THEN task
  ELSE IF Before(asOf) = {} THEN [t \in TaskIds |-> None]
  ELSE (CHOOSE p \in Before(asOf) : \A q \in Before(asOf) : q.at <= p.at).task

\* A task that was done at an instant has been opened again since.
OpenedAgain(t, rows) == rows[t].status = "done" /\ task[t].completed # rows[t].completed

WasSo(u, m, asOf, rows) ==
  LET kept == {t \in Of(u) : /\ rows[t] # None
                             /\ rows[t].due = task[t].due
                             /\ rows[t].status = "done" => rows[t].completed # None}
      open == {t \in kept : rows[t].status # "done" \/ OpenedAgain(t, rows)}
  IN /\ m.then.overdue \cap kept = DueBefore(open, asOf)
     /\ m.then.atRisk \cap kept = Due(open, asOf, asOf + Soon)
     /\ {t \in DueBefore(open, asOf) : rows[t].status # "done"} \cap m.onTime = {}

\* The tiles of the period before show what was overdue and at risk when it ended: of the tasks there were and whose date has not been
\* changed, those that were open, and those opened again since (momentum.service.js 52-58, which calls that an approximation). What was
\* overdue then is not on time once it is shipped (81-90). A task imported as done with no date is left out (task.service.js 226-229).
PreviousIsWhatItWas ==
  \A period \in Periods :
    LET bounds == PeriodBounds(period, zone, now)
        rows   == RowsAt(bounds.previousEnd)
    IN \A u \in Users : WasSo(u, MomentumIn(u, period, bounds), bounds.previousEnd, rows)

Agree(digest, snapshot) ==
  /\ digest.overdue \subseteq snapshot.overdue
  /\ snapshot.overdue \subseteq digest.overdue \cup digest.dueToday
  /\ digest.dueToday \subseteq snapshot.overdue \cup snapshot.atRisk
  /\ digest.caughtUp => snapshot.overdue = {}

\* The digest of the day and Momentum agree: what the digest calls overdue is overdue, what is overdue is so in the digest or due
\* today, and what is due today is overdue or at risk; but for days whose midnight has another offset than that of UTC
\* (digest.service.js 14-35, timezone.util.js 7-12 and 47-53).
DigestMatchesMomentum ==
  \A u \in Users :
    LET today == LocalDay(now, zone) IN
    OneOffset(today, zone) /\ OneOffset(today + 1, zone) => Agree(Digest(u), Snapshot(u))
=============================================================================

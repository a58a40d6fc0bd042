---------------------------- MODULE MomentumProofs ----------------------------
(* What people are shown of their work is right and the same everywhere, for any  *)
(* people, zones, clocks and tasks.                                               *)
EXTENDS Momentum, FiniteSetTheorems, TLAPS

\* The moments to come are later than now, and follow each other.
Ahead ==
  /\ \A i \in 1 .. Len(later) : now < later[i]
  /\ \A i, j \in 1 .. Len(later) : i < j => later[i] < later[j]

\* An open row has no date of completion, and no row one that is to come.
Dated(row, at) ==
  /\ row.status # "done" => row.completed = None
  /\ row.completed # None => row.completed <= at

AMoment(t) == t = now \/ \E q \in past : q.at = t

\* What has become of a row by now: it has kept its date of completion, or has none,
\* or was completed at a moment that came after.
Since(then, at, row) ==
  /\ row # None
  /\ \/ row.completed = None
     \/ row.completed > at /\ AMoment(row.completed)
     \/ then.status = "done" /\ row.completed = then.completed

\* Of the moments gone by until an instant, one is the last.
HasLast(asOf) == Before(asOf) # {} => \E p \in Before(asOf) : \A q \in Before(asOf) : q.at <= p.at

PastInv ==
  /\ Ahead
  /\ \A t \in TaskIds : task[t] # None => Dated(task[t], now)
  /\ \A p \in past : p.at < now
  /\ \A p \in past, t \in TaskIds :
       p.task[t] # None => Dated(p.task[t], p.at) /\ Since(p.task[t], p.at, task[t])
  /\ \A asOf \in Int : HasLast(asOf)

-----------------------------------------------------------------------------
(* The calendar. *)

\* A date has whole numbers for its year, month and day.
IsDate(date) == date.year \in Int /\ date.month \in Int /\ date.day \in Int

\* The day a date names is a whole number (the Date.UTC that timezone.util.js uses).
LEMMA DayNumberInt ==
  ASSUME NEW date, IsDate(date)
  PROVE  DayNumber(date) \in Int
<1>1. CASE date.month <= 2
  BY <1>1 DEF DayNumber, IsDate, March2000
<1>2. CASE ~(date.month <= 2)
  BY <1>2 DEF DayNumber, IsDate, March2000
<1> QED BY <1>1, <1>2

\* The date of a day has whole numbers (getZonedParts, timezone.util.js 16-31).
LEMMA CivilIsDate ==
  ASSUME NEW n \in Int
  PROVE  IsDate(Civil(n))
<1> DEFINE z == n - March2000
           r == z % 1461
           y == (r - (r \div 1460)) \div 365
           d == r - 365 * y
           m == (5 * d + 2) \div 153
<1>1. z \in Int /\ r \in Int
  BY DEF March2000
<1>2. y \in Int
  BY <1>1
<1>3. d \in Int /\ 2000 + 4 * (z \div 1461) + y \in Int
  BY <1>1, <1>2
<1>4. m \in Int
  BY <1>3
<1>5. Civil(n) = CivilIn(n, 2000 + 4 * (z \div 1461) + y, d)
  BY DEF Civil
<1> HIDE DEF z, r, y
<1>6. IsDate(CivilIn(n, 2000 + 4 * (z \div 1461) + y, d))
  BY <1>3, <1>4 DEF CivilIn, IsDate
<1> QED BY <1>5, <1>6

\* A period starts at an instant (getPeriodBounds, timezone.util.js 69-122).
LEMMA PreviousEndInt ==
  ASSUME TypeOK, NEW period \in Periods
  PROVE  PeriodBounds(period, zone, now).previousEnd \in Int
<1> DEFINE parts == ZonedParts(now, zone)
           start == PeriodDates(period, parts).start
<1>1. zone.before \in Int /\ zone.after \in Int /\ now \in Int
  BY DEF TypeOK
<1>2. LocalDay(now, zone) \in Int
  BY <1>1 DEF LocalDay, OffsetAt, Day
<1>3. IsDate(parts)
  BY <1>2, CivilIsDate DEF ZonedParts
<1>4. parts.isoWeekday \in Int
  BY <1>2 DEF ZonedParts, Civil, CivilIn
<1> HIDE DEF parts
<1>5. \A y, m \in Int : IsDate(FirstOf(y, m))
  BY DEF FirstOf, IsDate
<1>6. IsDate(start)
  <2>1. CASE period = "week"
    <3>1. IsDate(AddDays(parts, -(parts.isoWeekday - 1)))
      BY <1>3, <1>4, DayNumberInt, CivilIsDate DEF AddDays
    <3> QED BY <2>1, <3>1 DEF PeriodDates, WeekDates, WeekStart
  <2>2. CASE period = "month"
    BY <2>2, <1>3, <1>5 DEF PeriodDates, IsDate
  <2>3. CASE period = "quarter"
    <3>1. (((parts.month - 1) \div 3) * 3) + 1 \in Int
      BY <1>3 DEF IsDate
    <3>2. start = FirstOf(parts.year, (((parts.month - 1) \div 3) * 3) + 1)
      BY <2>3 DEF PeriodDates
    <3> QED BY <3>1, <3>2, <1>3, <1>5 DEF IsDate
  <2> QED BY <2>1, <2>2, <2>3 DEF Periods
<1>7. PeriodBounds(period, zone, now).previousEnd = ZonedMidnightToUtc(start, zone)
  BY DEF PeriodBounds, BoundsOf, parts
<1> HIDE DEF start
<1>8. DayNumber(start) \in Int
  BY <1>6, DayNumberInt
<1> QED BY <1>1, <1>7, <1>8 DEF ZonedMidnightToUtc, OffsetAt, Day

-----------------------------------------------------------------------------
(* Types. *)

\* The due dates and dates of completion requests give are instants.
LEMMA DatesInt ==
  ASSUME TypeOK, NEW days, days \subseteq Int
  PROVE  Dates(days) \subseteq Int \cup {None}
BY DEF Dates, TypeOK, Day

\* A row that is moved is a row, completed now or as before (withCompletedAt, task.service.js 140-149).
LEMMA MovedIsTask ==
  ASSUME TypeOK, NEW row \in Task, NEW status \in Statuses
  PROVE  Moved(row, status) \in Task
BY NoneAssumption DEF Moved, Task, TypeOK

\* The next occurrence of a task is due at an instant (nextOccurrence, task.service.js 86-92).
LEMMA NextOccurrenceInt ==
  ASSUME NEW t \in Int, NEW frequency \in Frequencies
  PROVE  NextOccurrence(t, frequency) \in Int
<1>1. CASE frequency = "daily" BY <1>1 DEF NextOccurrence, Day
<1>2. CASE frequency = "weekly" BY <1>2 DEF NextOccurrence, Day
<1>3. CASE frequency = "monthly"
  <2> DEFINE c == Civil(t \div Day)
  <2>1. t \div Day \in Int /\ t % Day \in Int BY DEF Day
  <2>2. IsDate(c) BY <2>1, CivilIsDate
  <2> HIDE DEF c
  <2>3. IsDate(FirstOf(c.year, c.month + 1)) BY <2>2 DEF FirstOf, IsDate
  <2>4. MonthAfter(c) \in Int BY <2>2, <2>3, DayNumberInt DEF MonthAfter, IsDate
  <2>5. NextOccurrence(t, frequency) = MonthAfter(c) * Day + (t % Day) BY <1>3 DEF NextOccurrence, c
  <2> QED BY <2>1, <2>4, <2>5 DEF Day
<1> QED BY <1>1, <1>2, <1>3 DEF Frequencies

\* The occurrence made of a task is a row that is open and has no date of completion (spawnNextOccurrence).
LEMMA AgainIsTask ==
  ASSUME TypeOK, NEW row \in Task, row.every # None
  PROVE  Again(row) \in Task /\ Again(row).status = "todo" /\ Again(row).completed = None
<1> DEFINE from == IF row.due = None THEN now ELSE row.due
           due == NextOccurrence(from, row.every)
<1>1. from \in Int /\ row.every \in Frequencies BY DEF Task, TypeOK
<1>2. due \in Int BY <1>1, NextOccurrenceInt
<1>3. Again(row) = [row EXCEPT !.status = "todo", !.completed = None, !.created = now, !.due = due]
  BY DEF Again
<1> HIDE DEF due
<1> QED BY <1>2, <1>3 DEF Task, Statuses, TypeOK

LEMMA InitType == Init => TypeOK
<1> SUFFICES ASSUME Init PROVE TypeOK OBVIOUS
<1>1. PICK view \in Views : zone = view.zone /\ now = Head(view.moments) /\ later = Tail(view.moments)
  BY DEF Init
<1>2. view.moments \in Seq(Int) /\ view.moments # << >> /\ view.zone \in [before : Int, at : Int, after : Int]
  BY MomentsAssumption
<1>3. Head(view.moments) \in Int /\ Tail(view.moments) \in Seq(Int) BY <1>2
<1>4. now \in Int /\ later \in Seq(Int) /\ zone \in [before : Int, at : Int, after : Int] BY <1>1, <1>2, <1>3
<1>5. task \in [TaskIds -> Task \cup {None}] /\ calls \in Int BY DEF Init
<1>6. past \subseteq [at : Int, task : [TaskIds -> Task \cup {None}]] BY DEF Init
<1> QED BY <1>4, <1>5, <1>6 DEF TypeOK

LEMMA CreateType ==
  ASSUME TypeOK, NEW t \in TaskIds, NEW u \in Users, NEW due \in Dates(DueIn), NEW status \in Statuses, NEW every \in Every,
         Create(t, u, status, due, every)
  PROVE  TypeOK'
<1> DEFINE row == [by |-> u, status |-> "todo", created |-> now, completed |-> None, due |-> due, every |-> every]
<1>1. row \in Task BY EveryAssumption, DatesInt DEF Task, Statuses, TypeOK
<1>2. task' = [task EXCEPT ![t] = Moved(row, status)] BY DEF Create
<1>3. Moved(row, status) \in Task BY <1>1, MovedIsTask
<1> HIDE DEF row
<1> QED BY <1>2, <1>3 DEF TypeOK, Create, Call

\* A task imported as done is completed at a moment that is not to come (importMany, task.service.js 226-229).
LEMMA ImportRow ==
  ASSUME TypeOK, NEW t \in TaskIds, NEW u \in Users, NEW due \in Dates(DueIn), NEW completed \in Dates(DoneIn),
         ImportDone(t, u, completed, due)
  PROVE  /\ task[t] = None
         /\ \E row \in Task : task' = [task EXCEPT ![t] = row] /\ row.status = "done" /\ Dated(row, now)
<1> DEFINE given == IF completed # None THEN completed ELSE due
           at == IF given # None /\ given > now THEN now ELSE given
           row == [by |-> u, status |-> "done", created |-> now, completed |-> at, due |-> due, every |-> None]
<1>1. due \in Int \cup {None} /\ completed \in Int \cup {None} BY EveryAssumption, DatesInt
<1>2. at \in Int \cup {None} /\ (at # None => at <= now) BY <1>1, NoneAssumption DEF TypeOK
<1>3. task[t] = None /\ task' = [task EXCEPT ![t] = row] BY DEF ImportDone
<1> HIDE DEF at
<1>4. row \in Task BY <1>1, <1>2 DEF Task, Statuses, TypeOK
<1>5. Dated(row, now) /\ row.status = "done" BY <1>2 DEF Dated
<1> QED BY <1>3, <1>4, <1>5

\* What a move of a task does to the rows: the task is moved, and a recurring one may have made another.
MoveRows(t, status) ==
  \/ task' = [task EXCEPT ![t] = Moved(task[t], status)]
  \/ /\ task[t].every # None
     /\ \E n \in TaskIds \ {t} :
          task[n] = None /\ task' = [task EXCEPT ![t] = Moved(task[t], status), ![n] = Again(task[t])]

LEMMA MoveDoes ==
  ASSUME TypeOK, NEW t \in TaskIds, NEW status \in Statuses, Move(t, status)
  PROVE  task[t] # None /\ task[t] \in Task /\ MoveRows(t, status) /\ UNCHANGED <<now, later, zone, past>>
<1>1. task[t] # None /\ task[t] \in Task /\ UNCHANGED <<now, later, zone, past>> BY DEF Move, Call, TypeOK
<1>2. MoveRows(t, status)
  <2>1. CASE status = "done" /\ task[t].status # "done" /\ task[t].every # None
    <3>1. PICK n \in TaskIds :
            task[n] = None /\ task' = [task EXCEPT ![t] = Moved(@, status), ![n] = Again(task[t])]
      BY <2>1 DEF Move
    <3>2. n # t BY <1>1, <3>1
    <3> QED BY <2>1, <3>1, <3>2, <1>1 DEF MoveRows, TypeOK
  <2>2. CASE ~(status = "done" /\ task[t].status # "done" /\ task[t].every # None)
    <3>1. task' = [task EXCEPT ![t] = Moved(@, status)] BY <2>2 DEF Move
    <3> QED BY <3>1 DEF MoveRows, TypeOK
  <2> QED BY <2>1, <2>2
<1> QED BY <1>1, <1>2

LEMMA MoveType ==
  ASSUME TypeOK, NEW t \in TaskIds, NEW status \in Statuses, Move(t, status)
  PROVE  TypeOK'
<1>1. task[t] \in Task /\ MoveRows(t, status) /\ UNCHANGED <<now, later, zone, past>> BY MoveDoes
<1>2. Moved(task[t], status) \in Task BY <1>1, MovedIsTask
<1>3. task' \in [TaskIds -> Task \cup {None}]
  <2>1. CASE task' = [task EXCEPT ![t] = Moved(task[t], status)]
    BY <2>1, <1>2 DEF TypeOK
  <2>2. ASSUME task[t].every # None, NEW n \in TaskIds \ {t},
               task' = [task EXCEPT ![t] = Moved(task[t], status), ![n] = Again(task[t])]
        PROVE  task' \in [TaskIds -> Task \cup {None}]
    <3>1. Again(task[t]) \in Task BY <1>1, <2>2, AgainIsTask
    <3> QED BY <2>2, <1>2, <3>1 DEF TypeOK
  <2> QED BY <1>1, <2>1, <2>2 DEF MoveRows
<1>4. calls' \in Int BY DEF Move, Call, TypeOK
<1> QED BY <1>1, <1>3, <1>4 DEF TypeOK

LEMMA TickType == TypeOK /\ Tick => TypeOK'
<1> SUFFICES ASSUME TypeOK, Tick PROVE TypeOK' OBVIOUS
<1>1. Head(later) \in Int /\ Tail(later) \in Seq(Int) BY DEF TypeOK, Tick
<1>2. [at |-> now, task |-> task] \in [at : Int, task : [TaskIds -> Task \cup {None}]] BY DEF TypeOK
<1> QED BY <1>1, <1>2 DEF TypeOK, Tick

LEMMA NextType == TypeOK /\ [Next]_vars => TypeOK'
<1> SUFFICES ASSUME TypeOK, [Next]_vars PROVE TypeOK' OBVIOUS
<1>1. ASSUME NEW t \in TaskIds, NEW u \in Users, NEW due \in Dates(DueIn), NEW completed \in Dates(DoneIn),
             ImportDone(t, u, completed, due)
      PROVE  TypeOK'
  <2>1. PICK row \in Task : task' = [task EXCEPT ![t] = row] BY <1>1, ImportRow
  <2> QED BY <1>1, <2>1 DEF TypeOK, ImportDone, Call
<1>2. ASSUME NEW t \in TaskIds, NEW due \in Dates(DueIn), Redate(t, due)
      PROVE  TypeOK'
  <2>1. due \in Int \cup {None} BY EveryAssumption, DatesInt
  <2>2. task[t] \in Task BY <1>2 DEF Redate, TypeOK
  <2>3. [task[t] EXCEPT !.due = due] \in Task BY <2>1, <2>2 DEF Task
  <2>4. task' = [task EXCEPT ![t] = [task[t] EXCEPT !.due = due]] BY <1>2 DEF Redate, TypeOK
  <2> QED BY <1>2, <2>3, <2>4 DEF TypeOK, Redate, Call
<1>3. CASE UNCHANGED vars BY <1>3 DEF TypeOK, vars
<1> QED BY <1>1, <1>2, <1>3, CreateType, MoveType, TickType DEF Next

\* Every state has its type: a row moved, imported, made anew or redated is a row of the schema (task.service.js).
THEOREM TypeCorrect == Spec => []TypeOK
<1> QED BY InitType, NextType, PTL DEF Spec

-----------------------------------------------------------------------------
(* What the rows were and what has become of them. *)

LEMMA InitAhead == Init => Ahead
<1> SUFFICES ASSUME Init PROVE Ahead OBVIOUS
<1>1. PICK view \in Views : now = Head(view.moments) /\ later = Tail(view.moments)
  BY DEF Init
<1> DEFINE s == view.moments
<1>2. s \in Seq(Int) /\ s # << >> /\ \A i, j \in 1 .. Len(s) : i < j => s[i] < s[j]
  BY MomentsAssumption
<1> HIDE DEF s
<1>3. now = s[1] /\ Len(later) = Len(s) - 1 /\ Len(s) \in Nat /\ \A i \in 1 .. Len(later) : later[i] = s[i + 1]
  BY <1>1, <1>2 DEF s
<1>4. ASSUME NEW i \in 1 .. Len(later) PROVE now < later[i]
  <2>1. 1 \in 1 .. Len(s) /\ i + 1 \in 1 .. Len(s) /\ 1 < i + 1 BY <1>3
  <2>2. s[1] < s[i + 1] BY <1>2, <2>1
  <2> QED BY <1>3, <2>2
<1>5. ASSUME NEW i \in 1 .. Len(later), NEW j \in 1 .. Len(later), i < j PROVE later[i] < later[j]
  <2>1. i + 1 \in 1 .. Len(s) /\ j + 1 \in 1 .. Len(s) /\ i + 1 < j + 1 BY <1>3, <1>5
  <2>2. s[i + 1] < s[j + 1] BY <1>2, <2>1
  <2> QED BY <1>3, <2>2
<1> QED BY <1>4, <1>5 DEF Ahead

LEMMA InitPast == Init => PastInv
<1> SUFFICES ASSUME Init PROVE PastInv OBVIOUS
<1>1. past = {} /\ \A t \in TaskIds : task[t] = None BY DEF Init
<1>2. \A asOf \in Int : HasLast(asOf) BY <1>1 DEF HasLast, Before
<1> QED BY <1>1, <1>2, InitAhead DEF PastInv

\* A request that makes rows anew where there were none, and of the others only sets or clears dates of
\* completion to now, leaves what was true of the past.
LEMMA RequestKeepsPast ==
  ASSUME TypeOK, TypeOK', PastInv, UNCHANGED <<now, later, past>>,
         \A t \in TaskIds : task'[t] # None => Dated(task'[t], now),
         \A t \in TaskIds : task[t] # None =>
           /\ task'[t] # None
           /\ task'[t].completed = task[t].completed \/ task'[t].completed = None \/ task'[t].completed = now
  PROVE  PastInv'
<1>1. Ahead' BY DEF PastInv, Ahead
<1>2. \A asOf \in Int : HasLast(asOf)' BY DEF PastInv, HasLast, Before
<1>3. (\A p \in past : p.at < now)' BY DEF PastInv
<1>4. ASSUME NEW p \in past, NEW t \in TaskIds, p.task[t] # None
      PROVE  Dated(p.task[t], p.at) /\ Since(p.task[t], p.at, task'[t])
  <2>1. Dated(p.task[t], p.at) /\ Since(p.task[t], p.at, task[t]) BY <1>4 DEF PastInv
  <2>2. p.at < now BY DEF PastInv
  <2>3. task[t] # None BY <2>1 DEF Since
  <2>4. CASE task'[t].completed = task[t].completed
    BY <2>1, <2>3, <2>4 DEF Since, AMoment
  <2>5. CASE task'[t].completed = None
    BY <2>1, <2>3, <2>5 DEF Since
  <2>6. CASE task'[t].completed = now
    <3>1. task'[t].completed > p.at BY <2>2, <2>6 DEF TypeOK
    <3> QED BY <2>1, <2>3, <2>6, <3>1 DEF Since, AMoment
  <2> QED BY <2>1, <2>3, <2>4, <2>5, <2>6
<1> QED BY <1>1, <1>2, <1>3, <1>4 DEF PastInv, Dated, Since, AMoment

\* A row that is moved has a date of completion as it should.
LEMMA MovedDated ==
  ASSUME TypeOK, NEW row \in Task, NEW status \in Statuses, Dated(row, now)
  PROVE  /\ Dated(Moved(row, status), now)
         /\ \/ Moved(row, status).completed = row.completed
            \/ Moved(row, status).completed = None
            \/ Moved(row, status).completed = now
<1>1. now \in Int /\ now # None BY NoneAssumption DEF TypeOK
<1>2. Moved(row, status).status = status
  BY DEF Moved, Task
<1>3. Moved(row, status).completed = IF status # "done" THEN None ELSE IF row.status = "done" THEN row.completed ELSE now
  BY DEF Moved, Task
<1> QED BY <1>1, <1>2, <1>3 DEF Dated

LEMMA CreatePast ==
  ASSUME TypeOK, PastInv, NEW t \in TaskIds, NEW u \in Users, NEW due \in Dates(DueIn), NEW status \in Statuses, NEW every \in Every,
         Create(t, u, status, due, every)
  PROVE  PastInv'
<1> DEFINE row == [by |-> u, status |-> "todo", created |-> now, completed |-> None, due |-> due, every |-> every]
<1>1. row \in Task BY EveryAssumption, DatesInt DEF Task, Statuses, TypeOK
<1>2. Dated(row, now) BY DEF Dated
<1>3. task' = [task EXCEPT ![t] = Moved(row, status)] /\ task[t] = None /\ UNCHANGED <<now, later, past>>
  BY DEF Create, Call
<1>4. Dated(Moved(row, status), now) BY <1>1, <1>2, MovedDated
<1> HIDE DEF row
<1>5. \A s \in TaskIds : task'[s] = IF s = t THEN Moved(row, status) ELSE task[s] BY <1>3 DEF TypeOK
<1>6. TypeOK' BY CreateType
<1>7. \A s \in TaskIds : task'[s] # None => Dated(task'[s], now) BY <1>4, <1>5 DEF PastInv
<1>8. \A s \in TaskIds : task[s] # None => task'[s] = task[s] BY <1>3, <1>5
<1> QED BY <1>3, <1>6, <1>7, <1>8, RequestKeepsPast

LEMMA ImportPast ==
  ASSUME TypeOK, PastInv, NEW t \in TaskIds, NEW u \in Users, NEW due \in Dates(DueIn), NEW completed \in Dates(DoneIn),
         ImportDone(t, u, completed, due)
  PROVE  PastInv'
<1>1. PICK row \in Task : task' = [task EXCEPT ![t] = row] /\ Dated(row, now) BY ImportRow
<1>2. task[t] = None /\ UNCHANGED <<now, later, zone, past>> /\ calls' \in Int BY DEF ImportDone, Call, TypeOK
<1>3. \A s \in TaskIds : task'[s] = IF s = t THEN row ELSE task[s] BY <1>1 DEF TypeOK
<1>4. TypeOK' BY <1>1, <1>2 DEF TypeOK
<1>5. \A s \in TaskIds : task'[s] # None => Dated(task'[s], now) BY <1>1, <1>3 DEF PastInv
<1>6. \A s \in TaskIds : task[s] # None => task'[s] = task[s] BY <1>2, <1>3
<1> QED BY <1>2, <1>4, <1>5, <1>6, RequestKeepsPast

LEMMA MovePast ==
  ASSUME TypeOK, PastInv, NEW t \in TaskIds, NEW status \in Statuses, Move(t, status)
  PROVE  PastInv'
<1> DEFINE new == Moved(task[t], status)
<1>1. task[t] # None /\ task[t] \in Task /\ MoveRows(t, status) /\ UNCHANGED <<now, later, zone, past>> BY MoveDoes
<1>2. Dated(task[t], now) BY <1>1 DEF PastInv
<1>3. new \in Task /\ new # None BY <1>1, MovedIsTask, NoneAssumption
<1>4. /\ Dated(new, now)
      /\ new.completed = task[t].completed \/ new.completed = None \/ new.completed = now
  BY <1>1, <1>2, MovedDated
<1> HIDE DEF new
<1>5. TypeOK' BY MoveType
<1>6. CASE task' = [task EXCEPT ![t] = new]
  <2>1. \A s \in TaskIds : task'[s] = IF s = t THEN new ELSE task[s] BY <1>6 DEF TypeOK
  <2>2. \A s \in TaskIds : task'[s] # None => Dated(task'[s], now) BY <1>4, <2>1 DEF PastInv
  <2>3. \A s \in TaskIds : task[s] # None =>
          /\ task'[s] # None
          /\ task'[s].completed = task[s].completed \/ task'[s].completed = None \/ task'[s].completed = now
    BY <1>3, <1>4, <2>1
  <2> QED BY <1>1, <1>5, <2>2, <2>3, RequestKeepsPast
<1>7. ASSUME task[t].every # None, NEW n \in TaskIds \ {t}, task[n] = None,
             task' = [task EXCEPT ![t] = new, ![n] = Again(task[t])]
      PROVE  PastInv'
  <2> DEFINE next == Again(task[t])
  <2>1. next \in Task /\ next.completed = None BY <1>1, <1>7, AgainIsTask
  <2>2. task' = [task EXCEPT ![t] = new, ![n] = next] BY <1>7
  <2> HIDE DEF next
  <2>3. \A s \in TaskIds : task'[s] = IF s = n THEN next ELSE IF s = t THEN new ELSE task[s] BY <2>2 DEF TypeOK
  <2>4. Dated(next, now) BY <2>1 DEF Dated
  <2>5. \A s \in TaskIds : task'[s] # None => Dated(task'[s], now) BY <1>4, <2>3, <2>4 DEF PastInv
  <2>6. \A s \in TaskIds : task[s] # None =>
          /\ task'[s] # None
          /\ task'[s].completed = task[s].completed \/ task'[s].completed = None \/ task'[s].completed = now
    BY <1>3, <1>4, <1>7, <2>3
  <2> QED BY <1>1, <1>5, <2>5, <2>6, RequestKeepsPast
<1> QED BY <1>1, <1>6, <1>7 DEF MoveRows, new

LEMMA RedatePast ==
  ASSUME TypeOK, TypeOK', PastInv, NEW t \in TaskIds, NEW due \in Dates(DueIn), Redate(t, due)
  PROVE  PastInv'
<1> DEFINE new == [task[t] EXCEPT !.due = due]
<1>1. task[t] # None /\ task[t] \in Task /\ task' = [task EXCEPT ![t] = new] /\ UNCHANGED <<now, later, past>>
  BY DEF Redate, Call, TypeOK
<1>2. new.completed = task[t].completed /\ new.status = task[t].status BY <1>1 DEF Task
<1> HIDE DEF new
<1>3. \A s \in TaskIds : task'[s] = IF s = t THEN new ELSE task[s] BY <1>1 DEF TypeOK
<1>4. new # None
  <2>1. task'[t] = new BY <1>3
  <2>2. new \in Task BY <1>1, EveryAssumption, DatesInt DEF Task, new
  <2> QED BY <2>2, NoneAssumption
<1>5. Dated(new, now) BY <1>1, <1>2 DEF PastInv, Dated
<1>6. \A s \in TaskIds : task'[s] # None => Dated(task'[s], now) BY <1>3, <1>5 DEF PastInv
<1>7. \A s \in TaskIds : task[s] # None => task'[s] # None /\ task'[s].completed = task[s].completed
  BY <1>2, <1>3, <1>4
<1> QED BY <1>1, <1>6, <1>7, RequestKeepsPast

\* Time going on: what is now done has been so at a moment, which is gone by.
LEMMA TickAhead ==
  ASSUME TypeOK, Ahead, Tick
  PROVE  Ahead' /\ now' \in Int /\ now < now'
<1>1. later \in Seq(Int) /\ later # << >> /\ now' = Head(later) /\ later' = Tail(later) BY DEF TypeOK, Tick
<1>2. /\ now' = later[1] /\ Len(later) \in Nat /\ Len(later') = Len(later) - 1
      /\ \A i \in 1 .. Len(later') : later'[i] = later[i + 1]
  BY <1>1
<1>3. now' \in Int /\ 1 \in 1 .. Len(later) BY <1>1
<1>4. now < now' BY <1>2, <1>3 DEF Ahead
<1>5. ASSUME NEW i \in 1 .. Len(later') PROVE now' < later'[i]
  <2>1. i + 1 \in 1 .. Len(later) /\ 1 < i + 1 BY <1>2
  <2>2. later[1] < later[i + 1] BY <1>3, <2>1 DEF Ahead
  <2> QED BY <1>2, <2>2
<1>6. ASSUME NEW i \in 1 .. Len(later'), NEW j \in 1 .. Len(later'), i < j PROVE later'[i] < later'[j]
  <2>1. i + 1 \in 1 .. Len(later) /\ j + 1 \in 1 .. Len(later) /\ i + 1 < j + 1 BY <1>2, <1>6
  <2>2. later[i + 1] < later[j + 1] BY <2>1 DEF Ahead
  <2> QED BY <1>2, <2>2
<1> QED BY <1>3, <1>4, <1>5, <1>6 DEF Ahead

LEMMA TickPast ==
  ASSUME TypeOK, PastInv, Tick
  PROVE  PastInv'
<1> DEFINE gone == [at |-> now, task |-> task]
<1>1. Ahead' /\ now' \in Int /\ now \in Int /\ now < now' BY TickAhead DEF PastInv, TypeOK
<1>2. past' = past \cup {gone} /\ gone.at = now /\ gone.task = task /\ task' = task BY DEF Tick
<1>3. \A p \in past : p.at \in Int /\ p.at < now BY DEF PastInv, TypeOK
<1> HIDE DEF gone
<1>4. ASSUME NEW t \in TaskIds, task[t] # None PROVE Dated(task[t], now')
  <2>1. task[t] \in Task /\ Dated(task[t], now) BY <1>4 DEF PastInv, TypeOK
  <2>2. task[t].completed # None => task[t].completed \in Int BY <2>1 DEF Task
  <2> QED BY <1>1, <2>1, <2>2 DEF Dated
<1>5. \A p \in past' : p.at < now' BY <1>1, <1>2, <1>3
<1>6. ASSUME NEW p \in past', NEW t \in TaskIds, p.task[t] # None
      PROVE  Dated(p.task[t], p.at) /\ Since(p.task[t], p.at, task[t])'
  <2>1. CASE p \in past
    <3>1. Dated(p.task[t], p.at) /\ Since(p.task[t], p.at, task[t]) BY <1>6, <2>1 DEF PastInv
    <3>2. ASSUME NEW at, AMoment(at) PROVE AMoment(at)' BY <1>2, <3>2 DEF AMoment
    <3> QED BY <1>2, <3>1, <3>2 DEF Since
  <2>2. CASE p = gone
    <3>1. p.task[t] = task[t] /\ p.at = now BY <1>2, <2>2
    <3>2. Dated(task[t], now) /\ task[t] # None BY <1>6, <3>1 DEF PastInv
    <3> QED BY <1>2, <3>1, <3>2 DEF Since, Dated
  <2> QED BY <1>2, <2>1, <2>2
<1>7. ASSUME NEW asOf \in Int PROVE HasLast(asOf)'
  <2> DEFINE old == Before(asOf)
             new == Before(asOf)'
  <2>1. CASE asOf < now
    <3>1. new = old BY <1>1, <1>2, <2>1 DEF Before
    <3>2. HasLast(asOf) BY DEF PastInv
    <3> QED BY <3>1, <3>2 DEF HasLast
  <2>2. CASE ~(asOf < now)
    <3>1. gone \in new BY <1>1, <1>2, <2>2 DEF Before
    <3>2. \A q \in new : q.at <= gone.at BY <1>1, <1>2, <1>3 DEF Before
    <3> QED BY <3>1, <3>2 DEF HasLast
  <2> QED BY <2>1, <2>2
<1> QED BY <1>1, <1>2, <1>4, <1>5, <1>6, <1>7 DEF PastInv

LEMMA NextPast == TypeOK /\ PastInv /\ [Next]_vars => PastInv'
<1> SUFFICES ASSUME TypeOK, PastInv, [Next]_vars PROVE PastInv' OBVIOUS
<1>1. TypeOK' BY NextType
<1>2. CASE UNCHANGED vars
  BY <1>2 DEF vars, PastInv, Ahead, Since, Dated, AMoment, HasLast, Before
<1> QED BY <1>1, <1>2, CreatePast, ImportPast, MovePast, RedatePast, TickPast DEF Next

\* What is known of the past: a task that was completed then still has that date of completion, or has lost it, or
\* was completed again at a moment after (withCompletedAt, task.service.js 140-149).
THEOREM PastKept == Spec => [](TypeOK /\ PastInv)
<1>1. Init => TypeOK /\ PastInv BY InitType, InitPast
<1>2. (TypeOK /\ PastInv) /\ [Next]_vars => (TypeOK /\ PastInv)' BY NextType, NextPast
<1> QED BY <1>1, <1>2, PTL DEF Spec

-----------------------------------------------------------------------------
(* The tiles of the period before. *)

\* The rows that are compared are those of a moment that is the last not after the instant, or there were none.
LEMMA RowsThen ==
  ASSUME TypeOK, PastInv, NEW asOf \in Int
  PROVE  \/ now <= asOf /\ RowsAt(asOf) = task
         \/ ~(now <= asOf) /\ \A t \in TaskIds : RowsAt(asOf)[t] = None
         \/ ~(now <= asOf) /\ \E p \in past :
              p.at <= asOf /\ (\A q \in past : q.at <= asOf => q.at <= p.at) /\ RowsAt(asOf) = p.task
<1>1. CASE now <= asOf BY <1>1 DEF RowsAt
<1>2. CASE ~(now <= asOf) /\ Before(asOf) = {} BY <1>2 DEF RowsAt
<1>3. CASE ~(now <= asOf) /\ Before(asOf) # {}
  <2> DEFINE Last(p) == \A q \in Before(asOf) : q.at <= p.at
             p == CHOOSE p \in Before(asOf) : Last(p)
  <2>1. \E q \in Before(asOf) : Last(q) BY <1>3 DEF PastInv, HasLast
  <2>2. p \in Before(asOf) /\ Last(p) BY <2>1
  <2>3. RowsAt(asOf) = p.task BY <1>3 DEF RowsAt
  <2> HIDE DEF p
  <2> QED BY <1>3, <2>2, <2>3 DEF Before
<1> QED BY <1>1, <1>2, <1>3

\* A task there was then, done only with a date, is not done as of the instant exactly if it was open or has been
\* opened again (getSnapshotAsOf, momentum.service.js 52-68).
LEMMA NotDoneThen ==
  ASSUME TypeOK, PastInv, NEW asOf \in Int, NEW t \in TaskIds, NEW then,
         task[t] # None, then # None, then.status = "done" => then.completed # None,
         \/ now <= asOf /\ then = task[t]
         \/ ~(now <= asOf) /\ \E p \in past :
              p.at <= asOf /\ (\A q \in past : q.at <= asOf => q.at <= p.at) /\ then = p.task[t]
  PROVE  (task[t].completed = None \/ task[t].completed > asOf)
           <=> (then.status # "done" \/ (then.status = "done" /\ task[t].completed # then.completed))
<1> DEFINE done == task[t].completed
<1>1. now \in Int /\ task[t] \in Task /\ done \in Int \cup {None} BY DEF TypeOK, Task
<1>2. CASE now <= asOf /\ then = task[t]
  <2>1. Dated(task[t], now) BY DEF PastInv
  <2> QED BY <1>1, <1>2, <2>1 DEF Dated
<1>3. ASSUME ~(now <= asOf), NEW p \in past, p.at <= asOf, \A q \in past : q.at <= asOf => q.at <= p.at, then = p.task[t]
      PROVE  (task[t].completed = None \/ task[t].completed > asOf)
               <=> (then.status # "done" \/ (then.status = "done" /\ task[t].completed # then.completed))
  <2>1. Dated(then, p.at) /\ Since(then, p.at, task[t]) BY <1>3 DEF PastInv
  <2>2. p.at \in Int /\ then \in Task /\ then.completed \in Int \cup {None} BY <1>3 DEF TypeOK, Task
  <2>3. CASE done = None
    BY <2>3
  <2>4. CASE done > p.at /\ AMoment(done) /\ done # None
    <3>1. CASE done = now
      BY <1>1, <1>3, <2>1, <2>2, <2>4, <3>1, NoneAssumption DEF Dated
    <3>2. ASSUME NEW q \in past, q.at = done PROVE done > asOf
      BY <1>1, <1>3, <2>2, <2>4, <3>2
    <3>3. done > asOf BY <1>1, <1>3, <2>4, <3>1, <3>2 DEF AMoment
    <3>4. then.status = "done" => done # then.completed
      BY <1>1, <1>3, <2>1, <2>2, <2>4, <3>3 DEF Dated
    <3> QED BY <3>3, <3>4
  <2>5. CASE then.status = "done" /\ done = then.completed
    BY <1>1, <1>3, <2>1, <2>2, <2>5 DEF Dated
  <2> QED BY <2>1, <2>3, <2>4, <2>5 DEF Since
<1> QED BY <1>2, <1>3

\* What momentum says of an instant is so, of the rows there were.
LEMMA WasSoThen ==
  ASSUME TypeOK, PastInv, NEW asOf \in Int, NEW u \in Users, NEW m, m.then = SnapshotAsOf(u, asOf),
         \A t \in m.onTime : task[t].completed # None /\ task[t].due # None /\ task[t].completed <= task[t].due
  PROVE  WasSo(u, m, asOf, RowsAt(asOf))
<1> DEFINE rows == RowsAt(asOf)
           kept == {t \in Of(u) : /\ rows[t] # None
                                  /\ rows[t].due = task[t].due
                                  /\ rows[t].status = "done" => rows[t].completed # None}
           open == {t \in kept : rows[t].status # "done" \/ OpenedAgain(t, rows)}
<1> HIDE DEF rows
<1>1. ASSUME NEW t \in kept
      PROVE  t \in NotDoneAsOf(u, asOf) <=> t \in open
  <2>1. t \in TaskIds /\ task[t] # None /\ rows[t] # None /\ (rows[t].status = "done" => rows[t].completed # None)
    BY DEF Of, Rows
  <2>2. \/ now <= asOf /\ rows[t] = task[t]
        \/ ~(now <= asOf) /\ \E p \in past :
             p.at <= asOf /\ (\A q \in past : q.at <= asOf => q.at <= p.at) /\ rows[t] = p.task[t]
    BY <2>1, RowsThen DEF rows
  <2>3. (task[t].completed = None \/ task[t].completed > asOf)
          <=> (rows[t].status # "done" \/ OpenedAgain(t, rows))
    BY <2>1, <2>2, NotDoneThen DEF OpenedAgain
  <2> QED BY <2>3 DEF NotDoneAsOf
<1>2. kept \subseteq Of(u) /\ Of(u) \subseteq TaskIds /\ NotDoneAsOf(u, asOf) \subseteq Of(u) /\ open \subseteq kept
  BY DEF Of, Rows, NotDoneAsOf
<1>3. NotDoneAsOf(u, asOf) \cap kept = open BY <1>1, <1>2
<1>4. {t \in DueBefore(open, asOf) : rows[t].status # "done"} \cap m.onTime = {}
  <2> SUFFICES ASSUME NEW t \in DueBefore(open, asOf), rows[t].status # "done", t \in m.onTime PROVE FALSE OBVIOUS
  <2>1. t \in open /\ t \in TaskIds /\ task[t] \in Task /\ task[t].due < asOf
    BY <1>2 DEF DueBefore, Of, Rows, TypeOK
  <2>2. /\ task[t].completed # None /\ task[t].due # None /\ task[t].completed <= task[t].due
        /\ task[t].completed \in Int /\ task[t].due \in Int
    BY <2>1 DEF Task
  <2>3. task[t].completed > asOf BY <1>3, <2>1, <2>2 DEF NotDoneAsOf
  <2> QED BY <2>1, <2>2, <2>3
<1> HIDE DEF kept, open
<1>5. m.then.overdue = DueBefore(NotDoneAsOf(u, asOf), asOf) /\ m.then.atRisk = Due(NotDoneAsOf(u, asOf), asOf, asOf + Soon)
  BY DEF SnapshotAsOf
<1>6. m.then.overdue \cap kept = DueBefore(open, asOf) BY <1>3, <1>5 DEF DueBefore
<1>7. m.then.atRisk \cap kept = Due(open, asOf, asOf + Soon) BY <1>3, <1>5 DEF Due
<1> QED BY <1>4, <1>6, <1>7 DEF WasSo, kept, open, rows

\* The tiles of the period before show what was overdue and at risk when it ended, for every behaviour
\* (getSnapshotAsOf and summarizeCompleted, momentum.service.js 52-68 and 81-90).
THEOREM PreviousWas == Spec => []PreviousIsWhatItWas
<1>1. TypeOK /\ PastInv => PreviousIsWhatItWas
  <2> SUFFICES ASSUME TypeOK, PastInv, NEW u \in Users, NEW period \in Periods
               PROVE  WasSo(u, MomentumIn(u, period, PeriodBounds(period, zone, now)),
                            PeriodBounds(period, zone, now).previousEnd,
                            RowsAt(PeriodBounds(period, zone, now).previousEnd))
    BY DEF PreviousIsWhatItWas
  <2> DEFINE bounds == PeriodBounds(period, zone, now)
             m == MomentumIn(u, period, bounds)
             current == Shipped(Of(u), bounds.currentStart, bounds.currentEnd)
  <2>1. bounds.previousEnd \in Int BY PreviousEndInt
  <2>2. m.then = SnapshotAsOf(u, bounds.previousEnd) /\ m.onTime = OnTime(current)
    BY DEF MomentumIn
  <2> HIDE DEF bounds, m
  <2>3. \A t \in m.onTime : task[t].completed # None /\ task[t].due # None /\ task[t].completed <= task[t].due
    BY <2>2 DEF OnTime, Shipped, ShippedSince
  <2>4. WasSo(u, m, bounds.previousEnd, RowsAt(bounds.previousEnd)) BY <2>1, <2>2, <2>3, WasSoThen
  <2> QED BY <2>4 DEF m, bounds
<1> QED BY <1>1, PastKept, PTL

-----------------------------------------------------------------------------
(* Days and dates. *)

\* A cycle of four years, the years in it, and the months of a year that starts in March.
LEMMA Weeks ==
  ASSUME NEW n \in Int
  PROVE  n = 1461 * (n \div 1461) + (n % 1461) /\ n % 1461 \in 0 .. 1460 /\ n \div 1461 \in Int
OBVIOUS

LEMMA YearsIn ==
  ASSUME NEW r \in 0 .. 1460
  PROVE  LET y == (r - (r \div 1460)) \div 365 IN y \in 0 .. 3 /\ r - 365 * y \in 0 .. 365
<1>1. CASE r = 1460 BY <1>1
<1>2. CASE r < 1460
  <2>1. r \div 1460 = 0 BY <1>2
  <2>2. r - (r \div 1460) = r BY <2>1
  <2>3. r \div 365 \in 0 .. 3 /\ r - 365 * (r \div 365) \in 0 .. 365 BY <1>2
  <2> QED BY <2>2, <2>3
<1> QED BY <1>1, <1>2

LEMMA MonthsIn ==
  ASSUME NEW d \in 0 .. 365
  PROVE  (5 * d + 2) \div 153 \in 0 .. 11
OBVIOUS

\* The date of a day counted from a March, and the day of that date (Date.UTC, timezone.util.js 48, 56 and 137-138).
LEMMA DateOf ==
  ASSUME NEW n \in Int, NEW y \in Int, NEW d \in 0 .. 365
  PROVE  DayNumber(CivilIn(n, 2000 + y, d)) = March2000 + 365 * y + (y \div 4) + d
<1> DEFINE m == (5 * d + 2) \div 153
           k == (153 * m + 2) \div 5
           c == CivilIn(n, 2000 + y, d)
<1>1. m \in 0 .. 11 BY MonthsIn
<1>2. k \in Int BY <1>1
<1>3. c.year = 2000 + y + (m \div 10) /\ c.month = ((m + 2) % 12) + 1 /\ c.day = d - k + 1 BY DEF CivilIn
<1> HIDE DEF m, c
<1>4. (c.month + 9) % 12 = m BY <1>1, <1>3
<1>5. c.year - 2000 - (IF c.month <= 2 THEN 1 ELSE 0) = y
  <2>1. CASE m \in 0 .. 9 BY <2>1, <1>3
  <2>2. CASE m \in 10 .. 11 BY <2>2, <1>3
  <2> QED BY <1>1, <2>1, <2>2
<1>6. DayNumber(c) = March2000 + 365 * y + (y \div 4) + k + (d - k + 1) - 1
  BY <1>3, <1>4, <1>5 DEF DayNumber
<1> HIDE DEF k
<1>7. y \div 4 \in Int OBVIOUS
<1>8. DayNumber(c) = March2000 + 365 * y + (y \div 4) + d BY <1>2, <1>6, <1>7 DEF March2000
<1> QED BY <1>8 DEF c

\* A day is the one its date names (getZonedParts and Date.UTC).
LEMMA DayOfDate ==
  ASSUME NEW n \in Int
  PROVE  DayNumber(Civil(n)) = n
<1> DEFINE z == n - March2000
           q == z \div 1461
           r == z % 1461
           y == (r - (r \div 1460)) \div 365
           d == r - 365 * y
<1>1. z \in Int BY DEF March2000
<1>2. z = 1461 * q + r /\ r \in 0 .. 1460 /\ q \in Int BY <1>1, Weeks
<1>3. Civil(n) = CivilIn(n, 2000 + 4 * q + y, d) BY DEF Civil
<1> HIDE DEF q, r
<1>4. y \in 0 .. 3 /\ d \in 0 .. 365 BY <1>2, YearsIn
<1> HIDE DEF y
<1>5. 4 * q + y \in Int /\ (4 * q + y) \div 4 = q BY <1>2, <1>4
<1> HIDE DEF d
<1>6. 2000 + 4 * q + y = 2000 + (4 * q + y) BY <1>2, <1>4
<1>7. DayNumber(Civil(n)) = March2000 + 365 * (4 * q + y) + q + d BY <1>3, <1>4, <1>5, <1>6, DateOf
<1>8. d = r - 365 * y BY DEF d
<1> QED BY <1>2, <1>4, <1>7, <1>8 DEF z, March2000

-----------------------------------------------------------------------------
(* Midnights. *)

Zone == [before : Int, at : Int, after : Int]

\* The local day of an instant is the one it falls in (getZonedParts, timezone.util.js 16-31).
LEMMA LocalDayIs ==
  ASSUME NEW z \in Zone, NEW t \in Int
  PROVE  /\ LocalDay(t, z) \in Int /\ OffsetAt(z, t) \in Int
         /\ LocalDay(t, z) * Day <= t + OffsetAt(z, t) /\ t + OffsetAt(z, t) < LocalDay(t, z) * Day + Day
<1>1. OffsetAt(z, t) \in Int BY DEF OffsetAt, Zone
<1>2. \A x \in Int : x \div 48 \in Int /\ (x \div 48) * 48 <= x /\ x < (x \div 48) * 48 + 48 OBVIOUS
<1>3. t + OffsetAt(z, t) \in Int BY <1>1
<1> QED BY <1>1, <1>2, <1>3 DEF LocalDay, Day

\* Where the midnight of a day is one, what comes before it is of the days before, and the rest is not.
LEMMA MidnightSplits ==
  ASSUME NEW z \in Zone, NEW n \in Int, OneOffset(n, z), NEW date, DayNumber(date) = n
  PROVE  /\ ZonedMidnightToUtc(date, z) \in Int
         /\ z.after - z.before < Day => LocalDay(ZonedMidnightToUtc(date, z), z) = n
         /\ \A t \in Int : ZonedMidnightToUtc(date, z) <= t <=> n <= LocalDay(t, z)
<1> DEFINE at == z.at
           a == z.after
           b == z.before
           m == ZonedMidnightToUtc(date, z)
           x == n * 48
<1>1. at \in Int /\ a \in Int /\ b \in Int /\ x \in Int BY DEF Zone
<1>2. m = x - OffsetAt(z, x) /\ OffsetAt(z, x) = OffsetAt(z, MidnightOf(n, z))
  BY DEF ZonedMidnightToUtc, OneOffset, Day
<1>3. MidnightOf(n, z) = IF x - b < at THEN x - b ELSE x - a BY DEF MidnightOf, Day
<1>4. \A t : OffsetAt(z, t) = IF t < at THEN b ELSE a BY DEF OffsetAt
<1>5. ~(at + b < x /\ x < at + a) /\ ~(at + a < x /\ x < at + b) BY DEF OneOffset, Day
<1> HIDE DEF at, a, b, m, x
<1>6. m \in Int /\ x <= m + OffsetAt(z, m) /\ (a - b < 48 => m + OffsetAt(z, m) < x + 48)
  BY <1>1, <1>2, <1>3, <1>4, <1>5
<1>7. ASSUME NEW t \in Int PROVE m <= t <=> x <= t + OffsetAt(z, t)
  BY <1>1, <1>2, <1>3, <1>4, <1>5, <1>7
<1>8. \A k \in Int : x <= k <=> n <= k \div 48 BY DEF x
<1>9. ASSUME NEW t \in Int PROVE x <= t + OffsetAt(z, t) <=> n <= LocalDay(t, z)
  <2>1. OffsetAt(z, t) \in Int BY LocalDayIs
  <2>2. t + OffsetAt(z, t) \in Int BY <2>1
  <2> QED BY <1>8, <2>2 DEF LocalDay, Day
<1>10. a - b < 48 => LocalDay(m, z) = n
  <2>1. OffsetAt(z, m) \in Int BY <1>6, LocalDayIs
  <2>2. \A k \in Int : x <= k /\ k < x + 48 => k \div 48 = n BY DEF x
  <2>3. m + OffsetAt(z, m) \in Int BY <1>6, <2>1
  <2> QED BY <1>6, <2>2, <2>3 DEF LocalDay, Day
<1> QED BY <1>6, <1>7, <1>9, <1>10 DEF m, a, b, Day

\* The midnight that ends a day is less than two days after anything in it.
LEMMA EndIsNear ==
  ASSUME NEW z \in Zone, NEW t \in Int, OneOffset(LocalDay(t, z), z), OneOffset(LocalDay(t, z) + 1, z),
         NEW date, DayNumber(date) = LocalDay(t, z) + 1
  PROVE  ZonedMidnightToUtc(date, z) <= t + 2 * Day
<1> DEFINE at == z.at
           a == z.after
           b == z.before
           m == ZonedMidnightToUtc(date, z)
           n == LocalDay(t, z)
           x == n * 48
           y == x + 48
<1>0. n \in Int /\ x <= t + OffsetAt(z, t) /\ (n + 1) * 48 = y BY LocalDayIs DEF Day
<1>1. at \in Int /\ a \in Int /\ b \in Int /\ x \in Int BY <1>0 DEF Zone
<1>2. m = y - OffsetAt(z, y) /\ OffsetAt(z, y) = OffsetAt(z, MidnightOf(n + 1, z))
  BY <1>0 DEF ZonedMidnightToUtc, OneOffset, Day
<1>3. MidnightOf(n + 1, z) = IF y - b < at THEN y - b ELSE y - a BY <1>0 DEF MidnightOf, Day
<1>4. \A s : OffsetAt(z, s) = IF s < at THEN b ELSE a BY DEF OffsetAt
<1>5. ~(at + b < y /\ y < at + a) /\ ~(at + a < y /\ y < at + b) BY <1>0 DEF OneOffset, Day
<1>6. ~(at + b < x /\ x < at + a) /\ ~(at + a < x /\ x < at + b) BY DEF OneOffset, Day
<1>7. y = x + 48 OBVIOUS
<1> HIDE DEF at, a, b, m, n, x, y
<1>8. m <= t + 96
  BY <1>0, <1>1, <1>2, <1>3, <1>4, <1>5, <1>6, <1>7
<1> QED BY <1>8 DEF m, Day

-----------------------------------------------------------------------------
(* The digest of the day. *)

\* Today, where its midnights are plain, holds now and ends within two days.
LEMMA TodayIs ==
  ASSUME TypeOK, OneOffset(LocalDay(now, zone), zone), OneOffset(LocalDay(now, zone) + 1, zone)
  PROVE  LET today == ZonedParts(now, zone)
             start == ZonedMidnightToUtc(today, zone)
             end   == ZonedMidnightToUtc(AddDays(today, 1), zone)
         IN start \in Int /\ end \in Int /\ start <= now /\ now < end /\ end <= now + Soon
<1> DEFINE today == ZonedParts(now, zone)
           tomorrow == AddDays(today, 1)
           n == LocalDay(now, zone)
           start == ZonedMidnightToUtc(today, zone)
           end == ZonedMidnightToUtc(tomorrow, zone)
<1>1. now \in Int /\ zone \in Zone BY DEF TypeOK, Zone
<1>2. n \in Int BY <1>1, LocalDayIs
<1>3. DayNumber(today) = n BY <1>2, DayOfDate DEF ZonedParts
<1>4. DayNumber(tomorrow) = n + 1 BY <1>2, <1>3, DayOfDate DEF AddDays
<1> HIDE DEF today, tomorrow
<1>5. start \in Int /\ (start <= now <=> n <= n) BY <1>1, <1>2, <1>3, MidnightSplits
<1>6. end \in Int /\ (end <= now <=> n + 1 <= n) BY <1>1, <1>2, <1>4, MidnightSplits
<1>7. end <= now + Soon BY <1>1, <1>4, EndIsNear DEF Soon
<1> HIDE DEF n, start, end
<1>8. start \in Int /\ end \in Int /\ start <= now /\ now < end /\ end <= now + Soon
  BY <1>1, <1>2, <1>5, <1>6, <1>7
<1> QED BY <1>8 DEF start, end, today, tomorrow

LEMMA DigestAgrees ==
  ASSUME TypeOK, NEW u \in Users, NEW start \in Int, NEW end \in Int, start <= now, now < end, end <= now + Soon
  PROVE  Agree(DigestOf(u, start, end), Snapshot(u))
<1> DEFINE open == Open(Of(u))
           d == DigestOf(u, start, end)
           s == Snapshot(u)
<1>1. now \in Int /\ Soon \in Int BY DEF TypeOK, Soon, Day
<1>2. \A t \in open : task[t].due # None => task[t].due \in Int BY DEF TypeOK, Task, Open, Of, Rows
<1>3. d.overdue = DueBefore(open, start) /\ d.dueToday = Due(open, start, end)
  BY DEF DigestOf
<1>4. d.caughtUp <=> d.overdue = {} /\ d.dueToday = {} BY DEF DigestOf
<1>5. s.overdue = DueBefore(open, now) /\ s.atRisk = Due(open, now, now + Soon) BY DEF Snapshot
<1> HIDE DEF open, d, s
<1>6. d.overdue \subseteq s.overdue BY <1>1, <1>2, <1>3, <1>5 DEF DueBefore
<1>7. s.overdue \subseteq d.overdue \cup d.dueToday BY <1>1, <1>2, <1>3, <1>5 DEF DueBefore, Due
<1>8. d.dueToday \subseteq s.overdue \cup s.atRisk BY <1>1, <1>2, <1>3, <1>5 DEF DueBefore, Due
<1>9. d.caughtUp => s.overdue = {} BY <1>4, <1>7
<1> QED BY <1>6, <1>7, <1>8, <1>9 DEF Agree, d, s

\* The digest of the day and Momentum tell of the same overdue work, in every zone, but for days whose midnight has another
\* offset than that of UTC, is skipped or comes twice (digest.service.js 14-35, timezone.util.js 7-12 and 47-53).
THEOREM DigestAndMomentum == Spec => []DigestMatchesMomentum
<1>1. TypeOK => DigestMatchesMomentum
  <2> SUFFICES ASSUME TypeOK, NEW u \in Users,
                      OneOffset(LocalDay(now, zone), zone), OneOffset(LocalDay(now, zone) + 1, zone)
               PROVE  Agree(Digest(u), Snapshot(u))
    BY DEF DigestMatchesMomentum
  <2> DEFINE today == ZonedParts(now, zone)
             start == ZonedMidnightToUtc(today, zone)
             end == ZonedMidnightToUtc(AddDays(today, 1), zone)
  <2>1. start \in Int /\ end \in Int /\ start <= now /\ now < end /\ end <= now + Soon BY TodayIs
  <2>2. Digest(u) = DigestOf(u, start, end) BY DEF Digest
  <2> HIDE DEF start, end
  <2> QED BY <2>1, <2>2, DigestAgrees
<1> QED BY <1>1, TypeCorrect, PTL

-----------------------------------------------------------------------------
(* The chart. *)

\* The local days a period and the one before it start and end on.
Edges(period) ==
  LET dates == PeriodDates(period, ZonedParts(now, zone)) IN
  {DayNumber(dates.before), DayNumber(dates.start), DayNumber(dates.end)}

\* The clocks are not put forward by more than half a day, and not about the midnights that months and quarters are cut at.
PlainEdges ==
  /\ zone.after - zone.before <= Day \div 2
  /\ \A period \in {"month", "quarter"} : \A n \in Edges(period) : OneOffset(n, zone)

\* A day of the week is one of seven.
LEMMA WeekdayIs ==
  ASSUME NEW n \in Int
  PROVE  Civil(n).isoWeekday = ((n + 3) % 7) + 1 /\ Civil(n).isoWeekday \in 1 .. 7
<1>1. Civil(n).isoWeekday = ((n + 3) % 7) + 1 BY DEF Civil, CivilIn
<1> QED BY <1>1

\* The tasks in the bars are those whose bar there is.
LEMMA InBarsIs ==
  ASSUME TypeOK, NEW done \in SUBSET Rows, NEW bars \in Int, NEW period, NEW start,
         \A t \in done : BucketKey(period, ZonedParts(task[t].completed, zone), start) \in 1 .. bars
  PROVE  InBars(Chart(done, bars, period, start)) = done
<1> DEFINE chart == Chart(done, bars, period, start)
           key(t) == BucketKey(period, ZonedParts(task[t].completed, zone), start)
<1>1. chart = [bar \in 1 .. bars |-> {t \in done : key(t) = bar}] BY DEF Chart
<1> HIDE DEF chart, key
<1>2. DOMAIN chart = 1 .. bars /\ \A bar \in 1 .. bars : chart[bar] = {t \in done : key(t) = bar} BY <1>1
<1>3. InBars(chart) = {t \in done : \E bar \in 1 .. bars : key(t) = bar} BY <1>2 DEF InBars
<1> QED BY <1>3 DEF chart, key

LEMMA ShippedIs ==
  ASSUME TypeOK, NEW u \in Users, NEW from \in Int, NEW to \in Int, NEW t \in Shipped(Of(u), from, to)
  PROVE  /\ t \in Of(u) /\ t \in Rows /\ task[t].completed \in Int /\ from <= task[t].completed /\ task[t].completed < to
         /\ LocalDay(task[t].completed, zone) \in Int
<1>1. t \in Of(u) /\ t \in Rows /\ task[t] \in Task BY DEF Shipped, ShippedSince, Of, Rows, TypeOK
<1>2. task[t].completed \in Int /\ from <= task[t].completed /\ task[t].completed < to
  BY <1>1 DEF Shipped, ShippedSince, Task
<1>3. zone \in Zone BY DEF TypeOK, Zone
<1> QED BY <1>1, <1>2, <1>3, LocalDayIs

\* A bar for each day of the week has all of it.
LEMMA WeekBars ==
  ASSUME TypeOK, NEW u \in Users, NEW from \in Int, NEW to \in Int, NEW start
  PROVE  InBars(Chart(Shipped(Of(u), from, to), 7, "week", start)) = Shipped(Of(u), from, to)
<1> DEFINE done == Shipped(Of(u), from, to)
<1>1. done \subseteq Rows BY ShippedIs
<1>2. ASSUME NEW t \in done PROVE BucketKey("week", ZonedParts(task[t].completed, zone), start) \in 1 .. 7
  <2>1. LocalDay(task[t].completed, zone) \in Int BY ShippedIs
  <2> QED BY <2>1, WeekdayIs DEF BucketKey, ZonedParts
<1> HIDE DEF done
<1>3. InBars(Chart(done, 7, "week", start)) = done BY <1>1, <1>2, InBarsIs
<1> QED BY <1>3 DEF done

\* A bar for each week begun has all that was done between plain midnights, if it is not more than the bars' weeks.
LEMMA LongBars ==
  ASSUME TypeOK, zone.after - zone.before <= Day \div 2, NEW u \in Users, NEW period \in {"month", "quarter"},
         NEW first, NEW last, NEW m \in Int, NEW n \in Int, DayNumber(first) = m, DayNumber(last) = n,
         OneOffset(m, zone), OneOffset(n, zone), NEW bars \in Int, n - m <= 7 * bars \/ n <= m
  PROVE  LET from == ZonedMidnightToUtc(first, zone)
             to   == ZonedMidnightToUtc(last, zone)
         IN InBars(Chart(Shipped(Of(u), from, to), bars, period, ZonedParts(from, zone))) = Shipped(Of(u), from, to)
<1> DEFINE from == ZonedMidnightToUtc(first, zone)
           to == ZonedMidnightToUtc(last, zone)
           done == Shipped(Of(u), from, to)
           start == ZonedParts(from, zone)
<1>1. zone \in Zone BY DEF TypeOK, Zone
<1>2. zone.after - zone.before < Day BY <1>1 DEF Zone, Day
<1>3. from \in Int /\ LocalDay(from, zone) = m /\ \A t \in Int : from <= t <=> m <= LocalDay(t, zone)
  BY <1>1, <1>2, MidnightSplits
<1>4. to \in Int /\ \A t \in Int : to <= t <=> n <= LocalDay(t, zone) BY <1>1, MidnightSplits
<1>5. DayNumber(start) = m BY <1>3, DayOfDate DEF ZonedParts
<1> HIDE DEF from, to, start
<1>6. done \subseteq Rows BY <1>3, <1>4, ShippedIs
<1>7. ASSUME NEW t \in done PROVE BucketKey(period, ZonedParts(task[t].completed, zone), start) \in 1 .. bars
  <2> DEFINE d == LocalDay(task[t].completed, zone)
  <2>1. d \in Int /\ m <= d /\ d < n BY <1>3, <1>4, ShippedIs
  <2>2. BucketKey(period, ZonedParts(task[t].completed, zone), start) = ((d - m) \div 7) + 1
    BY <1>5, <2>1, DayOfDate DEF BucketKey, ZonedParts
  <2> HIDE DEF d
  <2> QED BY <2>1, <2>2
<1> HIDE DEF done
<1>8. InBars(Chart(done, bars, period, start)) = done BY <1>6, <1>7, InBarsIs
<1> QED BY <1>8 DEF done, start, from, to

\* The dates of a period have whole numbers.
LEMMA PeriodDatesAre ==
  ASSUME TypeOK, NEW period \in Periods
  PROVE  LET dates == PeriodDates(period, ZonedParts(now, zone)) IN
         IsDate(dates.start) /\ IsDate(dates.end) /\ IsDate(dates.before)
<1> DEFINE parts == ZonedParts(now, zone)
           dates == PeriodDates(period, parts)
<1>1. LocalDay(now, zone) \in Int
  <2>1. zone \in Zone /\ now \in Int BY DEF TypeOK, Zone
  <2> QED BY <2>1, LocalDayIs
<1>2. IsDate(parts) /\ parts.isoWeekday \in Int
  BY <1>1, CivilIsDate, WeekdayIs DEF ZonedParts
<1> HIDE DEF parts
<1>3. ASSUME NEW y \in Int, NEW k \in Int PROVE IsDate(FirstOf(y, k))
  BY DEF FirstOf, IsDate
<1>4. ASSUME NEW date, IsDate(date), NEW n \in Int PROVE IsDate(AddDays(date, n))
  <2>1. DayNumber(date) + n \in Int BY <1>4, DayNumberInt
  <2> QED BY <2>1, CivilIsDate DEF AddDays
<1> DEFINE AreDates == IsDate(dates.start) /\ IsDate(dates.end) /\ IsDate(dates.before)
<1>5. ASSUME period = "week" PROVE AreDates
  <2>1. IsDate(WeekStart(parts)) BY <1>2, <1>4 DEF WeekStart
  <2>2. /\ dates.start = WeekStart(parts) /\ dates.end = AddDays(WeekStart(parts), 7)
        /\ dates.before = AddDays(WeekStart(parts), -7)
    BY <1>5 DEF PeriodDates, WeekDates
  <2> QED BY <1>4, <2>1, <2>2
<1>6. parts.year \in Int /\ parts.month \in Int BY <1>2 DEF IsDate
<1>7. ASSUME period = "month" PROVE AreDates
  <2> DEFINE month == FirstOf(parts.year, parts.month)
  <2>1. IsDate(month) /\ IsDate(FirstOf(parts.year, parts.month - 1)) BY <1>3, <1>6
  <2>2. DaysInMonth(parts.year, parts.month) \in Int
    <3>1. IsDate(FirstOf(parts.year, parts.month + 1)) BY <1>3, <1>6
    <3>2. DayNumber(FirstOf(parts.year, parts.month + 1)) - 1 \in Int BY <3>1, DayNumberInt
    <3> QED BY <3>2, CivilIsDate DEF DaysInMonth, IsDate
  <2>3. IsDate(AddDays(month, DaysInMonth(parts.year, parts.month))) BY <1>4, <2>1, <2>2
  <2>4. /\ dates.start = month /\ dates.end = AddDays(month, DaysInMonth(parts.year, parts.month))
        /\ dates.before = FirstOf(parts.year, parts.month - 1)
    BY <1>7 DEF PeriodDates
  <2> HIDE DEF month, dates
  <2> QED BY <2>1, <2>3, <2>4
<1>8. ASSUME period = "quarter" PROVE AreDates
  <2> DEFINE quarter == (((parts.month - 1) \div 3) * 3) + 1
  <2>1. quarter \in Int BY <1>6
  <2>2. /\ dates.start = FirstOf(parts.year, quarter) /\ dates.end = FirstOf(parts.year, quarter + 3)
        /\ dates.before = FirstOf(parts.year, quarter - 3)
    BY <1>8 DEF PeriodDates
  <2> HIDE DEF quarter, dates
  <2> QED BY <1>3, <1>6, <2>1, <2>2
<1> QED BY <1>5, <1>7, <1>8 DEF Periods, parts

LEMMA MidnightInt ==
  ASSUME TypeOK, NEW date, IsDate(date)
  PROVE  ZonedMidnightToUtc(date, zone) \in Int
<1>1. DayNumber(date) \in Int BY DayNumberInt
<1>2. zone \in Zone BY DEF TypeOK, Zone
<1> QED BY <1>1, <1>2 DEF ZonedMidnightToUtc, OffsetAt, Zone, Day

\* Between two midnights is hardly less than the days between them, if the clocks are not put forward by more than half a day.
LEMMA DaysBetween ==
  ASSUME TypeOK, zone.after - zone.before <= Day \div 2, NEW first, NEW last, NEW m \in Int, NEW n \in Int,
         DayNumber(first) = m, DayNumber(last) = n, m < n
  PROVE  ZonedMidnightToUtc(last, zone) - ZonedMidnightToUtc(first, zone) >= (n - m) * Day - Day \div 2
<1> DEFINE at == zone.at
           a == zone.after
           b == zone.before
           x == m * 48
           y == n * 48
<1>1. at \in Int /\ a \in Int /\ b \in Int /\ x \in Int /\ y \in Int /\ x < y /\ (n - m) * 48 = y - x
  BY DEF TypeOK
<1>2. /\ ZonedMidnightToUtc(first, zone) = x - (IF x < at THEN b ELSE a)
      /\ ZonedMidnightToUtc(last, zone) = y - (IF y < at THEN b ELSE a)
  BY DEF ZonedMidnightToUtc, OffsetAt, Day
<1>3. a - b <= 24 /\ Day \div 2 = 24 /\ Day = 48 BY DEF Day
<1> HIDE DEF at, a, b, x, y
<1> QED BY <1>1, <1>2, <1>3

\* Months and quarters have a bar for each week begun.
LEMMA BarsAre ==
  ASSUME NEW period \in {"month", "quarter"}, NEW bounds, bounds.currentStart \in Int, bounds.currentEnd \in Int,
         NEW days \in Int, bounds.currentEnd - bounds.currentStart >= days * Day - Day \div 2
  PROVE  Bars(period, bounds) \in Int /\ days <= 7 * Bars(period, bounds)
<1> DEFINE half == bounds.currentEnd - bounds.currentStart + 24
           whole == half \div 48
<1>1. Bars(period, bounds) = (whole + 6) \div 7 BY DEF Bars, Day
<1>2. half \in Int /\ half >= days * 48 BY DEF Day
<1> HIDE DEF half
<1>3. whole \in Int /\ whole >= days BY <1>2
<1> HIDE DEF whole
<1> QED BY <1>1, <1>3

LEMMA LongAddsUp ==
  ASSUME TypeOK, PlainEdges, NEW u \in Users, NEW period \in {"month", "quarter"}
  PROVE  AddsUp(MomentumOf(u, period), period)
<1> DEFINE dates == PeriodDates(period, ZonedParts(now, zone))
           bounds == PeriodBounds(period, zone, now)
           p == DayNumber(dates.before)
           m == DayNumber(dates.start)
           n == DayNumber(dates.end)
           bars == Bars(period, bounds)
           s == MomentumOf(u, period)
<1>1. IsDate(dates.start) /\ IsDate(dates.end) /\ IsDate(dates.before) BY PeriodDatesAre DEF Periods
<1>2. p \in Int /\ m \in Int /\ n \in Int BY <1>1, DayNumberInt
<1>3. /\ OneOffset(p, zone) /\ OneOffset(m, zone) /\ OneOffset(n, zone) /\ zone.after - zone.before <= Day \div 2
  BY DEF PlainEdges, Edges
<1>4. /\ bounds.currentStart = ZonedMidnightToUtc(dates.start, zone) /\ bounds.currentEnd = ZonedMidnightToUtc(dates.end, zone)
      /\ bounds.previousStart = ZonedMidnightToUtc(dates.before, zone) /\ bounds.previousEnd = bounds.currentStart
  BY DEF PeriodBounds, BoundsOf
<1>5. bounds.currentStart \in Int /\ bounds.currentEnd \in Int /\ bounds.previousStart \in Int
  BY <1>1, <1>4, MidnightInt
<1>6. /\ s.bounds = bounds
      /\ s.shipped = Shipped(Of(u), bounds.currentStart, bounds.currentEnd)
      /\ s.shippedBefore = Shipped(Of(u), bounds.previousStart, bounds.currentStart)
      /\ s.chart = Chart(s.shipped, bars, period, ZonedParts(bounds.currentStart, zone))
      /\ s.chartBefore = Chart(s.shippedBefore, bars, period, ZonedParts(bounds.previousStart, zone))
  BY DEF MomentumOf, MomentumIn
<1> HIDE DEF dates, bounds, s
<1>7. bars \in Int /\ (n - m <= 7 * bars \/ n <= m)
  <2>1. CASE n <= m BY <1>5, <2>1 DEF Bars, Day
  <2>2. CASE m < n
    <3>1. bounds.currentEnd - bounds.currentStart >= (n - m) * Day - Day \div 2 BY <1>2, <1>3, <1>4, <2>2, DaysBetween
    <3>2. n - m \in Int BY <1>2
    <3> QED BY <1>5, <3>1, <3>2, BarsAre
  <2> QED BY <1>2, <2>1, <2>2
<1> HIDE DEF bars
<1>8. bounds.currentStart - bounds.previousStart > 7 * Day * bars \/ m - p <= 7 * bars \/ m <= p
  <2> SUFFICES ASSUME p < m, bounds.currentStart - bounds.previousStart <= 7 * Day * bars PROVE m - p <= 7 * bars
    BY <1>2, <1>5, <1>7 DEF Day
  <2>1. bounds.currentStart - bounds.previousStart >= (m - p) * Day - Day \div 2 BY <1>2, <1>3, <1>4, DaysBetween
  <2>2. (m - p) * 48 - 24 <= 7 * 48 * bars BY <1>2, <1>5, <1>7, <2>1 DEF Day
  <2> QED BY <1>2, <1>7, <2>2
<1> HIDE DEF p, m, n
<1>9. InBars(s.chart) = s.shipped
  BY <1>2, <1>3, <1>4, <1>6, <1>7, LongBars DEF m, n
<1>10. m - p <= 7 * bars \/ m <= p => InBars(s.chartBefore) = s.shippedBefore
  BY <1>2, <1>3, <1>4, <1>6, <1>7, LongBars DEF m, p
<1> QED BY <1>4, <1>6, <1>8, <1>9, <1>10 DEF AddsUp, bars, s

LEMMA WeekAddsUp ==
  ASSUME TypeOK, NEW u \in Users
  PROVE  AddsUp(MomentumOf(u, "week"), "week")
<1> DEFINE dates == PeriodDates("week", ZonedParts(now, zone))
           bounds == PeriodBounds("week", zone, now)
           s == MomentumOf(u, "week")
<1>1. IsDate(dates.start) /\ IsDate(dates.end) /\ IsDate(dates.before) BY PeriodDatesAre DEF Periods
<1>2. /\ bounds.currentStart = ZonedMidnightToUtc(dates.start, zone) /\ bounds.currentEnd = ZonedMidnightToUtc(dates.end, zone)
      /\ bounds.previousStart = ZonedMidnightToUtc(dates.before, zone)
  BY DEF PeriodBounds, BoundsOf
<1>3. bounds.currentStart \in Int /\ bounds.currentEnd \in Int /\ bounds.previousStart \in Int
  BY <1>1, <1>2, MidnightInt
<1>4. /\ s.shipped = Shipped(Of(u), bounds.currentStart, bounds.currentEnd)
      /\ s.shippedBefore = Shipped(Of(u), bounds.previousStart, bounds.currentStart)
      /\ s.chart = Chart(s.shipped, 7, "week", ZonedParts(bounds.currentStart, zone))
      /\ s.chartBefore = Chart(s.shippedBefore, 7, "week", ZonedParts(bounds.previousStart, zone))
  BY DEF MomentumOf, MomentumIn, Bars
<1> HIDE DEF dates, bounds, s
<1>5. InBars(s.chart) = s.shipped /\ InBars(s.chartBefore) = s.shippedBefore BY <1>3, <1>4, WeekBars
<1> QED BY <1>5 DEF AddsUp, s

\* The bars of the chart add up to the tasks shipped, in every zone, wherever months and quarters are cut at midnights the
\* clocks are not changed about; those of a week always do (momentum.service.js 25-30, 208-219, timezone.util.js 7-12).
THEOREM ChartsAddUp == Spec => [](PlainEdges => ChartAddsUp)
<1>1. TypeOK => (PlainEdges => ChartAddsUp)
  <2> SUFFICES ASSUME TypeOK, PlainEdges, NEW period \in ShownPeriods, NEW u \in Users
               PROVE  AddsUp(MomentumOf(u, period), period)
    BY DEF ChartAddsUp, MomentumOf
  <2>1. period \in Periods BY DEF ShownPeriods, PeriodShown, Periods
  <2> QED BY <2>1, WeekAddsUp, LongAddsUp DEF Periods
<1> QED BY <1>1, TypeCorrect, PTL

-----------------------------------------------------------------------------
(* The screens. *)

\* A Monday of UTC, and the week that starts with it.
LEMMA MondayIs ==
  ASSUME NEW t \in Int
  PROVE  /\ MondayUtc(t) \in Int /\ MondayUtc(t) <= t /\ t < MondayUtc(t) + 336
         /\ \E k \in Int : MondayUtc(t) = 336 * k + 192
<1> DEFINE d == t \div 48
           w == (d + 3) \div 7
           m == (d - ((d + 3) % 7)) * 48
<1>1. d \in Int /\ d * 48 <= t /\ t < d * 48 + 48 OBVIOUS
<1>2. MondayUtc(t) = m BY DEF MondayUtc, Day
<1> HIDE DEF d
<1>3. w \in Int /\ (d + 3) % 7 = d + 3 - 7 * w /\ (d + 3) % 7 \in 0 .. 6 BY <1>1
<1> HIDE DEF w
<1>4. m = 336 * (w - 1) + 192 BY <1>1, <1>3
<1>5. m \in Int /\ m <= t /\ t < m + 336 BY <1>1, <1>3
<1> HIDE DEF m
<1>6. w - 1 \in Int BY <1>3
<1> QED BY <1>2, <1>4, <1>5, <1>6

LEMMA OfWeek ==
  ASSUME NEW k \in Int, NEW monday, monday = 336 * k + 192, NEW t \in Int
  PROVE  MondayUtc(t) = monday <=> monday <= t /\ t < monday + 336
<1>1. MondayUtc(t) \in Int /\ MondayUtc(t) <= t /\ t < MondayUtc(t) + 336 BY MondayIs
<1>2. PICK i \in Int : MondayUtc(t) = 336 * i + 192 BY MondayIs
<1> QED BY <1>1, <1>2

\* Every task is someone's.
LEMMA OfAll ==
  ASSUME TypeOK
  PROVE  /\ Rows = UNION {Of(u) : u \in Users}
         /\ \A t \in Rows : task[t] \in Task /\ task[t].by \in Users /\ task[t].status \in Statuses
<1>1. \A t \in Rows : task[t] \in Task BY DEF TypeOK, Rows
<1> QED BY <1>1 DEF Task, Of, Rows

\* What is selected row by row is selected of everyone's.
LEMMA OfEveryone ==
  ASSUME TypeOK, NEW from, NEW to, NEW status
  PROVE  /\ Shipped(Rows, from, to) = UNION {Shipped(Of(u), from, to) : u \in Users}
         /\ DueBefore(Open(Rows), to) = UNION {DueBefore(Open(Of(u)), to) : u \in Users}
         /\ {t \in Rows : task[t].status = status} = UNION {{t \in Of(u) : task[t].status = status} : u \in Users}
<1>1. \A t : t \in Rows <=> \E u \in Users : t \in Of(u) BY OfAll
<1>2. \A t : t \in Shipped(Rows, from, to) <=> \E u \in Users : t \in Shipped(Of(u), from, to)
  BY <1>1 DEF Shipped, ShippedSince
<1>3. \A t : t \in DueBefore(Open(Rows), to) <=> \E u \in Users : t \in DueBefore(Open(Of(u)), to)
  BY <1>1 DEF DueBefore, Open
<1>4. \A t : t \in {x \in Rows : task[x].status = status} <=> \E u \in Users : t \in {x \in Of(u) : task[x].status = status}
  BY <1>1
<1> QED BY <1>2, <1>3, <1>4

\* The bars of the client's page are the weeks of UTC, the last of which is this one.
LEMMA ThroughputIs ==
  ASSUME TypeOK
  PROVE  LET monday == MondayUtc(now) IN
         /\ Throughput[8] = Shipped(Rows, monday, monday + 7 * Day)
         /\ Throughput[7] = Shipped(Rows, monday - 7 * Day, monday)
<1> DEFINE monday == MondayUtc(now)
           first == monday - (ThroughputWeeks - 1) * 7 * Day
<1>1. now \in Int /\ monday \in Int BY MondayIs DEF TypeOK
<1> HIDE DEF monday
<1>2. \A i \in 1 .. 8 :
        Throughput[i] = {t \in ShippedSince(Rows, first) : MondayUtc(task[t].completed) = first + (i - 1) * 7 * Day}
  BY DEF Throughput, ThroughputWeeks, monday
<1>3. ASSUME NEW t \in ShippedSince(Rows, first)
      PROVE  /\ task[t].completed \in Int
             /\ MondayUtc(task[t].completed) = monday <=> monday <= task[t].completed /\ task[t].completed < monday + 336
             /\ MondayUtc(task[t].completed) = monday - 336 <=> monday - 336 <= task[t].completed /\ task[t].completed < monday
  <2>1. task[t].completed \in Int
    <3>1. t \in Rows /\ task[t].completed # None BY DEF ShippedSince
    <3> QED BY <3>1, OfAll DEF Task
  <2>2. PICK k \in Int : monday = 336 * k + 192 BY <1>1, MondayIs DEF monday
  <2>3. k - 1 \in Int /\ monday - 336 = 336 * (k - 1) + 192 /\ monday - 336 + 336 = monday BY <1>1, <2>2
  <2>4. MondayUtc(task[t].completed) = monday <=> monday <= task[t].completed /\ task[t].completed < monday + 336
    BY <2>1, <2>2, OfWeek
  <2>5. PICK j, last : j = k - 1 /\ last = monday - 336 OBVIOUS
  <2>6. j \in Int /\ last = 336 * j + 192 BY <2>3, <2>5
  <2>7. MondayUtc(task[t].completed) = last <=> last <= task[t].completed /\ task[t].completed < last + 336
    BY <2>1, <2>6, OfWeek
  <2> QED BY <2>1, <2>3, <2>4, <2>5, <2>7
<1>4. first = monday - 2352 /\ first + (8 - 1) * 7 * Day = monday /\ first + (7 - 1) * 7 * Day = monday - 336 /\ 7 * Day = 336
  BY <1>1 DEF ThroughputWeeks, Day
<1>5. \A from \in Int : first <= from =>
        \A to : Shipped(Rows, from, to) =
                  {t \in ShippedSince(Rows, first) : from <= task[t].completed /\ task[t].completed < to}
  <2> SUFFICES ASSUME NEW from \in Int, first <= from, NEW to
               PROVE  Shipped(Rows, from, to) =
                        {t \in ShippedSince(Rows, first) : from <= task[t].completed /\ task[t].completed < to}
    OBVIOUS
  <2>1. \A t \in Rows : task[t].completed # None => task[t].completed \in Int BY OfAll DEF Task
  <2>2. first \in Int BY <1>1, <1>4
  <2> HIDE DEF first
  <2> QED BY <2>1, <2>2 DEF Shipped, ShippedSince
<1>6. first <= monday /\ first <= monday - 336 /\ monday - 336 \in Int BY <1>1, <1>4
<1> HIDE DEF first
<1>7. Throughput[8] = Shipped(Rows, monday, monday + 336)
  <2>1. Throughput[8] = {t \in ShippedSince(Rows, first) : MondayUtc(task[t].completed) = monday}
    BY <1>2, <1>4 DEF first
  <2>2. Shipped(Rows, monday, monday + 336) =
          {t \in ShippedSince(Rows, first) : monday <= task[t].completed /\ task[t].completed < monday + 336}
    BY <1>1, <1>5, <1>6
  <2> QED BY <1>3, <2>1, <2>2
<1>8. Throughput[7] = Shipped(Rows, monday - 336, monday)
  <2>1. Throughput[7] = {t \in ShippedSince(Rows, first) : MondayUtc(task[t].completed) = monday - 336}
    BY <1>2, <1>4 DEF first
  <2>2. Shipped(Rows, monday - 336, monday) =
          {t \in ShippedSince(Rows, first) : monday - 336 <= task[t].completed /\ task[t].completed < monday}
    BY <1>1, <1>5, <1>6
  <2> QED BY <1>3, <2>1, <2>2
<1> QED BY <1>4, <1>7, <1>8 DEF monday

\* In UTC the week of Momentum is that of the client's page.
LEMMA UtcWeek ==
  ASSUME TypeOK, zone = UTC
  PROVE  LET bounds == PeriodBounds("week", zone, now)
             monday == MondayUtc(now)
         IN /\ bounds.currentStart = monday /\ bounds.currentEnd = monday + 7 * Day
            /\ bounds.previousStart = monday - 7 * Day
<1> DEFINE d == now \div 48
           parts == ZonedParts(now, zone)
           n == d - ((d + 3) % 7)
           start == WeekStart(parts)
<1>1. \A t : OffsetAt(zone, t) = 0 BY UTCAssumption DEF OffsetAt
<1>2. now \in Int /\ d \in Int BY DEF TypeOK
<1>3. parts = Civil(d) BY <1>1, <1>2 DEF ZonedParts, LocalDay, Day
<1>4. MondayUtc(now) = n * 48 BY DEF MondayUtc, Day
<1> HIDE DEF d
<1>5. n \in Int BY <1>2
<1>6. parts.isoWeekday - 1 = (d + 3) % 7 /\ DayNumber(parts) = d BY <1>2, <1>3, WeekdayIs, DayOfDate
<1> HIDE DEF parts
<1>7. DayNumber(parts) + (-(parts.isoWeekday - 1)) = n BY <1>2, <1>6
<1>8. start = Civil(n) BY <1>7 DEF WeekStart, AddDays
<1> HIDE DEF n, start
<1>9. DayNumber(start) = n BY <1>5, <1>8, DayOfDate
<1>10. DayNumber(AddDays(start, 7)) = n + 7 /\ DayNumber(AddDays(start, -7)) = n + (-7)
  BY <1>5, <1>9, DayOfDate DEF AddDays
<1>11. PeriodBounds("week", zone, now) = BoundsOf(WeekDates(start), zone)
  BY DEF PeriodBounds, PeriodDates, start, parts
<1>12. \A date : DayNumber(date) \in Int => ZonedMidnightToUtc(date, zone) = DayNumber(date) * 48
  BY <1>1 DEF ZonedMidnightToUtc, Day
<1>13. n * 48 \in Int /\ (n + 7) * 48 = n * 48 + 7 * Day /\ (n + (-7)) * 48 = n * 48 - 7 * Day BY <1>5 DEF Day
<1> QED BY <1>4, <1>5, <1>9, <1>10, <1>11, <1>12, <1>13 DEF BoundsOf, WeekDates

\* What was shipped in the last seven days was shipped this week or the week before.
LEMMA RecentWeeks ==
  ASSUME TypeOK, PastInv
  PROVE  SameWeeks(StatusPage.recent, StatusPage.throughput[ThroughputWeeks], StatusPage.throughput[ThroughputWeeks - 1])
<1> DEFINE monday == MondayUtc(now)
           recent == ShippedSince(Rows, now - 7 * Day)
           this == Shipped(Rows, monday, monday + 7 * Day)
           last == Shipped(Rows, monday - 7 * Day, monday)
<1>0. now \in Int BY DEF TypeOK
<1>1. monday \in Int /\ monday <= now /\ now < monday + 336 /\ 7 * Day = 336
  <2>1. PICK n \in Int : n = now BY <1>0
  <2>2. MondayUtc(n) \in Int /\ MondayUtc(n) <= n /\ n < MondayUtc(n) + 336 BY MondayIs
  <2> QED BY <2>1, <2>2 DEF Day
<1>2. /\ StatusPage.recent = recent
      /\ StatusPage.throughput[ThroughputWeeks] = this /\ StatusPage.throughput[ThroughputWeeks - 1] = last
  BY ThroughputIs DEF StatusPage, ThroughputWeeks
<1>3. ASSUME NEW t \in Rows, task[t].completed # None PROVE task[t].completed \in Int /\ task[t].completed <= now
  BY <1>3, OfAll DEF Task, PastInv, Dated, Rows
<1>4. this \subseteq recent BY <1>0, <1>1, <1>3 DEF Shipped, ShippedSince
<1>5. recent \subseteq this \cup last BY <1>0, <1>1, <1>3 DEF Shipped, ShippedSince
<1>6. ASSUME zone = UTC
      PROVE  /\ this = UNION {MomentumOf(u, "week").shipped : u \in Users}
             /\ last = UNION {MomentumOf(u, "week").shippedBefore : u \in Users}
  <2>1. \A u \in Users : /\ MomentumOf(u, "week").shipped = Shipped(Of(u), monday, monday + 7 * Day)
                         /\ MomentumOf(u, "week").shippedBefore = Shipped(Of(u), monday - 7 * Day, monday)
    BY <1>6, UtcWeek DEF MomentumOf, MomentumIn
  <2> QED BY <2>1, OfEveryone
<1> HIDE DEF this, last, recent
<1> QED BY <1>2, <1>4, <1>5, <1>6 DEF SameWeeks

\* One is told that nothing is overdue exactly if nothing is.
LEMMA ToldNothing ==
  ASSUME TypeOK, NEW u \in Users
  PROVE  "nothing overdue" \in InsightsOf(u, "week") <=> Snapshot(u).overdue = {}
<1> DEFINE overdue == Snapshot(u).overdue
<1>1. IsFiniteSet(overdue)
  <2>1. overdue \subseteq TaskIds BY DEF Snapshot, DueBefore, Open, Of, Rows
  <2> QED BY <2>1, TasksAssumption, FS_Subset
<1>2. Cardinality(overdue) = 0 <=> overdue = {} BY <1>1, FS_EmptySet
<1>3. \A n, before, soon : "nothing overdue" \in Insights(n, before, soon) <=> n = 0 BY DEF Insights
<1> QED BY <1>2, <1>3 DEF InsightsOf

\* The owner's overview, the client's page, the weekly email and the Momentum of each member tell of the same work, for any
\* members, tasks, zones and moments (clientOverview.service.js 38-66, workspace.service.js 842-856 and 917-939,
\* statusDigest.service.js 40-53, momentum.service.js 35-50, 74-79 and 105-150).
THEOREM SameEverywhere == Spec => []SameNumbersEverywhere
<1>1. TypeOK /\ PastInv => SameNumbersEverywhere
  <2> SUFFICES ASSUME TypeOK, PastInv PROVE SameNumbersEverywhere OBVIOUS
  <2>0. now \in Int /\ \A t \in Rows : task[t] \in Task /\ task[t].by \in Users /\ task[t].status \in Statuses
    BY OfAll DEF TypeOK
  <2>1. Overview.open = StatusPage.todo \cup StatusPage.in_progress BY <2>0 DEF Overview, StatusPage, Open, Statuses
  <2>2. Overview.overdue = UNION {Snapshot(u).overdue : u \in Users} BY OfEveryone DEF Overview, Snapshot
  <2>3. StatusPage.todo = UNION {ByStatus(u, "todo") : u \in Users}
    <3>1. \A u : ByStatus(u, "todo") = {t \in Of(u) : task[t].status = "todo"} BY DEF ByStatus, Open
    <3> QED BY <3>1, OfEveryone DEF StatusPage
  <2>4. StatusPage.in_progress = UNION {Snapshot(u).inFlight : u \in Users} BY OfEveryone DEF StatusPage, Snapshot
  <2>5. Overview.shippedThisWeek = StatusPage.recent BY DEF Overview, StatusPage
  <2>6. SameWeeks(StatusPage.recent, StatusPage.throughput[ThroughputWeeks], StatusPage.throughput[ThroughputWeeks - 1])
    BY RecentWeeks
  <2>7. "overdue" \notin Overview.attention <=> \A u \in Users : "nothing overdue" \in InsightsOf(u, "week")
    <3>1. "overdue" \notin Overview.attention <=> Overview.overdue = {} BY DEF Overview
    <3>2. Overview.overdue = {} <=> \A u \in Users : Snapshot(u).overdue = {} BY <2>2
    <3> QED BY <3>1, <3>2, ToldNothing
  <2>8. NothingToSend => Open(Rows) = StatusPage.todo /\ StatusPage.throughput[ThroughputWeeks] = {}
    <3> SUFFICES ASSUME NothingToSend PROVE Open(Rows) = StatusPage.todo /\ StatusPage.throughput[ThroughputWeeks] = {}
      OBVIOUS
    <3>1. StatusPage.in_progress = {} /\ StatusPage.recent = {} BY DEF NothingToSend, Collected, StatusPage
    <3>2. Open(Rows) = StatusPage.todo BY <2>1, <3>1 DEF Overview
    <3> QED BY <2>6, <3>1, <3>2 DEF SameWeeks
  <2>9. \A t \in Rows : task[t].due # None => task[t].due \in Int BY <2>0 DEF Task
  <2>10. Collected.upcoming \cap Overview.overdue = {}
    BY <2>0, <2>9 DEF Collected, Overview, Due, DueBefore, Open
  <2>11. \A u \in Users : Snapshot(u).atRisk \subseteq Collected.upcoming \cup Collected.inProgress
    BY <2>0, <2>9 DEF Snapshot, Collected, Due, Open, Of, Soon, Day, Statuses
  <2> QED BY <2>1, <2>2, <2>3, <2>4, <2>5, <2>6, <2>7, <2>8, <2>10, <2>11 DEF SameNumbersEverywhere
<1> QED BY <1>1, PastKept, PTL
=============================================================================

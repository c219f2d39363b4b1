---------------------------- MODULE CalendarTimes ----------------------------
(***************************************************************************)
(* When a job of packs/jobs is due: the times of day of Daily, DailyAt and *)
(* Weekly (schedule.go) and the expressions of cron.go, in a zone whose    *)
(* clocks change once.  Instants and times of day count the same unit; a   *)
(* day, an hour, a week and a month have as many as the constants say.     *)
(* What Go's time package does with a date and a time of day is external,  *)
(* and modelled as it is implemented (Place).  The text of an expression,  *)
(* its names and aliases are left out: a field is the parts it lists.      *)
(***************************************************************************)
EXTENDS Integers

CONSTANTS
    HourLength,     \* units in an hour: its "minutes" are 0..HourLength - 1
    Hours,          \* hours in a day
    Week,           \* days in a week; 0 is Sunday
    MonthLength,    \* days in a month
    Months,         \* months in a year
    Zones,          \* the zones there are: offsets before and after, the instant between
    Days,           \* Daily is EveryDay, Weekly a weekday
    ClockSets,      \* the times of day of a Daily, DailyAt or Weekly
    Expressions,    \* the fields of a Cron
    Start, End      \* bounds on the instants asked about

VARIABLES
    zone,
    plan,
    asked,      \* the instant Next was last asked about
    due         \* and what it said: next_run_at of the schedule's row

calendarVars == <<zone, plan, asked, due>>

-----------------------------------------------------------------------------
(* The time package.                                                       *)

DayLength == HourLength * Hours

OffsetAt(u) == IF u < zone.change THEN zone.before ELSE zone.after

\* t.In(loc): the date of an instant.
DateOf(u) == (u + OffsetAt(u)) \div DayLength

\* time.Date: the offset is looked up as if the wall clock showed UTC, and once more when
\* the instant this gives is past the change.
Place(date, clock) ==
    LET wall == date * DayLength + clock
        guess == wall - OffsetAt(wall)
    IN  IF (wall < zone.change) = (guess < zone.change)
        THEN guess
        ELSE wall - OffsetAt(guess)

DayOfMonth(date) == (date % MonthLength) + 1
MonthOf(date) == ((date \div MonthLength) % Months) + 1
Weekday(date) == date % Week

-----------------------------------------------------------------------------
(* Schedules.                                                              *)

EveryDay == -1

\* newCalendar; the order of the times and their repeats do not matter to Next.
Calendar(day, clocks) == [kind |-> "calendar", day |-> day, clocks |-> clocks]

\* A field is the set of its parts: *, a range or a value, each with a step.
Every == [kind |-> "star", step |-> 1]

\* cronField: the values between lo and hi that the parts of a field name.  A value with
\* a step above 1 goes on to the end.
CronField(parts, lo, hi) ==
    LET from(p) == IF p.kind = "star" THEN lo ELSE p.from
        to(p) == CASE p.kind = "range" -> p.to
                   [] p.kind = "value" /\ p.step = 1 -> p.from
                   [] OTHER -> hi
    IN  {v \in lo..hi : \E p \in parts : v \in from(p)..to(p) /\ (v - from(p)) % p.step = 0}

\* Cron: one set per field; Sunday is 0 and the last weekday either way.
Cron(e) ==
    LET named == CronField(e.weekdays, 0, Week)
    IN  [kind |-> "cron",
         minutes |-> CronField(e.minutes, 0, HourLength - 1),
         hours |-> CronField(e.hours, 0, Hours - 1),
         days |-> CronField(e.days, 1, MonthLength), anyDom |-> e.days = {Every},
         months |-> CronField(e.months, 1, Months),
         weekdays |-> named \cup {d \in {0} : Week \in named}, anyDow |-> e.weekdays = {Every}]

Plans == {Calendar(day, clocks) : day \in Days, clocks \in ClockSets}
            \cup {Cron(e) : e \in Expressions}

\* Noon names a date's weekday, month and day whatever its clocks skip.
Noon(date) == Place(date, DayLength \div 2)

\* cron.dayDue, and the weekday of a calendar.
DayDue(date) ==
    LET day == DateOf(Noon(date))
        dom == DayOfMonth(day) \in plan.days
        dow == Weekday(day) \in plan.weekdays
    IN  IF plan.kind = "calendar"
        THEN plan.day = EveryDay \/ plan.day = Weekday(day)
        ELSE /\ MonthOf(day) \in plan.months
             /\ \/ plan.anyDom /\ plan.anyDow
                \/ plan.anyDom /\ dow
                \/ plan.anyDow /\ dom
                \/ ~plan.anyDom /\ ~plan.anyDow /\ (dom \/ dow)

-----------------------------------------------------------------------------
(* Next.                                                                   *)

Never == -1000
LeastOf(S) == CHOOSE x \in S : \A y \in S : x <= y

\* The days either loop looks at: a calendar a week and a day more, cron long enough for
\* every combination of month, day and weekday.
Ahead == IF plan.kind = "calendar" THEN 0..Week + 1 ELSE 0..MonthLength * Months * Week

\* The times of a calendar on a date that fall after t.
CalendarTimes(t, date) == {x \in {Place(date, c) : c \in plan.clocks} : x > t}

\* Those of an expression: on a date after the first, none beyond its first hour.
CronTimes(t, date, first) ==
    LET in(h) == {x \in {Place(date, h * HourLength + m) : m \in plan.minutes} : x > t}
        hours == {h \in plan.hours : in(h) # {}}
    IN  IF first \/ hours = {} THEN UNION {in(h) : h \in hours} ELSE in(LeastOf(hours))

\* Mutant of FirstDate: the date of t on the clocks of UTC.
FirstDateUTC(t) == t \div DayLength

FirstDate(t) == DateOf(t)

\* calendar.Next and cron.Next: the least of the times after t, on the first date that
\* is due and has one.
NextDue(t) ==
    LET first == FirstDate(t)
        times(i) == IF plan.kind = "calendar" THEN CalendarTimes(t, first + i)
                    ELSE CronTimes(t, first + i, i = 0)
        days == {i \in Ahead : DayDue(first + i) /\ times(i) # {}}
    IN  IF days = {} THEN Never ELSE LeastOf(times(LeastOf(days)))

-----------------------------------------------------------------------------

Init ==
    /\ zone \in Zones
    /\ plan \in Plans
    /\ asked = Start
    /\ due = Never

\* A schedule is declared; Cron refuses one that is never due.
Declare ==
    /\ due = Never
    /\ due' = NextDue(asked)
    /\ due' # Never
    /\ UNCHANGED <<zone, plan, asked>>

\* A tick finds the schedule due, on time or late, and asks for the next time.
Fire ==
    /\ due # Never
    /\ asked' \in {due, due + 1}
    /\ asked' <= End
    /\ due' = NextDue(asked')
    /\ UNCHANGED <<zone, plan>>

Next == Declare \/ Fire
Spec == Init /\ [][Next]_calendarVars

-----------------------------------------------------------------------------

TypeOK ==
    /\ zone \in Zones /\ plan \in Plans
    /\ asked \in Start..End
    /\ due \in Int

\* The plan, date by date: the instants at which the clocks of a date that is due show a
\* time of the plan, or to which the change of the clocks moves that time.
PlanClocks ==
    IF plan.kind = "calendar" THEN plan.clocks
    ELSE {h * HourLength + m : h \in plan.hours, m \in plan.minutes}
Planned ==
    [date : {d \in (Start \div DayLength) - 1..(End \div DayLength) + 1 : DayDue(d)},
     clock : PlanClocks]

\* No time of the plan lies between the instant asked about and the answer.
FirstDue == \A p \in Planned :
    LET x == Place(p.date, p.clock)
    IN  x > asked => due <= x

\* A change of the clocks at midnight may show a time of one date on another.
TimesKeepDates == \A p \in Planned : DateOf(Place(p.date, p.clock)) = p.date

\* "Next returns the first due time strictly after t" (schedule.go:22), whatever hour the
\* clocks skip or repeat and whichever zone they are in: every time of every date that is
\* due is met in its turn, as long as no change moves one into another day.
EachTimeMet == due # Never =>
    /\ due > asked
    /\ TimesKeepDates => FirstDue

\* "a skipped wall-clock time moves forward by the jump" (schedule.go:144).
SkippedMovesForward == \A p \in Planned :
    LET x == Place(p.date, p.clock)
    IN  x + OffsetAt(x) >= p.date * DayLength + p.clock
=============================================================================

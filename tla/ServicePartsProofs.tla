-------------------------- MODULE ServicePartsProofs --------------------------
(***************************************************************************)
(* What seven of the parts promise for every bound: due times, the bounded *)
(* store, the language model's calls, the upload in parts, the development *)
(* server, the settings saved while nodes run, and exact decimals; and     *)
(* what a merge of locks keeps.  Each has an inductive invariant of its    *)
(* own; the step of another part leaves it.                                *)
(***************************************************************************)
EXTENDS MCParts, FiniteSetTheorems, WellFoundedInduction, TLAPS

-----------------------------------------------------------------------------
(* The machine that runs goes on running.                                  *)

LEMMA OnePart == [Next]_vars => part' = part
  BY DEF Next, RenewalStep, FactorStep, ConnectedStep, PoolStep, CacheStep, SavedStep,
     OutboxStep, StripeStep, SchemaStep, PolicyStep, CalendarStep, GeneratedStep,
     MergeStep, DevStep, ModelStep, UploadStep, LifeStep, DecimalStep, vars

-----------------------------------------------------------------------------
(* Due times.                                                              *)

zone == x1
plan == x2
asked == x3
due == x4
calendarVars == <<x1, x2, x3, x4>>
USE DEF zone, plan, asked, due

LEMMA Least ==
    ASSUME NEW S \in SUBSET Int, NEW t \in Int, \A x \in S : x > t, S # {}
    PROVE  Times!LeastOf(S) \in S /\ \A x \in S : Times!LeastOf(S) <= x
<1> DEFINE above == {n \in Nat : t + n \in S}
<1>1. above \in SUBSET Nat /\ above # {}
  <2>1. PICK x \in S : x > t
    OBVIOUS
  <2>2. x - t \in above
    BY <2>1
  <2>3. QED
    BY <2>2
<1>2. PICK n \in above : \A k \in above : n <= k
  <2>1. IsWellFoundedOn({p \in Nat \X Nat : p[1] < p[2]}, Nat)
    BY NatLessThanWellFounded DEF OpToRel
  <2>2. \E n \in above : \A k \in above : <<k, n>> \notin {p \in Nat \X Nat : p[1] < p[2]}
    <3> HIDE DEF above
    <3>1. QED
      BY <1>1, <2>1, WFMin
  <2>3. PICK n \in above : \A k \in above : <<k, n>> \notin {p \in Nat \X Nat : p[1] < p[2]}
    BY <2>2
  <2>4. \A k \in above : <<k, n>> \in Nat \X Nat /\ <<k, n>>[1] = k /\ <<k, n>>[2] = n
    OBVIOUS
  <2>5. \A k \in above : ~(k < n)
    BY <2>3, <2>4
  <2>6. QED
    BY <2>5
<1>3. \A y \in S : t + n <= y
  <2>1. ASSUME NEW y \in S PROVE t + n <= y
    <3>1. y - t \in above
      OBVIOUS
    <3>2. QED
      BY <1>2, <3>1
  <2>2. QED
    BY <2>1
<1>4. \E x \in S : \A y \in S : x <= y
  BY <1>2, <1>3
<1>5. QED
  BY <1>4 DEF Times!LeastOf

\* What a plan and a zone are made of.
ClocksOf(p) ==
    IF p.kind = "calendar" THEN p.clocks \subseteq Int
    ELSE p.hours \subseteq Nat /\ p.minutes \subseteq Int
Declared ==
    /\ zone.before \in Int /\ zone.after \in Int /\ zone.change \in Int
    /\ ClocksOf(plan)
CalendarInv ==
    /\ Declared
    /\ asked \in Int /\ due \in Int
    /\ due # Times!Never => due > asked

LEMMA FieldsAreInts ==
    ASSUME NEW parts, NEW lo \in Int, NEW hi \in Int
    PROVE  /\ Times!CronField(parts, lo, hi) \subseteq Int
           /\ lo = 0 => Times!CronField(parts, lo, hi) \subseteq Nat
  BY DEF Times!CronField

LEMMA PlansHaveClocks == \A p \in Times!Plans : ClocksOf(p)
<1>1. ASSUME NEW day, NEW clocks \in ClockSets PROVE ClocksOf(Times!Calendar(day, clocks))
  <2>1. clocks \subseteq Int
    BY PartsAssumption DEF ClockSets, Last, DayLength
  <2>2. QED
    BY <2>1 DEF Times!Calendar, ClocksOf
<1>2. ASSUME NEW e PROVE ClocksOf(Times!Cron(e))
  <2>1. HourLength - 1 \in Int /\ Hours - 1 \in Int
    BY PartsAssumption
  <2>2. /\ Times!CronField(e.minutes, 0, HourLength - 1) \subseteq Int
        /\ Times!CronField(e.hours, 0, Hours - 1) \subseteq Nat
    BY <2>1, FieldsAreInts
  <2>3. QED
    BY <2>2 DEF Times!Cron, ClocksOf
<1>3. QED
  BY <1>1, <1>2 DEF Times!Plans

LEMMA ZonesAreInts ==
    \A z \in Zones : z.before \in Int /\ z.after \in Int /\ z.change \in Int
<1>1. {0, HourLength, 2 * HourLength, HourLength + 1, -2 * HourLength, -HourLength} \subseteq Int
  BY PartsAssumption
<1>2. DayLength..2 * DayLength - 1 \subseteq Int /\ DayLength \in Int
  BY PartsAssumption DEF DayLength
<1>3. QED
  BY <1>1, <1>2 DEF Zones

LEMMA PlacesAreInts ==
    ASSUME Declared, NEW date \in Int, NEW c \in Int
    PROVE  Times!Place(date, c) \in Int
<1>1. \A u : Times!OffsetAt(u) \in Int
  BY DEF Times!OffsetAt, Declared
<1>2. date * Times!DayLength \in Int
  <2>1. Times!DayLength \in Int
    BY PartsAssumption DEF Times!DayLength
  <2>2. QED
    BY <2>1
<1>3. date * Times!DayLength + c \in Int
  BY <1>2
<1>4. QED
  BY <1>1, <1>3 DEF Times!Place

\* Next answers a later instant or none.
LEMMA NextIsLater ==
    ASSUME Declared, NEW t \in Int
    PROVE  /\ Times!NextDue(t) \in Int
           /\ Times!NextDue(t) # Times!Never => Times!NextDue(t) > t
<1>1. Times!FirstDate(t) \in Int
  <2>1. Times!OffsetAt(t) \in Int /\ Times!DayLength \in Int /\ Times!DayLength > 0
    <3>1. HourLength \in Nat /\ HourLength > 0 /\ Hours \in Nat /\ Hours > 0
      BY PartsAssumption
    <3>2. QED
      BY <3>1 DEF Times!OffsetAt, Declared, Times!DayLength
  <2>2. QED
    BY <2>1 DEF Times!FirstDate, Times!DateOf
<1>2. PICK first \in Int : first = Times!FirstDate(t)
  BY <1>1
<1> DEFINE times(i) == IF plan.kind = "calendar" THEN Times!CalendarTimes(t, first + i)
                       ELSE Times!CronTimes(t, first + i, i = 0)
           days == {i \in Times!Ahead : Times!DayDue(first + i) /\ times(i) # {}}
<1>3. ASSUME NEW i \in Int PROVE times(i) \subseteq Int /\ \A x \in times(i) : x > t
  <2>1. first + i \in Int
    BY <1>3
  <2>2. CASE plan.kind = "calendar"
    <3>1. \A c \in plan.clocks : Times!Place(first + i, c) \in Int
      BY <2>1, <2>2, PlacesAreInts DEF Declared, ClocksOf
    <3>2. QED
      BY <2>2, <3>1 DEF Times!CalendarTimes
  <2>3. CASE plan.kind # "calendar"
    <3> DEFINE in(h) == {x \in {Times!Place(first + i, h * HourLength + m) :
                                    m \in plan.minutes} : x > t}
               hours == {h \in plan.hours : in(h) # {}}
    <3>1. ASSUME NEW h \in Int PROVE in(h) \subseteq Int
      <4>1. ASSUME NEW m \in plan.minutes PROVE h * HourLength + m \in Int
        <5>1. m \in Int
          BY <2>3 DEF Declared, ClocksOf
        <5>2. h * HourLength \in Int
          BY PartsAssumption
        <5>3. QED
          BY <5>1, <5>2
      <4>2. QED
        BY <2>1, <4>1, PlacesAreInts
    <3>2. \A x \in in(Times!LeastOf(hours)) : x > t
      OBVIOUS
    <3>3. \A x \in UNION {in(h) : h \in hours} : x \in Int /\ x > t
      BY <2>3, <3>1 DEF Declared, ClocksOf
    <3>4. CASE i = 0 \/ hours = {}
      BY <2>3, <3>3, <3>4 DEF Times!CronTimes
    <3>5. CASE ~(i = 0 \/ hours = {})
      <4>1. times(i) = in(Times!LeastOf(hours))
        BY <2>3, <3>5 DEF Times!CronTimes
      <4>2. Times!LeastOf(hours) \in hours
        <5>0. hours \subseteq Nat
          BY <2>3 DEF Declared, ClocksOf
        <5>1. hours \in SUBSET Int /\ hours # {}
          BY <3>5, <5>0
        <5>2. \A x \in hours : x > -1
          BY <5>0
        <5>3. QED
          <6> HIDE DEF hours
          <6>1. QED
            BY <5>1, <5>2, Least, -1 \in Int
      <4>3. QED
        BY <2>3, <3>1, <3>2, <4>1, <4>2 DEF Declared, ClocksOf
    <3>6. QED
      BY <3>4, <3>5
  <2>4. QED
    BY <2>2, <2>3
<1>4. Times!NextDue(t) = IF days = {} THEN Times!Never
                         ELSE Times!LeastOf(times(Times!LeastOf(days)))
  BY <1>2 DEF Times!NextDue
<1>5. CASE days = {}
  BY <1>4, <1>5 DEF Times!Never
<1>6. CASE days # {}
  <2>1. Times!LeastOf(days) \in days
    <3>1. Times!Ahead \subseteq Int /\ \A i \in Times!Ahead : i > -1
      BY DEF Times!Ahead
    <3>2. days \in SUBSET Int /\ \A i \in days : i > -1
      BY <3>1
    <3>3. QED
      <4> HIDE DEF days
      <4>1. QED
        BY <1>6, <3>2, Least, -1 \in Int
  <2>2. PICK i \in days : i = Times!LeastOf(days)
    BY <2>1
  <2>3. i \in Int
    BY DEF Times!Ahead
  <2>4. times(i) \in SUBSET Int /\ times(i) # {} /\ \A x \in times(i) : x > t
    BY <1>3, <2>3
  <2>5. Times!LeastOf(times(i)) \in times(i)
    BY <2>4, Least
  <2>6. QED
    BY <1>4, <1>6, <2>2, <2>4, <2>5
<1>7. QED
  BY <1>5, <1>6

LaterThanAny == \A t \in Int :
    /\ Times!NextDue(t) \in Int
    /\ Times!NextDue(t) # Times!Never => Times!NextDue(t) > t

LEMMA LaterNow == Declared => LaterThanAny
  BY NextIsLater DEF LaterThanAny

CalendarRuns == part = "calendar" => CalendarInv

LEMMA CalendarBegins == Init => CalendarRuns
<1> SUFFICES ASSUME Init, part = "calendar" PROVE CalendarInv
  BY DEF CalendarRuns
<1>1. zone \in Zones /\ plan \in Times!Plans /\ asked = 0 /\ due = Times!Never
  BY DEF Init, Times!Init
<1>2. QED
  BY <1>1, ZonesAreInts, PlansHaveClocks DEF CalendarInv, Declared, Times!Never

LEMMA CalendarHolds == CalendarRuns /\ [Next]_vars => CalendarRuns'
<1>1. ASSUME CalendarInv, Times!Next PROVE CalendarInv'
  <2>1. Declared' /\ LaterThanAny
    BY <1>1, LaterNow
    DEF Times!Next, Times!Declare, Times!Fire, CalendarInv, Declared, ClocksOf
  <2>2. PICK t \in Int : t = asked'
    BY <1>1 DEF Times!Next, Times!Declare, Times!Fire, CalendarInv
  <2>3. due' = Times!NextDue(t)
    BY <1>1, <2>2 DEF Times!Next, Times!Declare, Times!Fire
  <2>4. due' \in Int /\ (due' # Times!Never => due' > t)
    BY <2>1, <2>3 DEF LaterThanAny
  <2>5. QED
    BY <2>1, <2>2, <2>4 DEF CalendarInv, Times!Never
<1>2. ASSUME part = "calendar", Next PROVE Times!Next
  BY <1>2 DEF Next, RenewalStep, FactorStep, ConnectedStep, PoolStep, CacheStep, SavedStep,
     OutboxStep, StripeStep, SchemaStep, PolicyStep, CalendarStep, GeneratedStep,
     MergeStep, DevStep, ModelStep, UploadStep, LifeStep, DecimalStep
<1>3. ASSUME CalendarInv, UNCHANGED calendarVars PROVE CalendarInv'
  BY <1>3 DEF calendarVars, CalendarInv, Declared, ClocksOf
<1>4. UNCHANGED vars => UNCHANGED calendarVars
  BY DEF vars, state, calendarVars
<1>5. QED
  BY <1>1, <1>2, <1>3, <1>4, OnePart DEF CalendarRuns

DueIsLater == part = "calendar" /\ due # Times!Never => due > asked

\* The next time of a calendar and of a cron expression is later than the instant it was
\* asked for, in every zone with any change of its clocks: what JobsSchedule assumes of a
\* schedule (schedule.go:22).
THEOREM SchedulesMoveOn == Spec => []DueIsLater
<1>1. CalendarRuns => DueIsLater
  BY DEF CalendarRuns, CalendarInv, DueIsLater
<1>2. QED
  BY <1>1, CalendarBegins, CalendarHolds, PTL DEF Spec

\* A field's values are those of its unit, and a plan's clocks those of a day.
DayClocks == 0..Times!DayLength - 1
ClocksFit(p) ==
    IF p.kind = "calendar" THEN p.clocks \subseteq DayClocks
    ELSE p.hours \subseteq 0..Hours - 1 /\ p.minutes \subseteq 0..HourLength - 1

LEMMA Lengths ==
    /\ HourLength \in Nat /\ HourLength > 0 /\ Hours \in Nat /\ Hours > 0
    /\ Times!DayLength = HourLength * Hours /\ Times!DayLength \in Nat /\ Times!DayLength > 0
<1>1. HourLength \in Nat /\ HourLength > 0 /\ Hours \in Nat /\ Hours > 0
  BY PartsAssumption
<1>2. QED
  BY <1>1 DEF Times!DayLength

LEMMA Multiples == \A a, b \in Int : \A k \in Nat : a < b => (a + 1) * k <= b * k
<1>1. ASSUME NEW a \in Int, NEW b \in Int, NEW k \in Nat, a < b PROVE (a + 1) * k <= b * k
  <2>1. PICK n \in Nat : b = a + 1 + n
    <3>1. b - (a + 1) \in Nat /\ b = a + 1 + (b - (a + 1))
      BY <1>1
    <3>2. QED
      BY <3>1
  <2>2. b * k = (a + 1) * k + n * k /\ n * k \in Nat
    BY <2>1
  <2>3. QED
    BY <2>2
<1>2. QED
  BY <1>1

LEMMA ClocksOfHours ==
    ASSUME NEW h \in 0..Hours - 1, NEW m \in 0..HourLength - 1
    PROVE  h * HourLength + m \in DayClocks
<1>1. h * HourLength >= 0
  BY Lengths
<1>2. (h + 1) * HourLength <= Hours * HourLength
  BY Lengths, Multiples
<1>3. (h + 1) * HourLength = h * HourLength + HourLength
  BY Lengths
<1>4. QED
  BY <1>1, <1>2, <1>3, Lengths DEF DayClocks

LEMMA PlansFit == \A p \in Times!Plans : ClocksFit(p)
<1>1. ASSUME NEW day, NEW clocks \in ClockSets PROVE ClocksFit(Times!Calendar(day, clocks))
  <2>1. Last \in DayClocks /\ {0, 1, 2, 4, 5} \subseteq DayClocks
    BY Lengths, ClocksAssumption DEF DayClocks, Last, DayLength
  <2>2. clocks \subseteq DayClocks
    BY <2>1 DEF ClockSets
  <2>3. QED
    BY <2>2 DEF Times!Calendar, ClocksFit
<1>2. ASSUME NEW e PROVE ClocksFit(Times!Cron(e))
  <2>1. /\ Times!CronField(e.minutes, 0, HourLength - 1) \subseteq 0..HourLength - 1
        /\ Times!CronField(e.hours, 0, Hours - 1) \subseteq 0..Hours - 1
    BY DEF Times!CronField
  <2>2. QED
    BY <2>1 DEF Times!Cron, ClocksFit
<1>3. QED
  BY <1>1, <1>2 DEF Times!Plans

LEMMA PlanClocksFit == ClocksFit(plan) => Times!PlanClocks \subseteq DayClocks
<1>1. CASE plan.kind = "calendar"
  BY <1>1 DEF ClocksFit, Times!PlanClocks
<1>2. CASE plan.kind # "calendar"
  <2>1. ASSUME ClocksFit(plan), NEW h \in plan.hours, NEW m \in plan.minutes
        PROVE  h * HourLength + m \in DayClocks
    BY <1>2, <2>1, ClocksOfHours DEF ClocksFit
  <2>2. QED
    BY <1>2, <2>1 DEF Times!PlanClocks
<1>3. QED
  BY <1>1, <1>2

\* The times of an expression on a date are places of its clocks; when it leaves some out,
\* those it keeps are all of an hour before them.
LEMMA HoursInTurn ==
    ASSUME Declared, plan.kind # "calendar", NEW t \in Int, NEW date \in Int,
           NEW first \in BOOLEAN
    PROVE  /\ \A y \in Times!CronTimes(t, date, first) :
                  \E h \in plan.hours, m \in plan.minutes :
                      y = Times!Place(date, h * HourLength + m)
           /\ \A h \in plan.hours, m \in plan.minutes :
                  Times!Place(date, h * HourLength + m) > t =>
                      /\ Times!CronTimes(t, date, first) # {}
                      /\ \/ Times!Place(date, h * HourLength + m)
                                \in Times!CronTimes(t, date, first)
                         \/ /\ ~first
                            /\ \E g \in plan.hours :
                                /\ g < h
                                /\ \A y \in Times!CronTimes(t, date, first) :
                                       \E m2 \in plan.minutes :
                                           y = Times!Place(date, g * HourLength + m2)
                                /\ \A m2 \in plan.minutes :
                                       Times!Place(date, g * HourLength + m2) > t =>
                                           Times!Place(date, g * HourLength + m2)
                                               \in Times!CronTimes(t, date, first)
<1> DEFINE in(h) == {x \in {Times!Place(date, h * HourLength + m) : m \in plan.minutes} :
                         x > t}
           hours == {h \in plan.hours : in(h) # {}}
<1>1. Times!CronTimes(t, date, first) =
          IF first \/ hours = {} THEN UNION {in(h) : h \in hours}
          ELSE in(Times!LeastOf(hours))
  BY DEF Times!CronTimes
<1>2. \A h \in plan.hours, m \in plan.minutes :
          Times!Place(date, h * HourLength + m) > t
              => Times!Place(date, h * HourLength + m) \in in(h) /\ h \in hours
  OBVIOUS
<1>3. \A h \in hours : h \in plan.hours /\ in(h) # {}
  OBVIOUS
<1>4. \A h : \A y \in in(h) :
          \E m \in plan.minutes : y = Times!Place(date, h * HourLength + m)
  OBVIOUS
<1>5. hours # {} => Times!LeastOf(hours) \in hours
                    /\ \A h \in hours : Times!LeastOf(hours) <= h
  <2>1. hours \in SUBSET Int /\ \A h \in hours : h > -1
    BY DEF Declared, ClocksOf
  <2>2. -1 \in Int
    OBVIOUS
  <2> HIDE DEF hours
  <2>3. QED
    BY <2>1, <2>2, Least
<1>6. hours \subseteq Int
  BY DEF Declared, ClocksOf
<1> HIDE DEF in, hours
<1>7. CASE first \/ hours = {}
  <2>1. Times!CronTimes(t, date, first) = UNION {in(h) : h \in hours}
    BY <1>1, <1>7
  <2>2. \A y \in Times!CronTimes(t, date, first) : \E h \in hours : y \in in(h)
    BY <2>1
  <2>3. \A h \in hours : in(h) \subseteq Times!CronTimes(t, date, first)
    BY <2>1
  <2>4. QED
    BY <1>2, <1>3, <1>4, <2>2, <2>3
<1>8. CASE ~(first \/ hours = {})
  <2>1. PICK g \in hours : g = Times!LeastOf(hours)
    BY <1>5, <1>8
  <2>2. Times!CronTimes(t, date, first) = in(g) /\ \A h \in hours : g <= h
    BY <1>1, <1>5, <1>8, <2>1
  <2>3. ASSUME NEW h \in hours PROVE h = g \/ g < h
    BY <1>6, <2>2
  <2>4. ASSUME NEW h \in plan.hours, NEW m \in plan.minutes,
               Times!Place(date, h * HourLength + m) > t
        PROVE  /\ Times!CronTimes(t, date, first) # {}
               /\ Times!Place(date, h * HourLength + m) \in in(g) \/ g < h
    BY <1>2, <1>3, <2>1, <2>2, <2>3, <2>4
  <2>5. /\ g \in plan.hours /\ ~first
        /\ \A y \in in(g) : \E m2 \in plan.minutes :
               y = Times!Place(date, g * HourLength + m2)
        /\ \A m2 \in plan.minutes : Times!Place(date, g * HourLength + m2) > t
               => Times!Place(date, g * HourLength + m2) \in in(g)
    BY <1>2, <1>3, <1>4, <1>8
  <2>6. QED
    BY <2>2, <2>4, <2>5
<1>9. QED
  BY <1>7, <1>8

\* No change of the clocks lies within the dates from that of t to d: their wall clocks are
\* those of t's offset.
SameClocks(t, d) == \A k \in Times!FirstDate(t)..d, c \in DayClocks :
    Times!Place(k, c) = k * Times!DayLength + c - Times!OffsetAt(t)

\* u is not after a time of the plan that follows t on such dates.
Meets(t, u) == \A d \in Int, c \in Times!PlanClocks :
    Times!FirstDate(t) <= d /\ SameClocks(t, d) /\ Times!DayDue(d) /\ Times!Place(d, c) > t
        => u <= Times!Place(d, c)

LEMMA FirstDates ==
    ASSUME Declared, NEW t \in Int
    PROVE  Times!FirstDate(t) \in Int /\ Times!OffsetAt(t) \in Int
<1>1. Times!OffsetAt(t) \in Int
  BY DEF Times!OffsetAt, Declared
<1>2. QED
  BY <1>1, Lengths DEF Times!FirstDate, Times!DateOf

\* The times that Next looks at on the date i days after the first.
TimesOn(t, i) ==
    IF plan.kind = "calendar" THEN Times!CalendarTimes(t, Times!FirstDate(t) + i)
    ELSE Times!CronTimes(t, Times!FirstDate(t) + i, i = 0)

LEMMA CronTimesOn ==
    ASSUME plan.kind # "calendar", NEW t \in Int, NEW i \in Int
    PROVE  \E first \in BOOLEAN :
               /\ first <=> i = 0
               /\ TimesOn(t, i) = Times!CronTimes(t, Times!FirstDate(t) + i, first)
<1>1. CASE i = 0
  <2>1. TimesOn(t, i) = Times!CronTimes(t, Times!FirstDate(t) + i, TRUE)
    BY <1>1 DEF TimesOn, Times!CronTimes
  <2>2. QED
    BY <1>1, <2>1
<1>2. CASE i # 0
  <2>1. TimesOn(t, i) = Times!CronTimes(t, Times!FirstDate(t) + i, FALSE)
    BY <1>2 DEF TimesOn, Times!CronTimes
  <2>2. QED
    BY <1>2, <2>1
<1>3. QED
  BY <1>1, <1>2

LEMMA TimesArePlaces ==
    ASSUME Declared, ClocksFit(plan), NEW t \in Int, NEW i \in Int
    PROVE  /\ \A y \in TimesOn(t, i) :
                  \E c \in Times!PlanClocks : y = Times!Place(Times!FirstDate(t) + i, c)
           /\ \A y \in TimesOn(t, i) : y \in Int /\ y > t
           /\ \A c \in Times!PlanClocks :
                  Times!Place(Times!FirstDate(t) + i, c) > t => TimesOn(t, i) # {}
<1>1. PICK date \in Int : date = Times!FirstDate(t) + i
  BY FirstDates
<1>2. CASE plan.kind = "calendar"
  <2>1. TimesOn(t, i) = {x \in {Times!Place(date, c) : c \in plan.clocks} : x > t}
    BY <1>1, <1>2 DEF TimesOn, Times!CalendarTimes
  <2>2. Times!PlanClocks = plan.clocks /\ plan.clocks \subseteq DayClocks
    BY <1>2 DEF ClocksFit, Times!PlanClocks
  <2>3. \A c \in DayClocks : Times!Place(date, c) \in Int
    BY PlacesAreInts, Lengths DEF DayClocks
  <2>4. QED
    BY <1>1, <2>1, <2>2, <2>3
<1>3. CASE plan.kind # "calendar"
  <2>1. PICK first \in BOOLEAN : TimesOn(t, i) = Times!CronTimes(t, date, first)
    BY <1>1, <1>3, CronTimesOn
  <2>2. \A h \in plan.hours, m \in plan.minutes : h * HourLength + m \in DayClocks
    BY <1>3, ClocksOfHours DEF ClocksFit
  <2>3. /\ \A y \in TimesOn(t, i) : \E h \in plan.hours, m \in plan.minutes :
               y = Times!Place(date, h * HourLength + m)
        /\ \A h \in plan.hours, m \in plan.minutes :
               Times!Place(date, h * HourLength + m) > t => TimesOn(t, i) # {}
    BY <1>3, <2>1, HoursInTurn
  <2>4. /\ \A c \in Times!PlanClocks :
               \E h \in plan.hours, m \in plan.minutes : c = h * HourLength + m
        /\ \A h \in plan.hours, m \in plan.minutes : h * HourLength + m \in Times!PlanClocks
    BY <1>3 DEF Times!PlanClocks
  <2>5. \A c \in DayClocks : Times!Place(date, c) \in Int
    BY PlacesAreInts, Lengths DEF DayClocks
  <2>6. \A y \in TimesOn(t, i) : y > t
    BY <2>1 DEF Times!CronTimes
  <2>7. QED
    BY <1>1, <2>2, <2>3, <2>4, <2>5, <2>6
<1>4. QED
  BY <1>2, <1>3

\* What an expression's search leaves out of a date after the first has a later hour than
\* what it keeps, which is all of an hour.
LEMMA LeftOutHours ==
    ASSUME Declared, plan.kind # "calendar", NEW t \in Int, NEW i \in Int,
           NEW h \in plan.hours, NEW m \in plan.minutes,
           Times!Place(Times!FirstDate(t) + i, h * HourLength + m) > t
    PROVE  \/ Times!Place(Times!FirstDate(t) + i, h * HourLength + m) \in TimesOn(t, i)
           \/ /\ i # 0
              /\ \E g \in plan.hours :
                  /\ g < h
                  /\ \A y \in TimesOn(t, i) : \E m2 \in plan.minutes :
                         y = Times!Place(Times!FirstDate(t) + i, g * HourLength + m2)
                  /\ \A m2 \in plan.minutes :
                         Times!Place(Times!FirstDate(t) + i, g * HourLength + m2) > t =>
                             Times!Place(Times!FirstDate(t) + i, g * HourLength + m2)
                                 \in TimesOn(t, i)
<1>1. PICK date \in Int : date = Times!FirstDate(t) + i
  BY FirstDates
<1>2. PICK first \in BOOLEAN :
          (first <=> i = 0) /\ TimesOn(t, i) = Times!CronTimes(t, date, first)
  BY <1>1, CronTimesOn
<1>3. QED
  BY <1>1, <1>2, HoursInTurn

\* What is not among the times of its date comes after them.
LEMMA LeftOutIsLater ==
    ASSUME Declared, ClocksFit(plan), NEW t \in Int, NEW d \in Int,
           Times!FirstDate(t) <= d, SameClocks(t, d),
           NEW c \in Times!PlanClocks, Times!Place(d, c) > t
    PROVE  \/ Times!Place(d, c) \in TimesOn(t, d - Times!FirstDate(t))
           \/ \A y \in TimesOn(t, d - Times!FirstDate(t)) : y < Times!Place(d, c)
<1>1. PICK i \in Int : i = d - Times!FirstDate(t) /\ Times!FirstDate(t) + i = d
  BY FirstDates
<1>2. CASE plan.kind = "calendar"
  <2>1. c \in plan.clocks
    BY <1>2 DEF Times!PlanClocks
  <2>2. QED
    BY <1>1, <1>2, <2>1 DEF TimesOn, Times!CalendarTimes
<1>3. CASE plan.kind # "calendar"
  <2>1. PICK h \in plan.hours, m \in plan.minutes : c = h * HourLength + m
    BY <1>3 DEF Times!PlanClocks
  <2>2. PICK first \in BOOLEAN : TimesOn(t, i) = Times!CronTimes(t, d, first)
    BY <1>1, <1>3, CronTimesOn
  <2>3. CASE Times!Place(d, c) \in TimesOn(t, i)
    BY <1>1, <2>3
  <2>4. ASSUME NEW g \in plan.hours, g < h,
               \A y \in TimesOn(t, i) : \E m2 \in plan.minutes :
                   y = Times!Place(d, g * HourLength + m2),
               NEW y \in TimesOn(t, i)
        PROVE  y < Times!Place(d, c)
    <3>1. PICK m2 \in plan.minutes : y = Times!Place(d, g * HourLength + m2)
      BY <2>4
    <3>2. /\ g \in 0..Hours - 1 /\ h \in 0..Hours - 1
          /\ m \in 0..HourLength - 1 /\ m2 \in 0..HourLength - 1
      BY <1>3 DEF ClocksFit
    <3>3. g * HourLength + m2 \in DayClocks /\ c \in DayClocks
      BY <2>1, <3>2, ClocksOfHours
    <3>4. d \in Times!FirstDate(t)..d
      BY FirstDates
    <3>5. /\ y = d * Times!DayLength + (g * HourLength + m2) - Times!OffsetAt(t)
          /\ Times!Place(d, c) = d * Times!DayLength + c - Times!OffsetAt(t)
      BY <3>1, <3>3, <3>4 DEF SameClocks
    <3>6. (g + 1) * HourLength <= h * HourLength
      BY <2>4, <3>2, Multiples, Lengths
    <3>7. (g + 1) * HourLength = g * HourLength + HourLength
      BY <3>2, Lengths
    <3>8. g * HourLength + m2 < c
      BY <2>1, <3>2, <3>6, <3>7, Lengths
    <3>9. g * HourLength + m2 \in Int /\ c \in Int /\ d * Times!DayLength \in Int
      BY <3>3, Lengths DEF DayClocks
    <3>10. QED
      BY <3>5, <3>8, <3>9, FirstDates
  <2>5. \/ Times!Place(d, c) \in TimesOn(t, i)
        \/ \E g \in plan.hours : g < h /\ \A y \in TimesOn(t, i) :
               \E m2 \in plan.minutes : y = Times!Place(d, g * HourLength + m2)
    BY <1>3, <2>1, <2>2, HoursInTurn
  <2>6. QED
    BY <1>1, <2>3, <2>4, <2>5
<1>4. QED
  BY <1>2, <1>3

LEMMA AheadToADay == \E last \in Int : Times!Ahead = 0..last
<1>1. Week + 1 \in Int /\ MonthLength * Months \in Int /\ Week \in Int
  BY PartsAssumption
<1>2. MonthLength * Months * Week \in Int
  BY <1>1
<1>3. QED
  BY <1>1, <1>2 DEF Times!Ahead

\* The answer is the least of the times kept of the first date that is due and has one.
LEMMA NextTaken ==
    ASSUME Declared, ClocksFit(plan), NEW t \in Int, Times!NextDue(t) # Times!Never
    PROVE  \E i \in Nat :
               /\ Times!DayDue(Times!FirstDate(t) + i)
               /\ Times!NextDue(t) \in TimesOn(t, i)
               /\ \A y \in TimesOn(t, i) : Times!NextDue(t) <= y
               /\ \A j \in Nat : \A c \in Times!PlanClocks :
                      /\ Times!DayDue(Times!FirstDate(t) + j)
                      /\ Times!Place(Times!FirstDate(t) + j, c) > t
                      => i <= j
<1> DEFINE first == Times!FirstDate(t)
           days == {i \in Times!Ahead : Times!DayDue(first + i) /\ TimesOn(t, i) # {}}
<1>1. Times!NextDue(t) = IF days = {} THEN Times!Never
                         ELSE Times!LeastOf(TimesOn(t, Times!LeastOf(days)))
  BY DEF Times!NextDue, TimesOn
<1>2. /\ Times!LeastOf(days) \in days
      /\ \A i \in days : Times!LeastOf(days) <= i
  <2>1. Times!Ahead \subseteq Nat
    BY DEF Times!Ahead
  <2>2. days \in SUBSET Int /\ \A i \in days : i > -1
    <3>1. days \subseteq Times!Ahead
      OBVIOUS
    <3> HIDE DEF days
    <3>2. QED
      BY <2>1, <3>1
  <2>3. days # {}
    BY <1>1
  <2>4. -1 \in Int
    OBVIOUS
  <2> HIDE DEF days
  <2>5. QED
    BY <2>2, <2>3, <2>4, Least
<1>3. PICK i \in days : i = Times!LeastOf(days)
  BY <1>2
<1>4. /\ i \in Nat /\ Times!DayDue(first + i) /\ TimesOn(t, i) # {}
      /\ Times!NextDue(t) = Times!LeastOf(TimesOn(t, i))
  <2>1. i \in Times!Ahead /\ Times!DayDue(first + i) /\ TimesOn(t, i) # {}
    BY <1>3
  <2>2. i \in Nat
    BY <2>1 DEF Times!Ahead
  <2>3. days # {}
    BY <1>3
  <2> HIDE DEF days
  <2>4. QED
    BY <1>1, <1>3, <2>1, <2>2, <2>3
<1>5. /\ Times!NextDue(t) \in TimesOn(t, i)
      /\ \A y \in TimesOn(t, i) : Times!NextDue(t) <= y
  <2>1. TimesOn(t, i) \in SUBSET Int /\ \A y \in TimesOn(t, i) : y > t
    BY <1>4, TimesArePlaces
  <2>2. QED
    BY <1>4, <2>1, Least
<1>6. ASSUME NEW j \in Nat, NEW c \in Times!PlanClocks,
             Times!DayDue(first + j), Times!Place(first + j, c) > t
      PROVE  i <= j
  <2>1. CASE j \in Times!Ahead
    <3>1. j \in days
      BY <1>6, <2>1, TimesArePlaces
    <3>2. QED
      BY <1>2, <1>3, <3>1
  <2>2. CASE j \notin Times!Ahead
    <3>1. PICK last \in Int : Times!Ahead = 0..last
      BY AheadToADay
    <3>2. i \in 0..last /\ j \notin 0..last
      BY <1>3, <2>2, <3>1
    <3>3. QED
      BY <1>4, <3>2
  <2>3. QED
    BY <2>1, <2>2
<1>7. QED
  BY <1>4, <1>5, <1>6

LEMMA NextMeets ==
    ASSUME Declared, ClocksFit(plan), NEW t \in Int, Times!NextDue(t) # Times!Never
    PROVE  Meets(t, Times!NextDue(t))
<1> SUFFICES ASSUME NEW d \in Int, NEW c \in Times!PlanClocks,
                    Times!FirstDate(t) <= d, SameClocks(t, d),
                    Times!DayDue(d), Times!Place(d, c) > t
             PROVE  Times!NextDue(t) <= Times!Place(d, c)
  BY DEF Meets
<1> DEFINE first == Times!FirstDate(t)
<1>1. first \in Int /\ Times!OffsetAt(t) \in Int
  BY FirstDates
<1>2. PICK j \in Nat : j = d - first /\ first + j = d
  BY <1>1
<1>3. PICK i \in Nat :
          /\ Times!NextDue(t) \in TimesOn(t, i)
          /\ \A y \in TimesOn(t, i) : Times!NextDue(t) <= y
          /\ i <= j
  BY <1>2, NextTaken
<1>4. c \in DayClocks
  BY PlanClocksFit
<1>5. d \in first..d /\ first + i \in first..d
  BY <1>1, <1>2, <1>3
<1>6. Times!Place(d, c) = d * Times!DayLength + c - Times!OffsetAt(t)
  BY <1>4, <1>5 DEF SameClocks
<1>7. CASE i = j
  <2>1. \/ Times!Place(d, c) \in TimesOn(t, i)
        \/ \A y \in TimesOn(t, i) : y < Times!Place(d, c)
    BY <1>2, <1>7, LeftOutIsLater
  <2>2. Times!Place(d, c) \in Int /\ Times!NextDue(t) \in Int
    BY <1>3, <1>4, TimesArePlaces, PlacesAreInts, Lengths DEF DayClocks
  <2>3. QED
    BY <1>3, <2>1, <2>2
<1>8. CASE i < j
  <2>1. PICK b \in DayClocks : Times!NextDue(t) = Times!Place(first + i, b)
    BY <1>3, TimesArePlaces, PlanClocksFit
  <2>2. Times!NextDue(t) = (first + i) * Times!DayLength + b - Times!OffsetAt(t)
    BY <1>5, <2>1 DEF SameClocks
  <2>3. (first + i + 1) * Times!DayLength <= d * Times!DayLength
    <3>1. first + i \in Int /\ first + i < d
      BY <1>1, <1>2, <1>8
    <3>2. QED
      BY <3>1, Multiples, Lengths
  <2>4. (first + i + 1) * Times!DayLength
            = (first + i) * Times!DayLength + Times!DayLength
    BY <1>1, Lengths
  <2>5. /\ (first + i) * Times!DayLength \in Int /\ d * Times!DayLength \in Int
        /\ b \in Int /\ b < Times!DayLength /\ c \in Int /\ c >= 0
    BY <1>1, <1>4, Lengths DEF DayClocks
  <2> HIDE DEF first
  <2>6. QED
    BY <1>1, <1>6, <2>2, <2>3, <2>4, <2>5, Lengths
<1>9. QED
  BY <1>2, <1>3, <1>7, <1>8

LEMMA MeetsStays ==
    ASSUME zone' = zone, plan' = plan, NEW t \in Int, t = asked', Meets(t, due')
    PROVE  Meets(asked, due)'
BY DEF Meets, SameClocks, DayClocks, Times!FirstDate, Times!DateOf, Times!OffsetAt,
   Times!Place, Times!PlanClocks, Times!DayDue, Times!Noon, Times!DayOfMonth,
   Times!MonthOf, Times!Weekday, Times!DayLength

PlainDaysMet == part = "calendar" /\ due # Times!Never => Meets(asked, due)

MeetRuns == CalendarRuns /\ PlainDaysMet /\ (part = "calendar" => ClocksFit(plan))

LEMMA MeetHolds == MeetRuns /\ [Next]_vars => MeetRuns'
<1>1. ASSUME CalendarInv, ClocksFit(plan), Times!Next
      PROVE  ClocksFit(plan)' /\ (due # Times!Never => Meets(asked, due))'
  <2>1. zone' = zone /\ plan' = plan
    BY <1>1 DEF Times!Next, Times!Declare, Times!Fire
  <2>2. PICK t \in Int : t = asked'
    BY <1>1 DEF Times!Next, Times!Declare, Times!Fire, CalendarInv
  <2>3. due' = Times!NextDue(t)
    BY <1>1, <2>2 DEF Times!Next, Times!Declare, Times!Fire
  <2>4. due' # Times!Never => Meets(t, due')
    BY <1>1, <2>3, NextMeets DEF CalendarInv
  <2>5. ClocksFit(plan)'
    BY <1>1, <2>1 DEF ClocksFit, DayClocks, Times!DayLength
  <2>6. (due # Times!Never)' <=> due' # Times!Never
    BY DEF Times!Never
  <2>7. QED
    BY <2>1, <2>2, <2>4, <2>5, <2>6, MeetsStays
<1>2. ASSUME part = "calendar", Next PROVE Times!Next
  BY <1>2 DEF Next, RenewalStep, FactorStep, ConnectedStep, PoolStep, CacheStep, SavedStep,
     OutboxStep, StripeStep, SchemaStep, PolicyStep, CalendarStep, GeneratedStep,
     MergeStep, DevStep, ModelStep, UploadStep, LifeStep, DecimalStep
<1>3. ASSUME CalendarInv, ClocksFit(plan), due # Times!Never => Meets(asked, due),
             UNCHANGED calendarVars
      PROVE  ClocksFit(plan)' /\ (due # Times!Never => Meets(asked, due))'
  <2>1. zone' = zone /\ plan' = plan /\ asked' = asked /\ due' = due
    BY <1>3 DEF calendarVars
  <2>2. PICK t \in Int : t = asked'
    BY <1>3, <2>1 DEF CalendarInv
  <2>3. due' # Times!Never => Meets(t, due')
    BY <1>3, <2>1, <2>2
  <2>4. ClocksFit(plan)'
    BY <1>3, <2>1 DEF ClocksFit, DayClocks, Times!DayLength
  <2>5. (due # Times!Never)' <=> due' # Times!Never
    BY DEF Times!Never
  <2>6. QED
    BY <2>1, <2>2, <2>3, <2>4, <2>5, MeetsStays
<1>4. UNCHANGED vars => UNCHANGED calendarVars
  BY DEF vars, state, calendarVars
<1>5. QED
  BY <1>1, <1>2, <1>3, <1>4, CalendarHolds, OnePart DEF MeetRuns, CalendarRuns, PlainDaysMet

LEMMA MeetBegins == Init => MeetRuns
<1>1. Init /\ part = "calendar" => plan \in Times!Plans /\ due = Times!Never
  BY DEF Init, Times!Init
<1>2. QED
  BY <1>1, CalendarBegins, PlansFit DEF MeetRuns, PlainDaysMet

\* No time of a plan is passed over, on whatever date, as long as no change of the clocks
\* lies within the dates up to it: for a tick late by any time, a calendar's or an
\* expression's, which stops at the first hour that has a time (cron.Next, cron.go:202).
THEOREM PlainDaysMeet == Spec => []PlainDaysMet
<1>1. Init => MeetRuns
  BY MeetBegins
<1>2. MeetRuns => PlainDaysMet
  BY DEF MeetRuns
<1>3. QED
  BY <1>1, <1>2, MeetHolds, PTL DEF Spec

\* The dates after a change of the clocks, and those before it, are such dates.
LEMMA DatesAwayFromChange ==
    ASSUME Declared, NEW t \in Int, NEW d \in Int,
           \/ /\ t >= zone.change
              /\ Times!FirstDate(t) * Times!DayLength >= zone.change
              /\ Times!FirstDate(t) * Times!DayLength >= zone.change + zone.after
           \/ /\ t < zone.change
              /\ (d + 1) * Times!DayLength <= zone.change
              /\ (d + 1) * Times!DayLength <= zone.change + zone.before
    PROVE  SameClocks(t, d)
<1> SUFFICES ASSUME NEW k \in Times!FirstDate(t)..d, NEW c \in DayClocks
             PROVE  Times!Place(k, c) = k * Times!DayLength + c - Times!OffsetAt(t)
  BY DEF SameClocks
<1>1. PICK wall \in Int :
          /\ wall = k * Times!DayLength + c
          /\ \A o \in Int : wall - o = k * Times!DayLength + c - o
  <2>1. k \in Int /\ c \in Int
    BY FirstDates, Lengths DEF DayClocks
  <2>2. k * Times!DayLength \in Int
    BY <2>1, Lengths
  <2>3. QED
    BY <2>1, <2>2
<1>2. \/ /\ t >= zone.change
         /\ wall >= zone.change /\ wall - zone.after >= zone.change
      \/ /\ t < zone.change
         /\ wall < zone.change /\ wall - zone.before < zone.change
  <2>1. /\ Times!FirstDate(t) \in Int /\ k \in Int /\ Times!FirstDate(t) <= k /\ k <= d
        /\ c \in Int /\ 0 <= c /\ c < Times!DayLength
    BY FirstDates, Lengths DEF DayClocks
  <2>2. Times!FirstDate(t) * Times!DayLength <= k * Times!DayLength
    <3>1. CASE Times!FirstDate(t) = k
      BY <2>1, <3>1, Lengths
    <3>2. CASE Times!FirstDate(t) < k
      <4>1. (Times!FirstDate(t) + 1) * Times!DayLength <= k * Times!DayLength
        BY <2>1, <3>2, Multiples, Lengths
      <4>2. (Times!FirstDate(t) + 1) * Times!DayLength
                = Times!FirstDate(t) * Times!DayLength + Times!DayLength
        BY <2>1, Lengths
      <4>3. Times!FirstDate(t) * Times!DayLength \in Int /\ k * Times!DayLength \in Int
        BY <2>1, Lengths
      <4>4. QED
        BY <4>1, <4>2, <4>3, Lengths
    <3>3. QED
      BY <2>1, <3>1, <3>2
  <2>3. (k + 1) * Times!DayLength <= (d + 1) * Times!DayLength
    <3>1. k < d + 1 /\ d + 1 \in Int
      BY <2>1
    <3>2. QED
      BY <2>1, <3>1, Multiples, Lengths
  <2>4. (k + 1) * Times!DayLength = k * Times!DayLength + Times!DayLength
    BY <2>1, Lengths
  <2>5. /\ Times!FirstDate(t) * Times!DayLength \in Int /\ k * Times!DayLength \in Int
        /\ (d + 1) * Times!DayLength \in Int
        /\ zone.change \in Int /\ zone.after \in Int /\ zone.before \in Int
    BY <2>1, Lengths DEF Declared
  <2>6. QED
    BY <1>1, <2>1, <2>2, <2>3, <2>4, <2>5, Lengths
<1>3. (wall < zone.change) = (wall - Times!OffsetAt(wall) < zone.change)
          => Times!Place(k, c) = wall - Times!OffsetAt(wall)
  BY <1>1 DEF Times!Place
<1>4. CASE t >= zone.change /\ wall >= zone.change /\ wall - zone.after >= zone.change
  <2>1. Times!OffsetAt(t) = zone.after /\ Times!OffsetAt(wall) = zone.after
    BY <1>4 DEF Times!OffsetAt, Declared
  <2>2. ~(wall < zone.change) /\ ~(wall - zone.after < zone.change)
    BY <1>4 DEF Declared
  <2>3. (wall < zone.change) = (wall - Times!OffsetAt(wall) < zone.change)
    BY <2>1, <2>2
  <2>4. Times!Place(k, c) = wall - Times!OffsetAt(wall)
    BY <1>3, <2>3
  <2>5. QED
    BY <1>1, <2>1, <2>4, FirstDates
<1>5. CASE t < zone.change /\ wall < zone.change /\ wall - zone.before < zone.change
  <2>1. Times!OffsetAt(t) = zone.before /\ Times!OffsetAt(wall) = zone.before
    BY <1>5 DEF Times!OffsetAt
  <2>2. (wall < zone.change) = (wall - Times!OffsetAt(wall) < zone.change)
    BY <1>5, <2>1
  <2>3. Times!Place(k, c) = wall - Times!OffsetAt(wall)
    BY <1>3, <2>2
  <2>4. QED
    BY <1>1, <2>1, <2>3, FirstDates
<1>6. QED
  BY <1>2, <1>4, <1>5

\* Of clocks that never change every date is such a date, and a time after t is on a date
\* from t's on.
LEMMA LastBefore ==
    ASSUME NEW n \in Int, NEW d \in Int, n < (d + 1) * Times!DayLength
    PROVE  n \div Times!DayLength <= d
<1>1. PICK k \in Nat : k = Times!DayLength /\ k > 0
  BY Lengths
<1>2. PICK q \in Int : q = n \div k /\ q * k <= n
  BY <1>1
<1>3. CASE d < q
  <2>1. (d + 1) * k <= q * k
    BY <1>1, <1>3, Multiples
  <2>2. (d + 1) * k \in Int /\ q * k \in Int
    BY <1>1
  <2>3. QED
    BY <1>1, <1>2, <2>1, <2>2
<1>4. QED
  BY <1>1, <1>2, <1>3

LEMMA UnchangedPlaces ==
    ASSUME Declared, zone.before = zone.after, NEW t \in Int, NEW d \in Int, NEW c \in DayClocks
    PROVE  /\ Times!Place(d, c) = d * Times!DayLength + c - Times!OffsetAt(t)
           /\ Times!Place(d, c) > t => Times!FirstDate(t) <= d
<1>1. PICK o \in Int : \A u : Times!OffsetAt(u) = o
  BY DEF Times!OffsetAt, Declared
<1>2. Times!Place(d, c) = d * Times!DayLength + c - o
  <2>1. PICK wall \in Int : wall = d * Times!DayLength + c /\ wall - o = d * Times!DayLength + c - o
    <3>1. d * Times!DayLength \in Int /\ c \in Int
      BY Lengths DEF DayClocks
    <3>2. QED
      BY <3>1
  <2>2. Times!Place(d, c) = wall - o
    BY <1>1, <2>1 DEF Times!Place
  <2>3. QED
    BY <2>1, <2>2
<1>3. ASSUME Times!Place(d, c) > t PROVE Times!FirstDate(t) <= d
  <2>1. c \in Int /\ c < Times!DayLength /\ d * Times!DayLength \in Int
    BY Lengths DEF DayClocks
  <2>2. (d + 1) * Times!DayLength = d * Times!DayLength + Times!DayLength
    BY Lengths
  <2>3. t + o < (d + 1) * Times!DayLength /\ t + o \in Int
    BY <1>2, <1>3, <2>1, <2>2, Lengths
  <2>4. QED
    BY <1>1, <2>3, LastBefore DEF Times!FirstDate, Times!DateOf
<1>4. QED
  BY <1>1, <1>2, <1>3

LEMMA UnchangedMeets ==
    ASSUME Declared, ClocksFit(plan), zone.before = zone.after, asked \in Int, Meets(asked, due)
    PROVE  Times!FirstDue
<1>1. PICK t \in Int : t = asked
  OBVIOUS
<1>2. ASSUME NEW p \in Times!Planned, Times!Place(p.date, p.clock) > asked
      PROVE  due <= Times!Place(p.date, p.clock)
  <2>1. PICK d \in Int : d = p.date /\ Times!DayDue(d)
    BY DEF Times!Planned
  <2>2. PICK c \in Times!PlanClocks : c = p.clock
    BY DEF Times!Planned
  <2>3. c \in DayClocks
    BY PlanClocksFit
  <2>4. Times!FirstDate(t) <= d
    BY <1>1, <1>2, <2>1, <2>2, <2>3, UnchangedPlaces
  <2>5. SameClocks(t, d)
    <3>1. ASSUME NEW k \in Times!FirstDate(t)..d, NEW b \in DayClocks
          PROVE  Times!Place(k, b) = k * Times!DayLength + b - Times!OffsetAt(t)
      <4>1. k \in Int
        OBVIOUS
      <4>2. QED
        BY <4>1, UnchangedPlaces
    <3>2. QED
      BY <3>1 DEF SameClocks
  <2>6. QED
    BY <1>1, <1>2, <2>1, <2>2, <2>4, <2>5 DEF Meets
<1>3. QED
  BY <1>2 DEF Times!FirstDue

\* In UTC, which a schedule without a zone is read in (schedule.go:91), and wherever clocks
\* do not change, the answer is the first time of the plan after the instant asked about:
\* none is passed over, however late the tick.
THEOREM UnchangedClocksMeet ==
    Spec => [](part = "calendar" /\ due # Times!Never /\ zone.before = zone.after
                   => Times!FirstDue)
<1>1. MeetRuns => (part = "calendar" /\ due # Times!Never /\ zone.before = zone.after
                       => Times!FirstDue)
  BY UnchangedMeets DEF MeetRuns, CalendarRuns, CalendarInv, PlainDaysMet
<1>2. Init => MeetRuns
  BY MeetBegins
<1>3. QED
  BY <1>1, <1>2, MeetHolds, PTL DEF Spec

\* What the zones have: both offsets on one side of Greenwich, a jump of an hour at most,
\* and a change on the second day or later.
ZoneFits(z) ==
    /\ z.before \in Int /\ z.after \in Int /\ z.change \in Int
    /\ \/ z.before >= 0 /\ z.after >= 0
       \/ z.before <= 0 /\ z.after <= 0
    /\ z.after - z.before <= HourLength /\ z.before - z.after <= HourLength
    /\ z.before >= -Times!DayLength /\ z.after >= -Times!DayLength
    /\ z.change >= Times!DayLength

LEMMA OneHour == HourLength <= Times!DayLength /\ 2 * HourLength <= Times!DayLength
<1>1. HourLength \in Nat /\ Hours \in Nat /\ Hours >= 2
  BY PartsAssumption, ClocksAssumption
<1>2. PICK k \in Nat : Hours = k + 2
  <2>1. Hours - 2 \in Nat /\ Hours = (Hours - 2) + 2
    BY <1>1
  <2>2. QED
    BY <2>1
<1>3. HourLength * Hours = HourLength * k + 2 * HourLength /\ HourLength * k \in Nat
  BY <1>1, <1>2
<1>4. QED
  BY <1>1, <1>3, Lengths

LEMMA ZonesFit == \A z \in Zones : ZoneFits(z)
<1>1. HourLength \in Nat /\ HourLength > 0 /\ Times!DayLength \in Nat
      /\ Times!DayLength >= 2 * HourLength /\ DayLength = Times!DayLength
  BY OneHour, Lengths DEF DayLength
<1>2. \A u \in DayLength..2 * DayLength - 1 : u \in Int /\ u >= Times!DayLength
  BY <1>1
<1>3. QED
  BY <1>1, <1>2 DEF Zones, ZoneFits

\* The instant of a wall clock: the later offset from one wall clock on.
Turn == zone.change + (IF zone.before >= 0 /\ zone.after >= 0 THEN zone.after ELSE zone.before)
Instant(w) == IF w < Turn THEN w - zone.before ELSE w - zone.after

LEMMA Placed ==
    ASSUME ZoneFits(zone), NEW d \in Int, NEW c \in Int
    PROVE  /\ d * Times!DayLength + c \in Int
           /\ Times!Place(d, c) = Instant(d * Times!DayLength + c)
<1>1. PICK w \in Int : w = d * Times!DayLength + c
  BY Lengths
<1>2. PICK b \in Int, a \in Int, x \in Int : b = zone.before /\ a = zone.after /\ x = zone.change
  BY DEF ZoneFits
<1>3. (b >= 0 /\ a >= 0) \/ (b <= 0 /\ a <= 0)
  BY <1>2 DEF ZoneFits
<1> DEFINE off(u) == IF u < x THEN b ELSE a
<1>4. Times!Place(d, c) = IF (w < x) = (w - off(w) < x) THEN w - off(w)
                          ELSE w - off(w - off(w))
  BY <1>1, <1>2 DEF Times!Place, Times!OffsetAt
<1>5. Instant(w) = IF w < x + (IF b >= 0 /\ a >= 0 THEN a ELSE b) THEN w - b ELSE w - a
  BY <1>2 DEF Instant, Turn
<1>6. CASE w < x
  <2>1. off(w) = b
    BY <1>6
  <2>2. CASE w - b < x
    BY <1>1, <1>3, <1>4, <1>5, <1>6, <2>1, <2>2
  <2>3. CASE ~(w - b < x)
    BY <1>1, <1>3, <1>4, <1>5, <1>6, <2>1, <2>3
  <2>4. QED
    BY <2>2, <2>3
<1>7. CASE ~(w < x)
  <2>1. off(w) = a
    BY <1>7
  <2>2. CASE w - a < x
    BY <1>1, <1>3, <1>4, <1>5, <1>7, <2>1, <2>2
  <2>3. CASE ~(w - a < x)
    BY <1>1, <1>3, <1>4, <1>5, <1>7, <2>1, <2>3
  <2>4. QED
    BY <2>2, <2>3
<1>8. QED
  BY <1>6, <1>7

LEMMA InstantsInOrder ==
    ASSUME ZoneFits(zone), NEW v \in Int, NEW w \in Int
    PROVE  /\ Instant(v) \in Int
           /\ v <= w /\ zone.after <= zone.before => Instant(v) <= Instant(w)
           /\ v + HourLength <= w => Instant(v) <= Instant(w)
<1>1. PICK b \in Int, a \in Int, x \in Int, l \in Nat :
          b = zone.before /\ a = zone.after /\ x = zone.change /\ l = HourLength
  BY Lengths DEF ZoneFits
<1>2. PICK y \in Int : y = Turn
  BY <1>1 DEF Turn
<1>3. a - b <= l /\ b - a <= l
  BY <1>1 DEF ZoneFits
<1>4. \A u : Instant(u) = IF u < y THEN u - b ELSE u - a
  BY <1>1, <1>2 DEF Instant
<1>5. QED
  BY <1>1, <1>3, <1>4

\* Dates follow instants, where an instant is asked about and a time comes after it: the
\* passes of a repeated hour have neither on the wrong side of midnight.
Reached(u) == u = 0 \/ \E w \in Int : u \in {Instant(w), Instant(w) + 1}

LEMMA DivInOrder ==
    ASSUME NEW m \in Int, NEW n \in Int, m <= n
    PROVE  m \div Times!DayLength <= n \div Times!DayLength
<1>1. PICK k \in Nat : k = Times!DayLength /\ k > 0
  BY Lengths
<1>2. PICK q \in Int : q = n \div k /\ n < (q + 1) * k
  <2>1. n \div k \in Int /\ n < (n \div k + 1) * k
    BY <1>1
  <2>2. QED
    BY <2>1
<1>3. m < (q + 1) * k
  <2>1. (q + 1) * k \in Int
    BY <1>1
  <2>2. QED
    BY <1>2, <2>1
<1>4. QED
  BY <1>1, <1>2, <1>3, LastBefore

LEMMA DatesForward ==
    ASSUME ZoneFits(zone), zone.before <= zone.after, NEW u \in Int, NEW x \in Int, u <= x
    PROVE  Times!DateOf(u) <= Times!DateOf(x)
<1>1. /\ u + Times!OffsetAt(u) \in Int /\ x + Times!OffsetAt(x) \in Int
      /\ u + Times!OffsetAt(u) <= x + Times!OffsetAt(x)
  BY DEF ZoneFits, Times!OffsetAt
<1>2. QED
  BY <1>1, DivInOrder DEF Times!DateOf

LEMMA DatesInOrder ==
    ASSUME ZoneFits(zone), NEW u \in Int, Reached(u), NEW w \in Int, u <= Instant(w)
    PROVE  Times!DateOf(u) <= Times!DateOf(Instant(w))
<1>1. PICK b \in Int, a \in Int, x \in Int : b = zone.before /\ a = zone.after /\ x = zone.change
  BY DEF ZoneFits
<1>2. /\ (b >= 0 /\ a >= 0) \/ (b <= 0 /\ a <= 0)
      /\ x >= b - a
  <2>1. HourLength <= Times!DayLength
    BY OneHour
  <2>2. QED
    BY <1>1, <2>1, Lengths DEF ZoneFits
<1>3. PICK y \in Int : y = Instant(w)
  BY InstantsInOrder
<1> DEFINE off(i) == IF i < x THEN b ELSE a
           inst(v) == IF v < x + (IF b >= 0 /\ a >= 0 THEN a ELSE b) THEN v - b ELSE v - a
<1>4. \A v : Instant(v) = inst(v)
  BY <1>1 DEF Instant, Turn
<1>5. \A i : Times!OffsetAt(i) = off(i)
  BY <1>1 DEF Times!OffsetAt
<1>6. u + off(u) <= y + off(y)
  <2>1. CASE u = 0
    BY <1>2, <1>3, <1>4, <2>1
  <2>2. ASSUME NEW v \in Int, u = inst(v) \/ u = inst(v) + 1 PROVE u + off(u) <= y + off(y)
    BY <1>2, <1>3, <1>4, <2>2
  <2>3. QED
    BY <1>4, <2>1, <2>2 DEF Reached
<1>7. u + off(u) \in Int /\ y + off(y) \in Int
  OBVIOUS
<1>8. QED
  BY <1>3, <1>5, <1>6, <1>7, DivInOrder DEF Times!DateOf

\* The instants asked about and the answers, as the machine goes on.
IsTime(u) == \E d \in Int : \E c \in DayClocks : u = Times!Place(d, c)
FollowsTime(u) == u = 0 \/ IsTime(u) \/ IsTime(u - 1)
NoneBetween(t, u) == Times!TimesKeepDates => \A p \in Times!Planned :
    Times!Place(p.date, p.clock) > t => u <= Times!Place(p.date, p.clock)

LEMMA TimesAreReached ==
    ASSUME ZoneFits(zone), NEW u \in Int, FollowsTime(u)
    PROVE  Reached(u)
<1>1. CASE u = 0
  BY <1>1 DEF Reached
<1>2. CASE IsTime(u)
  <2>1. PICK d \in Int, c \in DayClocks : u = Times!Place(d, c)
    BY <1>2 DEF IsTime
  <2>2. QED
    BY <2>1, Placed, Lengths DEF Reached, DayClocks
<1>3. CASE IsTime(u - 1)
  <2>1. PICK d \in Int, c \in DayClocks : u - 1 = Times!Place(d, c)
    BY <1>3 DEF IsTime
  <2>2. PICK w \in Int : u - 1 = Instant(w)
    BY <2>1, Placed, Lengths DEF DayClocks
  <2>3. u = Instant(w) + 1
    BY <2>2, InstantsInOrder
  <2>4. QED
    BY <2>3 DEF Reached
<1>4. QED
  BY <1>1, <1>2, <1>3 DEF FollowsTime

LEMMA NextIsTime ==
    ASSUME Declared, ClocksFit(plan), NEW t \in Int, Times!NextDue(t) # Times!Never
    PROVE  IsTime(Times!NextDue(t))
<1>1. PICK i \in Nat : Times!NextDue(t) \in TimesOn(t, i)
  BY NextTaken
<1>2. PICK c \in Times!PlanClocks : Times!NextDue(t) = Times!Place(Times!FirstDate(t) + i, c)
  BY <1>1, TimesArePlaces
<1>3. c \in DayClocks /\ Times!FirstDate(t) + i \in Int
  BY PlanClocksFit, FirstDates
<1>4. QED
  BY <1>2, <1>3 DEF IsTime

\* The dates that TimesKeepDates speaks of reach back to that of the first instant.
LEMMA FirstDateIsPlanned ==
    ASSUME ZoneFits(zone), NEW t \in Int, t >= 0
    PROVE  Times!FirstDate(t) >= (0 \div Times!DayLength) - 1
<1>1. PICK k \in Nat : k = Times!DayLength /\ k > 0
  BY Lengths
<1>2. Times!OffsetAt(t) \in Int /\ -k <= t + Times!OffsetAt(t)
  BY <1>1 DEF ZoneFits, Times!OffsetAt
<1>3. (-k) \div k <= (t + Times!OffsetAt(t)) \div k
  BY <1>1, <1>2, DivInOrder
<1>4. (-k) \div k = -1 /\ 0 \div k = 0
  BY <1>1
<1>5. QED
  BY <1>1, <1>3, <1>4 DEF Times!FirstDate, Times!DateOf

\* Of the hours of a date a time left out follows the least that is kept.
LEMMA KeptBeforeLeft ==
    ASSUME Declared, ZoneFits(zone), ClocksFit(plan), plan.kind # "calendar",
           NEW t \in Int, NEW i \in Nat, NEW u \in TimesOn(t, i),
           \A y \in TimesOn(t, i) : u <= y,
           NEW c \in Times!PlanClocks, Times!Place(Times!FirstDate(t) + i, c) > t,
           \A b \in Times!PlanClocks :
               Times!DateOf(Times!Place(Times!FirstDate(t) + i, b)) = Times!FirstDate(t) + i
    PROVE  u <= Times!Place(Times!FirstDate(t) + i, c)
<1>1. PICK d \in Int : d = Times!FirstDate(t) + i
  BY FirstDates
<1>2. PICK h \in plan.hours, m \in plan.minutes : c = h * HourLength + m
  BY DEF Times!PlanClocks
<1>3. CASE Times!Place(d, c) \in TimesOn(t, i)
  BY <1>1, <1>3
<1>4. CASE Times!Place(d, c) \notin TimesOn(t, i)
  <2>1. PICK g \in plan.hours :
            /\ i # 0 /\ g < h
            /\ \A y \in TimesOn(t, i) : \E m2 \in plan.minutes :
                   y = Times!Place(d, g * HourLength + m2)
            /\ \A m2 \in plan.minutes : Times!Place(d, g * HourLength + m2) > t =>
                   Times!Place(d, g * HourLength + m2) \in TimesOn(t, i)
    BY <1>1, <1>2, <1>4, LeftOutHours
  <2>2. g \in Nat /\ h \in Nat /\ m \in Nat /\ \A n \in plan.minutes : n \in 0..HourLength - 1
    BY DEF ClocksFit
  <2>3. \A n \in plan.minutes :
            /\ g * HourLength + n \in Int
            /\ g * HourLength + n < c
            /\ g * HourLength + n \in Times!PlanClocks
    <3>1. (g + 1) * HourLength <= h * HourLength
      BY <2>1, <2>2, Multiples, Lengths
    <3>2. (g + 1) * HourLength = g * HourLength + HourLength
          /\ g * HourLength \in Int /\ h * HourLength \in Int
      BY <2>2, Lengths
    <3>3. \A n \in plan.minutes : g * HourLength + n \in Times!PlanClocks
      BY DEF Times!PlanClocks
    <3>4. QED
      BY <1>2, <2>2, <3>1, <3>2, <3>3, Lengths
  <2>4. g * HourLength + m + HourLength <= c /\ c \in Int
    <3>1. (g + 1) * HourLength <= h * HourLength
      BY <2>1, <2>2, Multiples, Lengths
    <3>2. (g + 1) * HourLength = g * HourLength + HourLength
          /\ g * HourLength \in Int /\ h * HourLength \in Int
      BY <2>2, Lengths
    <3>3. QED
      BY <1>2, <2>2, <3>1, <3>2, Lengths
  <2>5. PICK base \in Int : base = d * Times!DayLength
    BY Lengths
  <2>6. /\ Times!Place(d, c) = Instant(base + c)
        /\ \A n \in plan.minutes :
               Times!Place(d, g * HourLength + n) = Instant(base + (g * HourLength + n))
    BY <2>3, <2>4, <2>5, Placed
  <2>7. CASE Times!Place(d, g * HourLength + m) > t
    <3>1. u <= Times!Place(d, g * HourLength + m)
      BY <2>1, <2>7
    <3>2. base + (g * HourLength + m) + HourLength <= base + c
      BY <2>3, <2>4, Lengths
    <3>3. Instant(base + (g * HourLength + m)) <= Instant(base + c)
      BY <2>3, <2>4, <3>2, InstantsInOrder
    <3>4. u \in Int /\ Instant(base + (g * HourLength + m)) \in Int /\ Instant(base + c) \in Int
      BY <2>3, <2>4, InstantsInOrder, TimesArePlaces
    <3>5. QED
      BY <1>1, <2>6, <3>1, <3>3, <3>4
  <2>8. CASE ~(Times!Place(d, g * HourLength + m) > t) /\ zone.after <= zone.before
    <3>1. PICK n \in plan.minutes : u = Times!Place(d, g * HourLength + n)
      BY <2>1
    <3>2. base + (g * HourLength + n) <= base + c
      BY <2>3, <2>4
    <3>3. Instant(base + (g * HourLength + n)) <= Instant(base + c)
      BY <2>3, <2>4, <2>8, <3>2, InstantsInOrder
    <3>4. QED
      BY <1>1, <2>6, <3>1, <3>3
  <2>9. CASE ~(Times!Place(d, g * HourLength + m) > t) /\ ~(zone.after <= zone.before)
    <3>1. PICK z \in Int : z = Times!Place(d, g * HourLength + m)
      BY <2>3, <2>6, InstantsInOrder
    <3>2. zone.before <= zone.after /\ z <= t
      BY <2>9, <3>1 DEF ZoneFits
    <3>3. Times!DateOf(z) <= Times!DateOf(t)
      BY <3>1, <3>2, DatesForward
    <3>4. Times!DateOf(z) = d
      BY <1>1, <2>3, <3>1
    <3>5. QED
      BY <1>1, <2>1, <3>3, <3>4, FirstDates DEF Times!FirstDate
  <2>10. QED
    BY <2>7, <2>8, <2>9
<1>5. QED
  BY <1>3, <1>4

LEMMA NextIsFirst ==
    ASSUME Declared, ZoneFits(zone), ClocksFit(plan), NEW t \in Int, t >= 0, FollowsTime(t),
           Times!NextDue(t) # Times!Never
    PROVE  NoneBetween(t, Times!NextDue(t))
<1> SUFFICES ASSUME Times!TimesKeepDates, NEW p \in Times!Planned,
                    Times!Place(p.date, p.clock) > t
             PROVE  Times!NextDue(t) <= Times!Place(p.date, p.clock)
  BY DEF NoneBetween
<1> DEFINE low == (0 \div Times!DayLength) - 1
           high == (LastInstant \div Times!DayLength) + 1
<1>1. \A q : q \in Times!Planned <=>
          q \in [date : {d \in low..high : Times!DayDue(d)}, clock : Times!PlanClocks]
  BY DEF Times!Planned
<1>2. PICK d \in low..high, c \in Times!PlanClocks :
          d = p.date /\ c = p.clock /\ Times!DayDue(d)
  BY <1>1
<1>3. \A e \in low..high, b \in Times!PlanClocks :
          Times!DayDue(e) => Times!DateOf(Times!Place(e, b)) = e
  <2>1. ASSUME NEW e \in low..high, NEW b \in Times!PlanClocks, Times!DayDue(e)
        PROVE  Times!DateOf(Times!Place(e, b)) = e
    <3>1. [date |-> e, clock |-> b] \in Times!Planned
      BY <1>1, <2>1
    <3>2. QED
      BY <3>1 DEF Times!TimesKeepDates
  <2>2. QED
    BY <2>1
<1>4. PICK first \in Int : first = Times!FirstDate(t)
  BY FirstDates
<1>5. c \in DayClocks /\ c \in Int /\ d \in Int
  BY PlanClocksFit, Lengths DEF DayClocks
<1>6. PICK w \in Int : Times!Place(d, c) = Instant(w)
  BY <1>5, Placed
<1>7. PICK x \in Int : x = Times!Place(d, c)
  BY <1>6, InstantsInOrder
<1>8. first <= d
  <2>1. t <= Instant(w)
    BY <1>2, <1>6, <1>7
  <2>2. Times!DateOf(t) <= Times!DateOf(Instant(w))
    BY <2>1, TimesAreReached, DatesInOrder
  <2>3. QED
    BY <1>2, <1>3, <1>4, <1>6, <2>2 DEF Times!FirstDate
<1>9. PICK j \in Nat : first + j = d
  <2>1. d - first \in Nat /\ first + (d - first) = d
    BY <1>4, <1>5, <1>8
  <2>2. QED
    BY <2>1
<1>10. PICK i \in Nat :
           /\ Times!DayDue(first + i)
           /\ Times!NextDue(t) \in TimesOn(t, i)
           /\ \A y \in TimesOn(t, i) : Times!NextDue(t) <= y
           /\ i <= j
  BY <1>2, <1>4, <1>9, NextTaken
<1>11. PICK b \in Times!PlanClocks : Times!NextDue(t) = Times!Place(first + i, b)
  BY <1>4, <1>10, TimesArePlaces
<1>12. b \in DayClocks /\ b \in Int
  BY PlanClocksFit, Lengths DEF DayClocks
<1>13. PICK v \in Int : Times!NextDue(t) = Instant(v)
  BY <1>11, <1>12, Placed
<1>14. CASE i < j
  <2>1. first + i \in low..high /\ first + i < d
    <3>1. low <= first
      BY <1>4, FirstDateIsPlanned
    <3>2. low \in Int /\ high \in Int /\ d <= high
      <4>1. PICK k \in Nat : k = Times!DayLength /\ k > 0
        BY Lengths
      <4>2. LastInstant \div k \in Int /\ 0 \div k \in Int
        BY <4>1, ClocksAssumption
      <4>3. QED
        BY <1>2, <4>1, <4>2
    <3> HIDE DEF low, high
    <3>3. QED
      BY <1>4, <1>5, <1>9, <1>14, <3>1, <3>2
  <2>2. Times!DateOf(Instant(v)) = first + i
    BY <1>3, <1>10, <1>11, <1>13, <2>1
  <2>3. Times!DateOf(x) = d
    BY <1>2, <1>3, <1>7
  <2>4. CASE x <= Instant(v)
    <3>1. FollowsTime(x)
      BY <1>5, <1>7 DEF FollowsTime, IsTime
    <3>2. Times!DateOf(x) <= Times!DateOf(Instant(v))
      BY <2>4, <3>1, TimesAreReached, DatesInOrder
    <3>3. QED
      BY <1>4, <1>5, <2>1, <2>2, <2>3, <3>2
  <2>5. CASE ~(x <= Instant(v))
    BY <1>2, <1>7, <1>13, <2>5, InstantsInOrder
  <2>6. QED
    BY <2>4, <2>5
<1>15. CASE i = j
  <2>1. first + i = d
    BY <1>9, <1>15
  <2>2. CASE plan.kind = "calendar"
    <3>1. Times!Place(d, c) \in TimesOn(t, i)
      BY <1>2, <1>4, <2>1, <2>2 DEF TimesOn, Times!CalendarTimes, Times!PlanClocks
    <3>2. QED
      BY <1>2, <1>10, <3>1
  <2>3. CASE plan.kind # "calendar"
    BY <1>2, <1>3, <1>4, <1>10, <2>1, <2>3, KeptBeforeLeft
  <2>4. QED
    BY <2>2, <2>3
<1>16. QED
  BY <1>10, <1>14, <1>15

LEMMA FirstsStay ==
    ASSUME zone' = zone, plan' = plan
    PROVE  /\ \A u : IsTime(u)' <=> IsTime(u)
           /\ Times!TimesKeepDates' <=> Times!TimesKeepDates
           /\ Times!Planned' = Times!Planned
           /\ \A d, c : Times!Place(d, c)' = Times!Place(d, c)
<1>1. \A d, c : Times!Place(d, c)' = Times!Place(d, c)
  BY DEF Times!Place, Times!OffsetAt, Times!DayLength
<1>2. \A u : Times!DateOf(u)' = Times!DateOf(u)
  BY DEF Times!DateOf, Times!OffsetAt, Times!DayLength
<1>3. Times!PlanClocks' = Times!PlanClocks
  BY DEF Times!PlanClocks
<1>4. \A d : Times!DayDue(d)' = Times!DayDue(d)
  BY DEF Times!DayDue, Times!Noon, Times!Place, Times!DateOf, Times!OffsetAt,
     Times!DayOfMonth, Times!MonthOf, Times!Weekday, Times!DayLength
<1>5. Times!Planned' = Times!Planned
  BY <1>3, <1>4 DEF Times!Planned, Times!DayLength
<1>6. QED
  BY <1>1, <1>2, <1>5 DEF IsTime, DayClocks, Times!DayLength, Times!TimesKeepDates

FirstRuns ==
    /\ MeetRuns
    /\ part = "calendar" =>
        /\ ZoneFits(zone)
        /\ asked >= 0 /\ FollowsTime(asked)
        /\ due # Times!Never => IsTime(due) /\ NoneBetween(asked, due)

LEMMA FirstHolds == FirstRuns /\ [Next]_vars => FirstRuns'
<1>1. ASSUME CalendarInv, ClocksFit(plan), ZoneFits(zone), asked >= 0, FollowsTime(asked),
             due # Times!Never => IsTime(due), Times!Next
      PROVE  /\ ZoneFits(zone)'
             /\ (asked >= 0 /\ FollowsTime(asked))'
             /\ (due # Times!Never => IsTime(due) /\ NoneBetween(asked, due))'
  <2>1. zone' = zone /\ plan' = plan
    BY <1>1 DEF Times!Next, Times!Declare, Times!Fire
  <2>2. PICK t \in Int : t = asked' /\ t >= 0 /\ FollowsTime(t)
    <3>1. CASE Times!Declare
      BY <1>1, <3>1 DEF Times!Declare, CalendarInv
    <3>2. CASE Times!Fire
      <4>1. due \in Int /\ IsTime(due) /\ due > asked
        BY <1>1, <3>2 DEF Times!Fire, CalendarInv
      <4>2. CASE asked' = due
        BY <1>1, <4>1, <4>2 DEF FollowsTime, CalendarInv
      <4>3. CASE asked' = due + 1
        <5>1. asked' - 1 = due
          BY <4>1, <4>3
        <5>2. QED
          BY <1>1, <4>1, <4>3, <5>1 DEF FollowsTime, CalendarInv
      <4>4. QED
        BY <3>2, <4>2, <4>3 DEF Times!Fire
    <3>3. QED
      BY <1>1, <3>1, <3>2 DEF Times!Next
  <2>3. due' = Times!NextDue(t)
    BY <1>1, <2>2 DEF Times!Next, Times!Declare, Times!Fire
  <2>4. due' # Times!Never => IsTime(due') /\ NoneBetween(t, due')
    BY <1>1, <2>2, <2>3, NextIsTime, NextIsFirst DEF CalendarInv
  <2>5. ZoneFits(zone)'
    BY <1>1, <2>1 DEF ZoneFits, Times!DayLength
  <2>6. (due # Times!Never)' <=> due' # Times!Never
    BY DEF Times!Never
  <2>7. FollowsTime(asked)' <=> FollowsTime(t)
    BY <2>1, <2>2, FirstsStay DEF FollowsTime, IsTime, DayClocks, Times!DayLength
  <2>8. IsTime(due)' <=> IsTime(due')
    BY <2>1, FirstsStay DEF IsTime, DayClocks, Times!DayLength
  <2>9. NoneBetween(asked, due)' <=> NoneBetween(t, due')
    BY <2>1, <2>2, FirstsStay DEF NoneBetween
  <2>10. QED
    BY <2>2, <2>4, <2>5, <2>6, <2>7, <2>8, <2>9
<1>2. ASSUME part = "calendar", Next PROVE Times!Next
  BY <1>2 DEF Next, RenewalStep, FactorStep, ConnectedStep, PoolStep, CacheStep, SavedStep,
     OutboxStep, StripeStep, SchemaStep, PolicyStep, CalendarStep, GeneratedStep,
     MergeStep, DevStep, ModelStep, UploadStep, LifeStep, DecimalStep
<1>3. ASSUME ZoneFits(zone), asked >= 0, FollowsTime(asked),
             due # Times!Never => IsTime(due) /\ NoneBetween(asked, due), UNCHANGED calendarVars
      PROVE  /\ ZoneFits(zone)'
             /\ (asked >= 0 /\ FollowsTime(asked))'
             /\ (due # Times!Never => IsTime(due) /\ NoneBetween(asked, due))'
  <2>1. zone' = zone /\ plan' = plan /\ asked' = asked /\ due' = due
    BY <1>3 DEF calendarVars
  <2>2. ZoneFits(zone)'
    BY <1>3, <2>1 DEF ZoneFits, Times!DayLength
  <2>3. FollowsTime(asked)' <=> FollowsTime(asked)
    BY <2>1, FirstsStay DEF FollowsTime, IsTime, DayClocks, Times!DayLength
  <2>4. IsTime(due)' <=> IsTime(due)
    BY <2>1, FirstsStay DEF IsTime, DayClocks, Times!DayLength
  <2>5. NoneBetween(asked, due)' <=> NoneBetween(asked, due)
    BY <2>1, FirstsStay DEF NoneBetween
  <2>6. (due # Times!Never)' <=> due # Times!Never
    BY <2>1 DEF Times!Never
  <2>7. QED
    BY <1>3, <2>1, <2>2, <2>3, <2>4, <2>5, <2>6
<1>4. UNCHANGED vars => UNCHANGED calendarVars
  BY DEF vars, state, calendarVars
<1>5. QED
  BY <1>1, <1>2, <1>3, <1>4, MeetHolds, OnePart DEF FirstRuns, MeetRuns, CalendarRuns

\* Every time of a plan is met in its turn, in every zone whose offsets lie on one side of
\* Greenwich and whose clocks jump by an hour at most: no time of a date that is due lies
\* between an instant and the answer, unless a change moves a time into another day
\* (schedule.go:22, cron.go:202).
THEOREM EveryTimeIsMet == Spec => []EachTimeMet
<1>1. Init => FirstRuns
  <2>1. Init /\ part = "calendar" => zone \in Zones /\ asked = 0 /\ due = Times!Never
    BY DEF Init, Times!Init
  <2>2. QED
    BY <2>1, MeetBegins, ZonesFit DEF FirstRuns, FollowsTime
<1>2. FirstRuns => EachTimeMet
  BY DEF FirstRuns, MeetRuns, CalendarRuns, CalendarInv, NoneBetween, EachTimeMet,
     Times!EachTimeMet, Times!FirstDue
<1>3. QED
  BY <1>1, <1>2, FirstHolds, PTL DEF Spec

-----------------------------------------------------------------------------
(* The bounded store.                                                      *)

items == x1
expired == x2
order == x3
cacheVars == <<x1, x2, x3>>
USE DEF items, expired, order

CacheTypes ==
    /\ IsFiniteSet(items)
    /\ order \in Seq(Keys)

CacheInv == CacheTypes /\ Cache!Bounded

LEMMA CacheSizes == \A S : Cache!Cardinality(S) = Cardinality(S)
  BY DEF Cardinality, Cache!Cardinality

LEMMA CacheBegins == Cache!Init => CacheInv
<1> SUFFICES ASSUME Cache!Init PROVE CacheInv
  OBVIOUS
<1>1. items = {} /\ order = <<>>
  BY DEF Cache!Init
<1>2. IsFiniteSet(items) /\ Cardinality(items) = 0
  BY <1>1, FS_EmptySet
<1>3. QED
  BY <1>1, <1>2, CacheSizes, PartsAssumption DEF CacheInv, CacheTypes, Cache!Bounded

LEMMA LeastNat ==
    ASSUME NEW S \in SUBSET Nat, S # {}
    PROVE  \E n \in S : \A k \in S : n <= k
<1>1. IsWellFoundedOn({p \in Nat \X Nat : p[1] < p[2]}, Nat)
  BY NatLessThanWellFounded DEF OpToRel
<1>2. PICK n \in S : \A k \in S : <<k, n>> \notin {p \in Nat \X Nat : p[1] < p[2]}
  BY <1>1, WFMin
<1>3. \A k \in S : <<k, n>> \in Nat \X Nat /\ <<k, n>>[1] = k /\ <<k, n>>[2] = n
  OBVIOUS
<1>4. \A k \in S : ~(k < n)
  BY <1>2, <1>3
<1>5. QED
  BY <1>4

\* The loop leaves room for one more: when the list is used up, so is the map.
LEMMA RoomMade ==
    ASSUME CacheInv
    PROVE  /\ Cache!Cut(items, order) \in 0..Len(order)
           /\ Cardinality(items \ Cache!Dropped(order, Cache!Cut(items, order))) < MaxItems
<1> DEFINE roomy == {k \in 0..Len(order) : Cardinality(items \ Cache!Dropped(order, k)) < MaxItems}
           enough == roomy \cup {Len(order)}
<1>1. Len(order) \in Nat /\ \A k \in 1..Len(order) : order[k] \in Keys
  BY DEF CacheInv, CacheTypes
<1>2. Cardinality(items \ Cache!Dropped(order, Len(order))) < MaxItems
  <2>1. \A key \in items : \E k \in 1..Len(order) : order[k] = key
    BY DEF CacheInv, Cache!Bounded
  <2>2. items \ Cache!Dropped(order, Len(order)) = {}
    BY <2>1 DEF Cache!Dropped
  <2>3. Cardinality(items \ Cache!Dropped(order, Len(order))) = 0
    BY <2>2, FS_EmptySet
  <2>4. 0 < MaxItems
    BY PartsAssumption
  <2>5. QED
    BY <2>3, <2>4
<1>3. enough \in SUBSET Nat /\ enough # {}
  BY <1>1
<1>4. PICK n \in enough : \A k \in enough : n <= k
  BY <1>3, LeastNat
<1>5. Cache!Cut(items, order) = CHOOSE k \in enough : \A h \in enough : k <= h
  BY CacheSizes DEF Cache!Cut
<1>6. Cache!Cut(items, order) \in enough
  <2> HIDE DEF enough
  <2>1. QED
    BY <1>4, <1>5
<1>7. Len(order) \in 0..Len(order)
  BY <1>1
<1>8. QED
  BY <1>2, <1>6, <1>7

LEMMA PutHolds ==
    ASSUME CacheInv, NEW key \in Keys, Cache!Put(key)
    PROVE  CacheInv'
<1>1. CASE key \in items
  BY <1>1 DEF Cache!Put, CacheInv, CacheTypes, Cache!Bounded
<1>2. CASE key \notin items
  <2> DEFINE cut == Cache!Cut(items, order)
             left == items \ Cache!Dropped(order, cut)
             tail == SubSeq(order, cut + 1, Len(order))
  <2>1. /\ items' = left \cup {key}
        /\ order' = Append(tail, key)
    BY <1>2 DEF Cache!Put, Cache!Evict
  <2>2. cut \in 0..Len(order) /\ Cardinality(left) < MaxItems
    BY RoomMade
  <2>3. /\ order \in Seq(Keys) /\ IsFiniteSet(items)
        /\ \A k \in items : \E h \in 1..Len(order) : order[h] = k
    BY DEF CacheInv, CacheTypes, Cache!Bounded
  <2>4. IsFiniteSet(left)
    BY <2>3, FS_Subset
  <2>5. key \notin left
    BY <1>2
  <2> HIDE DEF cut
  <2>6. /\ tail \in Seq(Keys) /\ Len(tail) = Len(order) - cut
        /\ \A h \in 1..Len(tail) : tail[h] = order[cut + h]
    BY <2>2, <2>3
  <2>7. \A k \in left : \E h \in 1..Len(tail) : tail[h] = k
    <3>1. ASSUME NEW k \in left PROVE \E h \in 1..Len(tail) : tail[h] = k
      <4>1. PICK h \in 1..Len(order) : order[h] = k
        BY <2>3
      <4>2. h \notin 1..cut
        BY <4>1 DEF Cache!Dropped
      <4>3. h - cut \in 1..Len(tail) /\ tail[h - cut] = k
        BY <2>2, <2>3, <2>6, <4>1, <4>2
      <4>4. QED
        BY <4>3
    <3>2. QED
      BY <3>1
  <2> HIDE DEF left, tail
  <2>8. /\ order' \in Seq(Keys) /\ Len(order') = Len(tail) + 1
        /\ order'[Len(tail) + 1] = key
        /\ \A h \in 1..Len(tail) : order'[h] = tail[h]
    BY <2>1, <2>6
  <2>9. \A k \in items' : \E h \in 1..Len(order') : order'[h] = k
    <3>1. Len(tail) \in Nat
      BY <2>6
    <3>2. QED
      BY <2>1, <2>7, <2>8, <3>1
  <2>10. IsFiniteSet(items') /\ Cardinality(items') <= MaxItems
    <3>1. IsFiniteSet(items') /\ Cardinality(items') = Cardinality(left) + 1 /\ Cardinality(left) \in Nat
      BY <2>1, <2>4, <2>5, FS_AddElement, FS_CardinalityType
    <3>2. QED
      BY <2>2, <3>1, PartsAssumption
  <2>11. QED
    BY <2>8, <2>9, <2>10, CacheSizes DEF CacheInv, CacheTypes, Cache!Bounded
<1>3. QED
  BY <1>1, <1>2

LEMMA RemoveHolds ==
    ASSUME CacheInv, items' \subseteq items, order' = order
    PROVE  CacheInv'
<1>1. IsFiniteSet(items') /\ Cardinality(items') <= Cardinality(items)
      /\ Cardinality(items) \in Nat /\ Cardinality(items') \in Nat
  BY FS_Subset, FS_CardinalityType DEF CacheInv, CacheTypes
<1>2. Cardinality(items) <= MaxItems
  BY CacheSizes DEF CacheInv, Cache!Bounded
<1>3. QED
  BY <1>1, <1>2, CacheSizes, PartsAssumption DEF CacheInv, CacheTypes, Cache!Bounded

LEMMA CacheStepHolds == ASSUME CacheInv, Cache!Next PROVE CacheInv'
<1>1. ASSUME NEW key \in Keys, Cache!Get(key) \/ Cache!Expire(key) \/ Cache!Delete({key})
      PROVE  CacheInv'
  BY <1>1, RemoveHolds DEF Cache!Get, Cache!Expire, Cache!Delete
<1>2. ASSUME NEW key \in Keys, Cache!Set(key) \/ Cache!Incr(key) PROVE CacheInv'
  BY <1>2, PutHolds DEF Cache!Set, Cache!Incr
<1>3. ASSUME Cache!DeletePrefix PROVE CacheInv'
  BY <1>3, RemoveHolds DEF Cache!DeletePrefix, Cache!Delete
<1>4. QED
  BY <1>1, <1>2, <1>3 DEF Cache!Next

LEMMA CacheAlone == part = "cache" /\ [Next]_vars => [Cache!Next]_cacheVars
<1>1. ASSUME part = "cache", Next PROVE [Cache!Next]_cacheVars
  BY <1>1 DEF Next, RenewalStep, FactorStep, ConnectedStep, PoolStep, CacheStep, SavedStep,
     OutboxStep, StripeStep, SchemaStep, PolicyStep, CalendarStep, GeneratedStep,
     MergeStep, DevStep, ModelStep, UploadStep, LifeStep, DecimalStep
<1>2. ASSUME UNCHANGED vars PROVE UNCHANGED cacheVars
  BY <1>2 DEF vars, state, cacheVars
<1>3. QED
  BY <1>1, <1>2

CacheRuns == part = "cache" => CacheInv

LEMMA CacheHolds == CacheRuns /\ [Next]_vars => CacheRuns'
<1>1. ASSUME CacheInv, UNCHANGED cacheVars PROVE CacheInv'
  BY <1>1, RemoveHolds DEF cacheVars
<1>2. QED
  BY <1>1, CacheStepHolds, CacheAlone, OnePart DEF CacheRuns

\* The store never holds more than its limit, whatever keys are stored, expire and are
\* deleted in whatever order: each key of the map has an entry in the list, so that what
\* eviction takes from the list is always enough.
THEOREM CacheKept == Spec => []Bounded
<1>1. Init => CacheRuns
  BY CacheBegins DEF Init, CacheRuns
<1>2. CacheRuns => Bounded
  BY DEF CacheRuns, CacheInv, Bounded
<1>3. QED
  BY <1>1, <1>2, CacheHolds, PTL DEF Spec

-----------------------------------------------------------------------------
(* The language model.                                                     *)

model == x1
chat == x2
sent == x3
heard == x4
modelVars == <<x1, x2, x3, x4, x5, x6>>
USE DEF model, chat, sent, heard

ChatTypes ==
    /\ model \in Configs
    /\ chat = [kind |-> chat.kind, pc |-> chat.pc, with |-> chat.with, attempt |-> chat.attempt,
               started |-> chat.started, round |-> chat.round]
    /\ chat.with \in Configs /\ chat.attempt \in Nat /\ chat.started \in BOOLEAN
    /\ sent \in [Model!Providers -> Nat] /\ heard \in Nat

\* The requests of the call went to its provider, one for each attempt that is over, and
\* only the last of them has given the caller text.
CallCounted ==
    LET posts == sent[chat.with.provider]
    IN  /\ \A p \in Model!Providers : p # chat.with.provider => sent[p] = 0
        /\ heard <= 1 /\ posts <= chat.with.attempts
        /\ chat.pc \in {"attempt", "sleep"} => heard = IF chat.started THEN 1 ELSE 0
        /\ chat.pc = "attempt" => posts = chat.attempt - 1
        /\ chat.pc = "sleep" => posts = chat.attempt
        /\ chat.pc \in {"attempt", "sleep"} =>
              chat.started \/ posts < chat.with.attempts
        /\ chat.pc \in {"call", "tools", "ended"} => ~chat.started

ModelInv == ChatTypes /\ CallCounted

LEMMA ModelBegins == Model!Init => ModelInv
<1> SUFFICES ASSUME Model!Init PROVE ModelInv
  OBVIOUS
<1>1. model \in Configs
  BY PartsAssumption DEF Model!Init
<1>2. /\ chat = [kind |-> "none", pc |-> "ended", with |-> model, attempt |-> 1,
                 started |-> FALSE, round |-> 0]
      /\ sent = [p \in Model!Providers |-> 0] /\ heard = 0
  BY DEF Model!Init, Model!NotRunning
<1>3. model.provider \in Model!Providers /\ model.attempts \in Nat
  BY <1>1, PartsAssumption DEF Model!Providers
<1>4. ChatTypes
  BY <1>1, <1>2 DEF ChatTypes
<1>5. CallCounted
  BY <1>2, <1>3 DEF CallCounted
<1>6. QED
  BY <1>4, <1>5 DEF ModelInv

LEMMA TheirConfig ==
    ASSUME ModelInv
    PROVE  /\ chat.with.provider \in Model!Providers /\ chat.with.attempts \in Nat \ {0}
           /\ sent[chat.with.provider] \in Nat
<1>1. chat.with \in Configs /\ sent \in [Model!Providers -> Nat]
  BY DEF ModelInv, ChatTypes
<1>2. QED
  BY <1>1, PartsAssumption DEF Model!Providers

\* A step that sends nothing, to where no attempt runs.
LEMMA NothingSent ==
    ASSUME ModelInv, model' \in Configs, sent' = sent, heard' = heard,
           NEW kind, NEW pc \in {"call", "tools", "ended"}, NEW attempt \in Nat, NEW round,
           chat' = [kind |-> kind, pc |-> pc, with |-> chat.with, attempt |-> attempt,
                    started |-> FALSE, round |-> round]
    PROVE  ModelInv'
<1>1. ChatTypes'
  BY DEF ModelInv, ChatTypes
<1>2. CallCounted'
  BY DEF ModelInv, CallCounted
<1>3. QED
  BY <1>1, <1>2 DEF ModelInv

LEMMA BeginHolds == ASSUME ModelInv, Model!Begin PROVE ModelInv'
<1>1. PICK k : chat' = [chat EXCEPT !.kind = k, !.pc = "call"]
  BY DEF Model!Begin
<1>2. ~chat.started /\ chat.started \in BOOLEAN /\ chat.attempt \in Nat
  BY DEF Model!Begin, ModelInv, ChatTypes, CallCounted
<1>3. chat' = [kind |-> k, pc |-> "call", with |-> chat.with, attempt |-> chat.attempt,
               started |-> FALSE, round |-> chat.round]
  BY <1>1, <1>2 DEF ModelInv, ChatTypes
<1>4. QED
  BY <1>2, <1>3, NothingSent DEF Model!Begin, ModelInv, ChatTypes

LEMMA CallEndsHolds ==
    ASSUME ModelInv, Model!CallEnds, UNCHANGED <<model, sent, heard>>
    PROVE  ModelInv'
  BY NothingSent DEF Model!CallEnds, Model!NotRunning, ModelInv, ChatTypes

LEMMA ReconfigureHolds == ASSUME ModelInv, Model!Reconfigure PROVE ModelInv'
  BY DEF Model!Reconfigure, ModelInv, ChatTypes, CallCounted

LEMMA CallHolds == ASSUME ModelInv, Model!Call PROVE ModelInv'
<1>1. ~chat.started /\ chat.started \in BOOLEAN /\ model \in Configs
  BY DEF Model!Call, ModelInv, ChatTypes, CallCounted
<1>2. chat' = [kind |-> chat.kind, pc |-> "attempt", with |-> model, attempt |-> 1,
               started |-> FALSE, round |-> chat.round]
  BY <1>1 DEF Model!Call, ModelInv, ChatTypes
<1>3. sent' = [p \in Model!Providers |-> 0] /\ heard' = 0 /\ model' = model
  BY DEF Model!Call
<1>4. model.provider \in Model!Providers /\ model.attempts \in Nat \ {0}
  BY <1>1, PartsAssumption DEF Model!Providers
<1>5. ChatTypes'
  BY <1>1, <1>2, <1>3 DEF ChatTypes
<1>6. CallCounted'
  BY <1>2, <1>3, <1>4 DEF CallCounted
<1>7. QED
  BY <1>5, <1>6 DEF ModelInv

\* One more request, after which no attempt runs, or a pause before another.
LEMMA RequestGone ==
    ASSUME ModelInv, NEW text \in BOOLEAN, Model!Ask(text)
    PROVE  /\ model' = model
           /\ sent' \in [Model!Providers -> Nat]
           /\ sent'[chat.with.provider] = chat.attempt
           /\ \A p \in Model!Providers : p # chat.with.provider => sent'[p] = 0
           /\ heard' = IF text THEN 1 ELSE 0
           /\ chat.attempt <= chat.with.attempts /\ chat.attempt \in Nat
           /\ chat.started = FALSE
<1>1. /\ chat.pc = "attempt" /\ ~chat.started
      /\ sent' = [sent EXCEPT ![chat.with.provider] = @ + 1]
      /\ heard' = IF text THEN heard + 1 ELSE heard
      /\ model' = model
  BY DEF Model!Ask, Model!MayAsk, Model!Server
<1>2. /\ sent \in [Model!Providers -> Nat] /\ chat.attempt \in Nat /\ heard \in Nat
      /\ chat.started \in BOOLEAN
  BY DEF ModelInv, ChatTypes
<1>3. /\ sent[chat.with.provider] = chat.attempt - 1
      /\ sent[chat.with.provider] < chat.with.attempts
      /\ heard = 0
      /\ \A p \in Model!Providers : p # chat.with.provider => sent[p] = 0
  BY <1>1 DEF ModelInv, CallCounted
<1>4. QED
  BY <1>1, <1>2, <1>3, TheirConfig

LEMMA AnswerHolds ==
    ASSUME ModelInv, NEW text \in BOOLEAN, Model!Ask(text),
           NEW pc \in {"tools", "ended", "sleep"}, NEW kind, NEW attempt \in Nat, NEW round,
           NEW started \in BOOLEAN,
           chat' = [kind |-> kind, pc |-> pc, with |-> chat.with, attempt |-> attempt,
                    started |-> started, round |-> round],
           IF pc = "sleep" THEN /\ started = text /\ attempt = chat.attempt
                                /\ chat.attempt # chat.with.attempts
                           ELSE started = FALSE
    PROVE  ModelInv'
<1>1. chat.with.provider \in Model!Providers /\ chat.with.attempts \in Nat \ {0}
  BY TheirConfig
<1>2. /\ model' = model /\ sent' \in [Model!Providers -> Nat]
      /\ sent'[chat.with.provider] = chat.attempt
      /\ \A p \in Model!Providers : p # chat.with.provider => sent'[p] = 0
      /\ heard' = IF text THEN 1 ELSE 0
      /\ chat.attempt <= chat.with.attempts /\ chat.attempt \in Nat
  BY RequestGone
<1>3. ChatTypes'
  BY <1>2 DEF ModelInv, ChatTypes
<1>4. CallCounted'
  BY <1>1, <1>2 DEF CallCounted
<1>5. QED
  BY <1>3, <1>4 DEF ModelInv

LEMMA AnsweredHolds == ASSUME ModelInv, Model!Answered PROVE ModelInv'
<1> DEFINE text == chat.kind = "stream"
<1>1. text \in BOOLEAN /\ Model!Ask(text)
  BY DEF Model!Answered
<1> HIDE DEF text
<1>2. CASE Model!CallEnds
  BY <1>1, <1>2, AnswerHolds DEF Model!CallEnds, Model!NotRunning
<1>3. CASE chat' = [chat EXCEPT !.pc = "tools"]
  <2>1. chat.started = FALSE /\ chat.attempt \in Nat
    BY <1>1, RequestGone
  <2>2. chat' = [kind |-> chat.kind, pc |-> "tools", with |-> chat.with, attempt |-> chat.attempt,
                 started |-> FALSE, round |-> chat.round]
    BY <1>3, <2>1 DEF ModelInv, ChatTypes
  <2>3. QED
    BY <1>1, <2>1, <2>2, AnswerHolds
<1>4. QED
  BY <1>2, <1>3 DEF Model!Answered

LEMMA FailedHolds == ASSUME ModelInv, Model!Failed PROVE ModelInv'
<1>1. PICK text \in BOOLEAN :
          /\ Model!Ask(text)
          /\ \/ Model!CallEnds
             \/ /\ chat.attempt # chat.with.attempts
                /\ chat' = [chat EXCEPT !.pc = "sleep", !.started = text]
  BY DEF Model!Failed
<1>2. CASE Model!CallEnds
  BY <1>1, <1>2, AnswerHolds DEF Model!CallEnds, Model!NotRunning
<1>3. CASE /\ chat.attempt # chat.with.attempts
           /\ chat' = [chat EXCEPT !.pc = "sleep", !.started = text]
  <2>1. chat' = [kind |-> chat.kind, pc |-> "sleep", with |-> chat.with, attempt |-> chat.attempt,
                 started |-> text, round |-> chat.round]
    BY <1>3 DEF ModelInv, ChatTypes
  <2>2. chat.attempt \in Nat
    BY <1>1, RequestGone
  <2>3. QED
    BY <1>1, <1>3, <2>1, <2>2, AnswerHolds
<1>4. QED
  BY <1>1, <1>2, <1>3

LEMMA RefusedHolds == ASSUME ModelInv, Model!Refused PROVE ModelInv'
<1>1. PICK text \in BOOLEAN : Model!Ask(text)
  BY DEF Model!Refused
<1>2. QED
  BY <1>1, AnswerHolds DEF Model!Refused, Model!CallEnds, Model!NotRunning

LEMMA SleepHolds == ASSUME ModelInv, Model!Sleep PROVE ModelInv'
<1>1. CASE Model!CallEnds
  BY <1>1, CallEndsHolds DEF Model!Sleep
<1>2. CASE chat' = [chat EXCEPT !.pc = "attempt", !.attempt = @ + 1]
  <2>1. chat' = [kind |-> chat.kind, pc |-> "attempt", with |-> chat.with,
                 attempt |-> chat.attempt + 1, started |-> chat.started, round |-> chat.round]
    BY <1>2 DEF ModelInv, ChatTypes
  <2>2. chat.attempt \in Nat /\ chat.started \in BOOLEAN
    BY DEF ModelInv, ChatTypes
  <2>3. chat.pc = "sleep" /\ UNCHANGED <<model, sent, heard>>
    BY DEF Model!Sleep
  <2>4. ChatTypes'
    BY <2>1, <2>2, <2>3 DEF ModelInv, ChatTypes
  <2>5. CallCounted'
    BY <2>1, <2>2, <2>3 DEF ModelInv, CallCounted
  <2>6. QED
    BY <2>4, <2>5 DEF ModelInv
<1>3. QED
  BY <1>1, <1>2 DEF Model!Sleep

LEMMA ToolsHolds == ASSUME ModelInv, Model!Tools PROVE ModelInv'
<1>1. CASE Model!CallEnds
  BY <1>1, CallEndsHolds DEF Model!Tools
<1>2. CASE chat' = [chat EXCEPT !.pc = "call", !.round = @ + 1]
  <2>1. ~chat.started /\ chat.started \in BOOLEAN /\ chat.attempt \in Nat /\ model \in Configs
    BY DEF Model!Tools, ModelInv, ChatTypes, CallCounted
  <2>2. chat' = [kind |-> chat.kind, pc |-> "call", with |-> chat.with, attempt |-> chat.attempt,
                 started |-> FALSE, round |-> chat.round + 1]
    BY <1>2, <2>1 DEF ModelInv, ChatTypes
  <2>3. QED
    BY <2>1, <2>2, NothingSent DEF Model!Tools
<1>3. QED
  BY <1>1, <1>2 DEF Model!Tools

LEMMA ModelAlone == part = "model" /\ [Next]_vars => [Model!Next]_modelVars
<1>1. ASSUME part = "model", Next PROVE [Model!Next]_modelVars
  BY <1>1 DEF Next, RenewalStep, FactorStep, ConnectedStep, PoolStep, CacheStep, SavedStep,
     OutboxStep, StripeStep, SchemaStep, PolicyStep, CalendarStep, GeneratedStep,
     MergeStep, DevStep, ModelStep, UploadStep, LifeStep, DecimalStep
<1>2. ASSUME UNCHANGED vars PROVE UNCHANGED modelVars
  BY <1>2 DEF vars, state, modelVars
<1>3. QED
  BY <1>1, <1>2

ModelRuns == part = "model" => ModelInv

LEMMA ModelHolds == ModelRuns /\ [Next]_vars => ModelRuns'
<1>1. ASSUME ModelInv, UNCHANGED modelVars PROVE ModelInv'
  BY <1>1 DEF modelVars, ModelInv, ChatTypes, CallCounted
<1>2. ASSUME ModelInv, Model!NotRepeated PROVE ModelInv'
  BY <1>2, CallEndsHolds DEF Model!NotRepeated
<1>3. ASSUME ModelInv, Model!Next PROVE ModelInv'
  BY <1>2, <1>3, ReconfigureHolds, BeginHolds, CallHolds, AnsweredHolds, FailedHolds,
     RefusedHolds, SleepHolds, ToolsHolds DEF Model!Next
<1>4. QED
  BY <1>1, <1>3, ModelAlone, OnePart DEF ModelRuns

\* A call asks one provider, that of the configuration it began with, at most as often as
\* that configuration allows, and no second attempt follows a text the caller has seen:
\* for any configurations, however often they are switched while calls run.
THEOREM CallsKeep == Spec => []CallsKept
<1>1. Init => ModelRuns
  BY ModelBegins DEF Init, ModelRuns
<1>2. ModelRuns => CallsKept
  <2> SUFFICES ASSUME ModelInv PROVE Model!CallsKept
    BY DEF CallsKept, ModelRuns
  <2>1. sent \in [Model!Providers -> Nat]
    BY DEF ModelInv, ChatTypes
  <2>2. QED
    BY <2>1 DEF ModelInv, CallCounted, Model!CallsKept
<1>3. QED
  BY <1>1, <1>2, ModelHolds, PTL DEF Spec

-----------------------------------------------------------------------------
(* The upload in parts.                                                    *)

upload == x1
service == x2
result == x3
unknown == x4
uploadVars == <<x1, x2, x3, x4, x5>>
USE DEF upload, service, result, unknown

UploadTypes ==
    /\ upload = [pc |-> upload.pc, size |-> upload.size, holds |-> upload.holds,
                 put |-> upload.put, live |-> upload.live]
    /\ upload.pc \in {"first", "initiate", "put", "read", "extra", "complete", "abort", "returned"}
    /\ upload.size \in Nat \ {0} /\ upload.holds \in Nat /\ upload.put \in 0..upload.size
    /\ service \in [open : BOOLEAN, object : {Upload!NoObject, upload.size}, completing : BOOLEAN]
    /\ result \in [status : {"none", "ok", "error"}, tells : BOOLEAN]

Whole == upload.put = upload.size /\ upload.holds = upload.size

\* How far the reader was read, and what may be assembled from what was put.
ReadSoFar ==
    /\ upload.pc \in {"first", "initiate"} => upload.put = 0 /\ ~service.open
    /\ upload.pc = "put" =>
          upload.put < upload.size /\ upload.holds >= upload.put + Upload!PartLength
    /\ upload.pc = "read" => upload.put < upload.size /\ upload.holds >= upload.put
    /\ upload.pc = "extra" => upload.put = upload.size /\ upload.holds >= upload.size
    /\ upload.pc = "complete" => Whole

\* An object, or a completion the service still works on, is of a whole upload that the
\* call has done with.
WholeOnly ==
    /\ service.object # Upload!NoObject => Whole
    /\ service.completing => Whole /\ upload.pc \in {"abort", "returned"}

Told ==
    /\ result.status = "none" <=> upload.pc # "returned"
    /\ result.status = "ok" => service.object # Upload!NoObject
    /\ result.status # "none" /\ service.open => result.tells \/ unknown

\* The upload is begun with its first part read.
FirstRead == upload.pc = "initiate" => upload.holds >= Upload!PartLength

UploadInv == UploadTypes /\ ReadSoFar /\ FirstRead /\ WholeOnly /\ Told

LEMMA UploadBegins == Upload!Init => UploadInv
<1> SUFFICES ASSUME Upload!Init PROVE UploadInv
  OBVIOUS
<1>1. PICK n \in 1..MaxSize, h \in 0..(MaxSize + 1) :
          upload = [pc |-> "first", size |-> n, holds |-> h, put |-> 0, live |-> TRUE]
  BY DEF Upload!Init
<1>2. /\ service = [open |-> FALSE, object |-> Upload!NoObject, completing |-> FALSE]
      /\ result = [status |-> "none", tells |-> FALSE]
  BY DEF Upload!Init
<1>3. n \in Nat \ {0} /\ h \in Nat
  BY PartsAssumption
<1>4. UploadTypes
  BY <1>1, <1>2, <1>3 DEF UploadTypes
<1>5. ReadSoFar /\ FirstRead /\ WholeOnly /\ Told
  BY <1>1, <1>2, <1>3 DEF ReadSoFar, FirstRead, WholeOnly, Told
<1>6. QED
  BY <1>4, <1>5 DEF UploadInv

\* The next part is of at least one byte, and not more than what is left.
LEMMA PartFits ==
    ASSUME UploadInv, upload.put < upload.size
    PROVE  /\ Upload!PartLength \in Nat \ {0}
           /\ Upload!PartLength <= upload.size - upload.put
           /\ Upload!Remaining = upload.size - upload.put
<1>1. PartSize \in Nat \ {0}
  BY PartsAssumption
<1>2. QED
  BY <1>1 DEF UploadInv, UploadTypes, Upload!PartLength, Upload!Smaller, Upload!Remaining

\* The call goes on, with the service as it is.
LEMMA GoesOn ==
    ASSUME UploadInv, UNCHANGED <<service, result, unknown>>, upload.pc # "returned",
           NEW pc \in {"initiate", "put", "read", "extra", "complete", "abort"},
           NEW put \in 0..upload.size,
           upload' = [upload EXCEPT !.pc = pc, !.put = put],
           service.object # Upload!NoObject \/ service.completing => put = upload.put,
           service.completing => pc = "abort",
           ReadSoFar', FirstRead'
    PROVE  UploadInv'
<1>1. upload' = [pc |-> pc, size |-> upload.size, holds |-> upload.holds,
                 put |-> put, live |-> upload.live]
  BY DEF UploadInv, UploadTypes
<1>2. UploadTypes'
  BY <1>1 DEF UploadInv, UploadTypes
<1>3. WholeOnly'
  BY <1>1 DEF UploadInv, WholeOnly, Whole
<1>4. Told'
  BY <1>1 DEF UploadInv, Told
<1>5. QED
  BY <1>2, <1>3, <1>4 DEF UploadInv

\* What the call does up to the completion meets no object and no completion.
LEMMA NothingYet ==
    ASSUME UploadInv, upload.pc \in {"first", "initiate", "put", "read"}
    PROVE  service.object = Upload!NoObject /\ ~service.completing
  BY DEF UploadInv, UploadTypes, ReadSoFar, WholeOnly, Whole

LEMMA GivesUp ==
    ASSUME UploadInv, Upload!GiveUp, UNCHANGED <<service, unknown>>, upload.pc # "returned"
    PROVE  UploadInv'
<1>1. upload' = [upload EXCEPT !.pc = "abort", !.put = upload.put]
  BY DEF Upload!GiveUp, Upload!Goto, UploadInv, UploadTypes
<1>2. result' = result
  BY DEF Upload!GiveUp
<1>3. upload'.pc = "abort"
  BY <1>1 DEF UploadInv, UploadTypes
<1>4. ReadSoFar' /\ FirstRead'
  BY <1>3 DEF ReadSoFar, FirstRead
<1>5. upload.put \in 0..upload.size
  BY DEF UploadInv, UploadTypes
<1>6. QED
  BY <1>1, <1>2, <1>4, <1>5, GoesOn

LEMMA Returned ==
    ASSUME UploadInv, NEW status \in {"ok", "error"}, NEW tells \in BOOLEAN,
           Upload!Return(status, tells),
           service' \in [open : BOOLEAN, object : {Upload!NoObject, upload.size}, completing : BOOLEAN],
           service'.object # Upload!NoObject \/ service'.completing => Whole,
           status = "ok" => service'.object # Upload!NoObject,
           service'.open => tells \/ unknown'
    PROVE  UploadInv'
<1>1. /\ upload' = [pc |-> "returned", size |-> upload.size, holds |-> upload.holds,
                    put |-> upload.put, live |-> upload.live]
      /\ result' = [status |-> status, tells |-> tells]
  BY DEF Upload!Return, Upload!Goto, UploadInv, UploadTypes
<1>2. UploadTypes'
  BY <1>1 DEF UploadInv, UploadTypes
<1>3. ReadSoFar' /\ FirstRead' /\ WholeOnly'
  BY <1>1 DEF ReadSoFar, FirstRead, WholeOnly, Whole
<1>4. result'.status = status /\ result'.tells = tells /\ upload'.pc = "returned" /\ status # "none"
  BY <1>1
<1>5. Told'
  BY <1>4 DEF Told
<1>6. QED
  BY <1>2, <1>3, <1>5 DEF UploadInv

LEMMA CallerGoesHolds == ASSUME UploadInv, Upload!CallerGoes PROVE UploadInv'
<1>1. /\ upload' = [pc |-> upload.pc, size |-> upload.size, holds |-> upload.holds,
                    put |-> upload.put, live |-> FALSE]
      /\ UNCHANGED <<service, result, unknown>>
  BY DEF Upload!CallerGoes, UploadInv, UploadTypes
<1>2. UploadTypes'
  BY <1>1 DEF UploadInv, UploadTypes
<1>3. ReadSoFar' /\ FirstRead'
  BY <1>1 DEF UploadInv, ReadSoFar, FirstRead, Whole, Upload!PartLength, Upload!Remaining
<1>4. WholeOnly'
  BY <1>1 DEF UploadInv, WholeOnly, Whole
<1>5. Told'
  BY <1>1 DEF UploadInv, Told
<1>6. QED
  BY <1>2, <1>3, <1>4, <1>5 DEF UploadInv

\* An error before the service has anything of the upload.
LEMMA FailsEarly ==
    ASSUME UploadInv, Upload!Return("error", FALSE), UNCHANGED <<service, unknown>>,
           upload.pc \in {"first", "initiate"}
    PROVE  UploadInv'
<1>1. ~service.open /\ service.object = Upload!NoObject /\ ~service.completing
  BY NothingYet DEF UploadInv, ReadSoFar
<1>2. service \in [open : BOOLEAN, object : {Upload!NoObject, upload.size}, completing : BOOLEAN]
  BY DEF UploadInv, UploadTypes
<1>3. QED
  BY <1>1, <1>2, Returned

LEMMA ReadFirstHolds == ASSUME UploadInv, Upload!ReadFirst PROVE UploadInv'
<1>1. CASE Upload!Return("error", FALSE)
  BY <1>1, FailsEarly DEF Upload!ReadFirst
<1>2. CASE Upload!Goto("initiate") /\ UNCHANGED result
  <2>1. upload' = [upload EXCEPT !.pc = "initiate", !.put = upload.put]
    BY <1>2 DEF Upload!Goto, UploadInv, UploadTypes
  <2>2. upload.put \in 0..upload.size /\ upload.put = 0 /\ ~service.open /\ upload.pc = "first"
    BY DEF Upload!ReadFirst, UploadInv, UploadTypes, ReadSoFar
  <2>3. upload'.pc = "initiate" /\ upload'.put = 0 /\ service' = service
    BY <2>1, <2>2 DEF Upload!ReadFirst, UploadInv, UploadTypes
  <2>4. ReadSoFar'
    BY <2>2, <2>3 DEF ReadSoFar
  <2>6. FirstRead'
    <3>1. CASE Upload!Fills(Upload!PartLength)
      <4>1. upload.holds >= Upload!PartLength
        BY <2>2, <3>1 DEF Upload!Fills, UploadInv, UploadTypes
      <4>2. upload'.holds = upload.holds /\ Upload!PartLength' = Upload!PartLength
        BY <2>1, <2>2 DEF UploadInv, UploadTypes, Upload!PartLength, Upload!Remaining
      <4>3. QED
        BY <4>1, <4>2 DEF FirstRead
    <3>2. QED
      BY <1>2, <3>1, <2>1 DEF Upload!ReadFirst, Upload!Return, Upload!Goto, UploadInv, UploadTypes
  <2>5. QED
    BY <1>2, <2>1, <2>2, <2>4, <2>6, GoesOn, NothingYet DEF Upload!ReadFirst
<1>3. QED
  BY <1>1, <1>2 DEF Upload!ReadFirst

LEMMA InitiateHolds == ASSUME UploadInv, Upload!Initiate PROVE UploadInv'
<1>1. CASE Upload!Return("error", FALSE) /\ UNCHANGED <<service, unknown>>
  BY <1>1, FailsEarly DEF Upload!Initiate
<1>2. /\ upload.pc = "initiate" /\ upload.put = 0 /\ ~service.open
      /\ service.object = Upload!NoObject /\ ~service.completing
  BY NothingYet DEF Upload!Initiate, UploadInv, ReadSoFar
<1>3. ASSUME upload.live, service' = [service EXCEPT !.open = TRUE]
      PROVE  /\ service' = [open |-> TRUE, object |-> Upload!NoObject, completing |-> FALSE]
  BY <1>2, <1>3 DEF UploadInv, UploadTypes
<1>7. ASSUME service' = [open |-> TRUE, object |-> Upload!NoObject, completing |-> FALSE]
      PROVE  service' \in [open : BOOLEAN, object : {Upload!NoObject, upload.size}, completing : BOOLEAN]
  BY <1>7
<1>4. CASE /\ upload.live /\ service' = [service EXCEPT !.open = TRUE]
           /\ Upload!Goto("put") /\ UNCHANGED <<result, unknown>>
  <2>1. upload' = [pc |-> "put", size |-> upload.size, holds |-> upload.holds,
                   put |-> 0, live |-> upload.live]
    BY <1>2, <1>4 DEF Upload!Goto, UploadInv, UploadTypes
  <2>2. upload.holds \in Nat /\ upload.size \in Nat \ {0}
    BY DEF UploadInv, UploadTypes
  <2>3. service' = [open |-> TRUE, object |-> Upload!NoObject, completing |-> FALSE]
    BY <1>3, <1>4
  <2>10. service' \in [open : BOOLEAN, object : {Upload!NoObject, upload.size}, completing : BOOLEAN]
    BY <1>7, <2>3
  <2>4. UploadTypes'
    BY <1>4, <2>1, <2>2, <2>10 DEF UploadInv, UploadTypes
  <2>5. ReadSoFar'
    <3>1. upload.holds >= Upload!PartLength
      BY <1>2 DEF UploadInv, FirstRead
    <3>2. Upload!PartLength' = Upload!PartLength
      BY <1>2, <2>1 DEF Upload!PartLength, Upload!Remaining
    <3>3. Upload!PartLength \in Nat
      BY <1>2, <2>2, PartFits
    <3>4. /\ upload'.pc = "put" /\ upload'.put = 0 /\ upload'.size = upload.size
          /\ upload'.holds = upload.holds
      BY <2>1
    <3>5. upload'.holds >= upload'.put + Upload!PartLength' /\ upload'.put < upload'.size
      BY <2>2, <3>1, <3>2, <3>3, <3>4
    <3>6. QED
      BY <3>4, <3>5 DEF ReadSoFar
  <2>6. WholeOnly'
    BY <2>1, <2>3 DEF WholeOnly
  <2>7. Told'
    BY <1>2, <1>4, <2>1 DEF Told, UploadInv
  <2>8. FirstRead'
    BY <2>1 DEF FirstRead
  <2>9. QED
    BY <2>4, <2>5, <2>6, <2>7, <2>8 DEF UploadInv
<1>5. CASE /\ upload.live /\ service' = [service EXCEPT !.open = TRUE]
           /\ Upload!Return("error", FALSE) /\ unknown' = TRUE
  <2>1. service' = [open |-> TRUE, object |-> Upload!NoObject, completing |-> FALSE]
    BY <1>3, <1>5
  <2>2. service' \in [open : BOOLEAN, object : {Upload!NoObject, upload.size}, completing : BOOLEAN]
    BY <1>7, <2>1
  <2>3. /\ ~service'.completing /\ service'.object = Upload!NoObject
        /\ service'.open => FALSE \/ unknown'
    BY <1>5, <2>1
  <2>4. Upload!Return("error", FALSE)
    BY <1>5
  <2>5. QED
    BY <2>2, <2>3, <2>4, Returned
<1>6. QED
  BY <1>1, <1>4, <1>5 DEF Upload!Initiate

LEMMA PutPartHolds == ASSUME UploadInv, Upload!PutPart PROVE UploadInv'
<1>1. CASE Upload!GiveUp
  BY <1>1, GivesUp DEF Upload!PutPart
<1> DEFINE length == Upload!PartLength
<1>2. CASE /\ upload' = [upload EXCEPT !.put = @ + length,
                             !.pc = IF Upload!Remaining > length THEN "read" ELSE "extra"]
           /\ UNCHANGED result
  <2>1. /\ upload.pc = "put" /\ upload.put < upload.size
        /\ upload.holds >= upload.put + length
        /\ UNCHANGED <<service, unknown>>
    BY DEF Upload!PutPart, UploadInv, ReadSoFar
  <2>2. /\ length \in Nat \ {0} /\ length <= upload.size - upload.put
        /\ Upload!Remaining = upload.size - upload.put
    BY <2>1, PartFits
  <2> HIDE DEF length
  <2>3. /\ upload.put \in Nat /\ upload.size \in Nat /\ upload.holds \in Nat
    BY DEF UploadInv, UploadTypes
  <2>4. PICK pc \in {"read", "extra"} :
            /\ upload' = [upload EXCEPT !.put = @ + length, !.pc = pc]
            /\ pc = "read" => upload.put + length < upload.size
            /\ pc = "extra" => upload.put + length = upload.size
    <3>1. CASE Upload!Remaining > length
      BY <1>2, <2>2, <2>3, <3>1
    <3>2. CASE ~(Upload!Remaining > length)
      BY <1>2, <2>2, <2>3, <3>2
    <3>3. QED
      BY <3>1, <3>2
  <2>5. upload' = [upload EXCEPT !.pc = pc, !.put = upload.put + length]
    BY <2>4 DEF UploadInv, UploadTypes
  <2>6. upload.put + length \in 0..upload.size
    BY <2>2, <2>3
  <2>7. upload' = [pc |-> pc, size |-> upload.size, holds |-> upload.holds,
                   put |-> upload.put + length, live |-> upload.live]
    BY <2>5 DEF UploadInv, UploadTypes
  <2>8. ReadSoFar'
    BY <2>1, <2>3, <2>4, <2>7 DEF ReadSoFar
  <2>10. FirstRead'
    BY <2>7 DEF FirstRead
  <2>9. QED
    BY <1>2, <2>1, <2>5, <2>6, <2>8, <2>10, GoesOn, NothingYet
<1>3. QED
  BY <1>1, <1>2 DEF Upload!PutPart

LEMMA ReadPartHolds == ASSUME UploadInv, Upload!ReadPart PROVE UploadInv'
<1>1. CASE Upload!GiveUp
  BY <1>1, GivesUp DEF Upload!ReadPart
<1>2. CASE Upload!Fills(Upload!PartLength) /\ Upload!Goto("put") /\ UNCHANGED result
  <2>1. /\ upload.pc = "read" /\ upload.put < upload.size
        /\ upload.holds - upload.put >= Upload!PartLength
        /\ UNCHANGED <<service, unknown>>
    BY <1>2 DEF Upload!ReadPart, Upload!Fills, UploadInv, ReadSoFar
  <2>2. upload.put \in 0..upload.size /\ upload.holds \in Nat /\ upload.put \in Nat
        /\ Upload!PartLength \in Nat
    BY <2>1, PartFits DEF UploadInv, UploadTypes
  <2>3. upload' = [pc |-> "put", size |-> upload.size, holds |-> upload.holds,
                   put |-> upload.put, live |-> upload.live]
    BY <1>2 DEF Upload!Goto, UploadInv, UploadTypes
  <2>4. upload' = [upload EXCEPT !.pc = "put", !.put = upload.put]
    BY <1>2 DEF Upload!Goto, UploadInv, UploadTypes
  <2>5. Upload!PartLength' = Upload!PartLength
    BY <2>3 DEF Upload!PartLength, Upload!Remaining
  <2>6. ReadSoFar'
    BY <2>1, <2>2, <2>3, <2>5 DEF ReadSoFar
  <2>8. FirstRead'
    BY <2>3 DEF FirstRead
  <2>7. QED
    BY <1>2, <2>1, <2>2, <2>4, <2>6, <2>8, GoesOn, NothingYet
<1>3. QED
  BY <1>1, <1>2 DEF Upload!ReadPart

\* What is read is all there is to read.
LEMMA CheckEndHolds == ASSUME UploadInv, Upload!CheckEnd PROVE UploadInv'
<1>1. CASE Upload!GiveUp
  BY <1>1, GivesUp DEF Upload!CheckEnd
<1>2. CASE upload.live /\ ~Upload!Fills(1) /\ Upload!Goto("complete") /\ UNCHANGED result
  <2>1. /\ upload.pc = "extra" /\ upload.put = upload.size /\ upload.holds >= upload.size
        /\ UNCHANGED <<service, unknown>>
        /\ ~(upload.holds - upload.put >= 1)
    BY <1>2 DEF Upload!CheckEnd, Upload!Fills, UploadInv, ReadSoFar
  <2>2. upload.put \in 0..upload.size /\ upload.holds \in Nat /\ upload.size \in Nat
    BY DEF UploadInv, UploadTypes
  <2>3. upload' = [upload EXCEPT !.pc = "complete", !.put = upload.put]
    BY <1>2 DEF Upload!Goto, UploadInv, UploadTypes
  <2>4. upload' = [pc |-> "complete", size |-> upload.size, holds |-> upload.holds,
                   put |-> upload.put, live |-> upload.live]
    BY <1>2 DEF Upload!Goto, UploadInv, UploadTypes
  <2>5. ReadSoFar'
    BY <2>1, <2>2, <2>4 DEF ReadSoFar, Whole
  <2>6. ~service.completing
    BY <2>1 DEF UploadInv, WholeOnly
  <2>8. FirstRead'
    BY <2>4 DEF FirstRead
  <2>7. QED
    BY <1>2, <2>1, <2>2, <2>3, <2>5, <2>6, <2>8, GoesOn
<1>3. QED
  BY <1>1, <1>2 DEF Upload!CheckEnd

\* The service assembles what the call has put, or begins to.
LEMMA ServedHolds ==
    ASSUME UploadInv, upload.pc = "complete", Upload!GiveUp, UNCHANGED unknown,
           \/ service' = Upload!Assembled
           \/ service' = [service EXCEPT !.completing = TRUE]
    PROVE  UploadInv'
<1>1. Whole
  BY DEF UploadInv, ReadSoFar
<1>2. /\ upload' = [pc |-> "abort", size |-> upload.size, holds |-> upload.holds,
                    put |-> upload.put, live |-> upload.live]
      /\ result' = result
  BY DEF Upload!GiveUp, Upload!Goto, UploadInv, UploadTypes
<1>3. service' \in [open : BOOLEAN, object : {Upload!NoObject, upload.size}, completing : BOOLEAN]
  <2>1. service \in [open : BOOLEAN, object : {Upload!NoObject, upload.size}, completing : BOOLEAN]
    BY DEF UploadInv, UploadTypes
  <2>2. [open |-> FALSE, object |-> upload.size, completing |-> FALSE]
           \in [open : BOOLEAN, object : {Upload!NoObject, upload.size}, completing : BOOLEAN]
    OBVIOUS
  <2>3. CASE service' = Upload!Assembled
    BY <1>1, <2>2, <2>3 DEF Upload!Assembled, Whole
  <2>4. CASE service' = [service EXCEPT !.completing = TRUE]
    BY <2>1, <2>4
  <2>5. QED
    BY <2>3, <2>4
<1>4. UploadTypes'
  BY <1>2, <1>3 DEF UploadInv, UploadTypes
<1>5. ReadSoFar' /\ WholeOnly' /\ FirstRead'
  BY <1>1, <1>2 DEF ReadSoFar, WholeOnly, Whole, FirstRead
<1>6. result.status = "none"
  BY DEF UploadInv, Told
<1>7. Told'
  BY <1>2, <1>6 DEF Told
<1>8. QED
  BY <1>4, <1>5, <1>7 DEF UploadInv

LEMMA CompleteHolds == ASSUME UploadInv, Upload!Complete PROVE UploadInv'
<1>1. upload.pc = "complete" /\ unknown' = unknown
  BY DEF Upload!Complete
<1>2. CASE Upload!GiveUp /\ UNCHANGED service
  BY <1>1, <1>2, GivesUp
<1>3. CASE Upload!GiveUp /\ \/ service' = Upload!Assembled
                            \/ service' = [service EXCEPT !.completing = TRUE]
  BY <1>1, <1>3, ServedHolds
<1>4. CASE Upload!Return("ok", FALSE) /\ service' = Upload!Assembled
  <2>1. Whole
    BY <1>1 DEF UploadInv, ReadSoFar
  <2>2. service' = [open |-> FALSE, object |-> upload.size, completing |-> FALSE]
    BY <1>4, <2>1 DEF Upload!Assembled, Whole
  <2>3. upload.size # Upload!NoObject
    BY DEF UploadInv, UploadTypes, Upload!NoObject
  <2>4. service' \in [open : BOOLEAN, object : {Upload!NoObject, upload.size}, completing : BOOLEAN]
    BY <2>2
  <2>5. service'.object # Upload!NoObject /\ ~service'.open
    BY <2>2, <2>3
  <2>6. Upload!Return("ok", FALSE)
    BY <1>4
  <2>7. QED
    BY <2>1, <2>4, <2>5, <2>6, Returned
<1>5. QED
  BY <1>2, <1>3, <1>4 DEF Upload!Complete, Upload!Refuses

LEMMA CompletesLateHolds == ASSUME UploadInv, Upload!CompletesLate PROVE UploadInv'
<1>1. /\ Whole /\ upload.pc \in {"abort", "returned"}
      /\ UNCHANGED <<upload, result, unknown>>
  BY DEF Upload!CompletesLate, UploadInv, WholeOnly
<1>2. \/ service' = [open |-> FALSE, object |-> upload.size, completing |-> FALSE]
      \/ service' = [open |-> FALSE, object |-> service.object, completing |-> FALSE]
  <2>1. service.open \in BOOLEAN /\ service = [open |-> service.open, object |-> service.object, completing |-> service.completing]
    BY DEF UploadInv, UploadTypes
  <2>2. CASE service.open
    BY <1>1, <2>2 DEF Upload!CompletesLate, Upload!Assembled, Whole
  <2>3. CASE ~service.open
    BY <2>1, <2>3 DEF Upload!CompletesLate
  <2>4. QED
    BY <2>2, <2>3
<1>3. upload.size # Upload!NoObject /\ service.object \in {Upload!NoObject, upload.size}
  BY DEF UploadInv, UploadTypes, Upload!NoObject
<1>8. service' \in [open : BOOLEAN, object : {Upload!NoObject, upload.size}, completing : BOOLEAN]
  <2>1. \A n \in {Upload!NoObject, upload.size} :
            [open |-> FALSE, object |-> n, completing |-> FALSE]
                \in [open : BOOLEAN, object : {Upload!NoObject, upload.size}, completing : BOOLEAN]
    OBVIOUS
  <2>2. QED
    BY <1>2, <1>3, <2>1
<1>4. UploadTypes'
  BY <1>1, <1>8 DEF UploadInv, UploadTypes
<1>5. ReadSoFar' /\ WholeOnly' /\ FirstRead'
  BY <1>1, <1>2 DEF ReadSoFar, WholeOnly, Whole, FirstRead
<1>6. Told'
  BY <1>1, <1>2, <1>3 DEF UploadInv, Told
<1>7. QED
  BY <1>4, <1>5, <1>6 DEF UploadInv

LEMMA AbortHolds == ASSUME UploadInv, Upload!Abort PROVE UploadInv'
<1>1. PICK tells \in BOOLEAN :
          /\ Upload!Return("error", tells)
          /\ service' = [service EXCEPT !.open = FALSE] \/ (tells /\ service' = service)
  BY DEF Upload!Abort
<1>2. /\ service' \in [open : BOOLEAN, object : {Upload!NoObject, upload.size}, completing : BOOLEAN]
      /\ service'.object = service.object /\ service'.completing = service.completing
      /\ service'.open => tells
  BY <1>1 DEF UploadInv, UploadTypes
<1>3. service.object # Upload!NoObject \/ service.completing => Whole
  BY DEF UploadInv, WholeOnly
<1>4. QED
  BY <1>1, <1>2, <1>3, Returned

LEMMA UploadAlone == part = "upload" /\ [Next]_vars => [Upload!Next]_uploadVars
<1>1. ASSUME part = "upload", Next PROVE [Upload!Next]_uploadVars
  BY <1>1 DEF Next, RenewalStep, FactorStep, ConnectedStep, PoolStep, CacheStep, SavedStep,
     OutboxStep, StripeStep, SchemaStep, PolicyStep, CalendarStep, GeneratedStep,
     MergeStep, DevStep, ModelStep, UploadStep, LifeStep, DecimalStep
<1>2. ASSUME UNCHANGED vars PROVE UNCHANGED uploadVars
  BY <1>2 DEF vars, state, uploadVars
<1>3. QED
  BY <1>1, <1>2

UploadRuns == part = "upload" => UploadInv

LEMMA UploadHolds == UploadRuns /\ [Next]_vars => UploadRuns'
<1>1. ASSUME UploadInv, UNCHANGED uploadVars \/ Upload!PartLands PROVE UploadInv'
  BY <1>1 DEF uploadVars, Upload!PartLands, UploadInv, UploadTypes, ReadSoFar, FirstRead, WholeOnly, Told, Whole,
     Upload!PartLength, Upload!Remaining
<1>2. ASSUME UploadInv, Upload!Next PROVE UploadInv'
  BY <1>1, <1>2, CallerGoesHolds, ReadFirstHolds, InitiateHolds, PutPartHolds, ReadPartHolds,
     CheckEndHolds, CompleteHolds, CompletesLateHolds, AbortHolds DEF Upload!Next
<1>3. QED
  BY <1>1, <1>2, UploadAlone, OnePart DEF UploadRuns

\* An upload leaves the whole object of a reader that held exactly the declared size, or
\* none; an error leaves no upload, or tells of the failed abort, or never learned the ID:
\* for any sizes of parts and objects and whatever answers are lost.
THEOREM UploadsSettle == Spec => []UploadSettled
<1>1. Init => UploadRuns
  BY UploadBegins DEF Init, UploadRuns
<1>2. UploadRuns => UploadSettled
  <2> SUFFICES ASSUME UploadInv PROVE Upload!UploadSettled
    BY DEF UploadSettled, UploadRuns
  <2>1. service.object \in {Upload!NoObject, upload.size}
    BY DEF UploadInv, UploadTypes
  <2>2. service.object # Upload!NoObject => Whole
    BY DEF UploadInv, WholeOnly
  <2>3. QED
    BY <2>1, <2>2 DEF UploadInv, Whole, Told, Upload!UploadSettled
<1>3. QED
  BY <1>1, <1>2, UploadHolds, PTL DEF Spec

-----------------------------------------------------------------------------
(* The development server.                                                 *)

project == x1
tables == x2
dev == x3
app == x4
overlooked == x6
unasked == x7
devVars == <<x1, x2, x3, x4, x5, x6, x7>>
USE DEF project, tables, dev, app, overlooked, unasked

DevTypes ==
    /\ project \in [saved : Nat \ {0}, generated : Nat, sound : BOOLEAN]
    /\ tables \in [schema : Nat, asks : BOOLEAN, stamp : Nat]
    /\ dev \in [pc : {"generate", "compile", "rescan", "launch", "idle", "watch", "look", "ended"},
                first : BOOLEAN, seen : [saved : Nat, generated : Nat], restart : Nat,
                compiled : Nat, failed : BOOLEAN, binary : Nat]
    /\ app \in [kept : BOOLEAN, runs : BOOLEAN, of : Nat, schema : Nat]
    /\ overlooked \in BOOLEAN /\ unasked \in BOOLEAN

\* What the loop remembers is not newer than what there is, and its first scan is not the
\* one after a build.
Remembered ==
    /\ dev.seen.saved <= project.saved /\ dev.restart <= tables.stamp
    /\ dev.pc \in {"rescan", "idle"} => ~dev.first

\* A save the scan has seen was there for the build, but for one it saw first after it.
SeenIsBuilt ==
    dev.pc \in {"look", "launch", "idle"} /\ dev.seen.saved = project.saved /\ ~overlooked
        => dev.compiled = project.saved

\* From one start to the next the binary stays, but for the build before the next.
RunsTheBinary == app.kept /\ dev.pc \notin {"rescan", "launch"} => app.of = dev.binary

\* A migration of the tables the app did not start with will still be asked for.
RunsTheTables ==
    app.kept /\ ~dev.first /\ dev.restart = tables.stamp /\ ~tables.asks /\ ~unasked
        => app.schema = tables.schema

DevInv == DevTypes /\ Remembered /\ SeenIsBuilt /\ RunsTheBinary /\ RunsTheTables

LEMMA DevBegins == Dev!Init => DevInv
<1> SUFFICES ASSUME Dev!Init PROVE DevInv
  OBVIOUS
<1>1. DevTypes
  <2>1. project \in [saved : Nat \ {0}, generated : Nat, sound : BOOLEAN]
    BY DEF Dev!Init
  <2>2. tables \in [schema : Nat, asks : BOOLEAN, stamp : Nat]
    BY DEF Dev!Init
  <2>3. dev \in [pc : {"generate", "compile", "rescan", "launch", "idle", "watch", "look", "ended"},
                 first : BOOLEAN, seen : [saved : Nat, generated : Nat], restart : Nat,
                 compiled : Nat, failed : BOOLEAN, binary : Nat]
    BY DEF Dev!Init, Dev!Never
  <2>4. app \in [kept : BOOLEAN, runs : BOOLEAN, of : Nat, schema : Nat]
    BY DEF Dev!Init
  <2>5. QED
    BY <2>1, <2>2, <2>3, <2>4 DEF Dev!Init, DevTypes
<1>2. Remembered /\ SeenIsBuilt /\ RunsTheBinary /\ RunsTheTables
  BY DEF Dev!Init, Dev!Never, Remembered, SeenIsBuilt, RunsTheBinary, RunsTheTables
<1>3. QED
  BY <1>1, <1>2 DEF DevInv

LEMMA DevUnpacked ==
    ASSUME DevInv
    PROVE  /\ DevTypes /\ Remembered /\ SeenIsBuilt /\ RunsTheBinary /\ RunsTheTables
           /\ project = [saved |-> project.saved, generated |-> project.generated,
                         sound |-> project.sound]
           /\ tables = [schema |-> tables.schema, asks |-> tables.asks, stamp |-> tables.stamp]
           /\ dev = [pc |-> dev.pc, first |-> dev.first, seen |-> dev.seen,
                     restart |-> dev.restart, compiled |-> dev.compiled, failed |-> dev.failed,
                     binary |-> dev.binary]
           /\ app = [kept |-> app.kept, runs |-> app.runs, of |-> app.of, schema |-> app.schema]
  BY DEF DevInv, DevTypes

LEMMA SaveHolds == ASSUME DevInv, Dev!Save PROVE DevInv'
<1> USE DevUnpacked
<1>1. PICK sound \in BOOLEAN : project' = [project EXCEPT !.saved = @ + 1, !.sound = sound]
  BY DEF Dev!Save
<1>2. UNCHANGED <<tables, dev, app, overlooked, unasked>>
  BY DEF Dev!Save
<1>3. DevTypes'
  <2>1. project' = [saved |-> project.saved + 1, generated |-> project.generated, sound |-> sound]
    BY <1>1
  <2>2. project.saved + 1 \in Nat \ {0} /\ project.generated \in Nat
    BY DEF DevTypes
  <2>3. project' \in [saved : Nat \ {0}, generated : Nat, sound : BOOLEAN]
    BY <2>1, <2>2
  <2>4. QED
    BY <1>2, <2>3 DEF DevTypes
<1>4. project'.saved = project.saved + 1 /\ project.saved \in Nat /\ dev.seen.saved \in Nat
  BY <1>1 DEF DevTypes
<1>5. Remembered' /\ SeenIsBuilt'
  BY <1>2, <1>4 DEF Remembered, SeenIsBuilt
<1>6. RunsTheBinary' /\ RunsTheTables'
  BY <1>2 DEF RunsTheBinary, RunsTheTables
<1>7. QED
  BY <1>3, <1>5, <1>6 DEF DevInv

LEMMA MigrateHolds == ASSUME DevInv, Dev!Migrate PROVE DevInv'
<1> USE DevUnpacked
<1>1. tables' = [schema |-> tables.schema + 1, asks |-> TRUE, stamp |-> tables.stamp]
  BY DEF Dev!Migrate
<1>2. UNCHANGED <<project, dev, app, overlooked, unasked>>
  BY DEF Dev!Migrate
<1>3. DevTypes'
  BY <1>1, <1>2 DEF DevTypes
<1>4. Remembered' /\ SeenIsBuilt' /\ RunsTheBinary' /\ RunsTheTables'
  BY <1>1, <1>2 DEF Remembered, SeenIsBuilt, RunsTheBinary, RunsTheTables
<1>5. QED
  BY <1>3, <1>4 DEF DevInv

LEMMA RequestRestartHolds == ASSUME DevInv, Dev!RequestRestart PROVE DevInv'
<1> USE DevUnpacked
<1>1. tables' = [schema |-> tables.schema, asks |-> FALSE, stamp |-> tables.stamp + 1]
  BY DEF Dev!RequestRestart
<1>2. UNCHANGED <<project, dev, app, overlooked, unasked>>
  BY DEF Dev!RequestRestart
<1>3. tables.stamp \in Nat /\ dev.restart \in Nat /\ dev.restart <= tables.stamp
  BY DEF DevTypes, Remembered
<1>4. DevTypes'
  BY <1>1, <1>2 DEF DevTypes
<1>5. Remembered' /\ RunsTheTables'
  BY <1>1, <1>2, <1>3 DEF Remembered, RunsTheTables
<1>6. SeenIsBuilt' /\ RunsTheBinary'
  BY <1>2 DEF SeenIsBuilt, RunsTheBinary
<1>7. QED
  BY <1>4, <1>5, <1>6 DEF DevInv

LEMMA AppEndsHolds == ASSUME DevInv, Dev!AppEnds PROVE DevInv'
<1> USE DevUnpacked
<1>1. app' = [kept |-> app.kept, runs |-> FALSE, of |-> app.of, schema |-> app.schema]
  BY DEF Dev!AppEnds
<1>2. UNCHANGED <<project, tables, dev, overlooked, unasked>>
  BY DEF Dev!AppEnds
<1>3. DevTypes'
  BY <1>1, <1>2 DEF DevTypes
<1>4. Remembered' /\ SeenIsBuilt' /\ RunsTheBinary' /\ RunsTheTables'
  BY <1>1, <1>2 DEF Remembered, SeenIsBuilt, RunsTheBinary, RunsTheTables
<1>5. QED
  BY <1>3, <1>4 DEF DevInv

\* What a start leaves: the binary and the tables of that moment, or no app.
LEMMA Started ==
    ASSUME DevInv, Dev!Start
    PROVE  /\ \/ app' = [kept |-> TRUE, runs |-> TRUE, of |-> dev.binary, schema |-> tables.schema]
              \/ app' = [kept |-> FALSE, runs |-> FALSE, of |-> app.of, schema |-> app.schema]
           /\ unasked' \in BOOLEAN
           /\ app' \in [kept : BOOLEAN, runs : BOOLEAN, of : Nat, schema : Nat]
           /\ app'.kept => app'.of = dev.binary /\ app'.schema = tables.schema
<1> USE DevUnpacked
<1>1. \/ app' = [kept |-> TRUE, runs |-> TRUE, of |-> dev.binary, schema |-> tables.schema]
      \/ app' = [kept |-> FALSE, runs |-> FALSE, of |-> app.of, schema |-> app.schema]
  BY DEF Dev!Start
<1>2. unasked' \in BOOLEAN
  BY DEF Dev!Start, DevTypes
<1>3. dev.binary \in Nat /\ tables.schema \in Nat /\ app.of \in Nat /\ app.schema \in Nat
  BY DEF DevTypes
<1>4. app' \in [kept : BOOLEAN, runs : BOOLEAN, of : Nat, schema : Nat]
  <2>1. \A on \in BOOLEAN : \A m, n \in Nat :
            [kept |-> on, runs |-> on, of |-> m, schema |-> n]
                \in [kept : BOOLEAN, runs : BOOLEAN, of : Nat, schema : Nat]
    OBVIOUS
  <2> DEFINE good == [kept : BOOLEAN, runs : BOOLEAN, of : Nat, schema : Nat]
  <2>2. [kept |-> TRUE, runs |-> TRUE, of |-> dev.binary, schema |-> tables.schema] \in good
    BY <1>3, <2>1
  <2>3. [kept |-> FALSE, runs |-> FALSE, of |-> app.of, schema |-> app.schema] \in good
    BY <1>3, <2>1
  <2> HIDE DEF good
  <2>4. app' \in good
    BY <1>1, <2>2, <2>3
  <2>5. QED
    BY <2>4 DEF good
<1>5. app'.kept => app'.of = dev.binary /\ app'.schema = tables.schema
  BY <1>1
<1>6. QED
  BY <1>1, <1>2, <1>4, <1>5

LEMMA TickRestartHolds == ASSUME DevInv, Dev!TickRestart PROVE DevInv'
<1> USE DevUnpacked
<1>1. /\ dev' = [pc |-> "idle", first |-> dev.first, seen |-> dev.seen, restart |-> tables.stamp,
                 compiled |-> dev.compiled, failed |-> dev.failed, binary |-> dev.binary]
      /\ UNCHANGED <<project, tables, overlooked>> /\ dev.pc = "idle"
  BY DEF Dev!TickRestart
<1>2. /\ app' \in [kept : BOOLEAN, runs : BOOLEAN, of : Nat, schema : Nat]
      /\ unasked' \in BOOLEAN
      /\ app'.kept => app'.of = dev.binary /\ app'.schema = tables.schema
  <2>1. CASE app.kept
    <3>1. Dev!Start
      BY <2>1 DEF Dev!TickRestart
    <3>2. QED
      BY <3>1, Started
  <2>2. CASE ~app.kept
    BY <2>2 DEF Dev!TickRestart, DevTypes
  <2>3. QED
    BY <2>1, <2>2
<1>3. tables.stamp \in Nat
  BY DEF DevTypes
<1>4. DevTypes'
  BY <1>1, <1>2, <1>3 DEF DevTypes
<1>5. Remembered' /\ SeenIsBuilt'
  BY <1>1, <1>3 DEF Remembered, SeenIsBuilt
<1>6. RunsTheBinary' /\ RunsTheTables'
  BY <1>1, <1>2 DEF RunsTheBinary, RunsTheTables
<1>7. QED
  BY <1>4, <1>5, <1>6 DEF DevInv

LEMMA SeenIsThere ==
    ASSUME DevInv
    PROVE  /\ Dev!Watched \in [saved : Nat, generated : Nat]
           /\ Dev!Watched.saved = project.saved /\ project.saved \in Nat
  BY DevUnpacked DEF DevTypes, Dev!Watched

LEMMA TickScanHolds == ASSUME DevInv, Dev!TickScan PROVE DevInv'
<1> USE DevUnpacked
<1>1. /\ dev' = [pc |-> "generate", first |-> dev.first, seen |-> Dev!Watched, restart |-> dev.restart,
                 compiled |-> dev.compiled, failed |-> dev.failed, binary |-> dev.binary]
      /\ UNCHANGED <<project, tables, app, unasked>> /\ overlooked' = FALSE /\ dev.pc = "idle"
  BY DEF Dev!TickScan
<1>2. DevTypes'
  BY <1>1, SeenIsThere DEF DevTypes
<1>3. Remembered' /\ SeenIsBuilt'
  BY <1>1, SeenIsThere DEF Remembered, SeenIsBuilt
<1>4. RunsTheBinary' /\ RunsTheTables'
  BY <1>1 DEF RunsTheBinary, RunsTheTables
<1>5. QED
  BY <1>2, <1>3, <1>4 DEF DevInv

LEMMA GenerateHolds == ASSUME DevInv, Dev!Generate PROVE DevInv'
<1> USE DevUnpacked
<1>1. /\ dev' = [pc |-> "compile", first |-> dev.first, seen |-> dev.seen, restart |-> dev.restart,
                 compiled |-> dev.compiled, failed |-> dev.failed, binary |-> dev.binary]
      /\ UNCHANGED <<tables, app, overlooked, unasked>> /\ dev.pc = "generate"
  BY DEF Dev!Generate
<1>2. PICK n \in Nat : project' = [saved |-> project.saved, generated |-> n, sound |-> project.sound]
  BY DEF Dev!Generate, DevTypes
<1>3. DevTypes'
  BY <1>1, <1>2 DEF DevTypes
<1>4. Remembered' /\ SeenIsBuilt'
  BY <1>1, <1>2 DEF Remembered, SeenIsBuilt
<1>5. RunsTheBinary' /\ RunsTheTables'
  BY <1>1 DEF RunsTheBinary, RunsTheTables
<1>6. QED
  BY <1>3, <1>4, <1>5 DEF DevInv

LEMMA CompileHolds == ASSUME DevInv, Dev!Compile PROVE DevInv'
<1> USE DevUnpacked
<1>1. PICK pc \in {"launch", "rescan", "watch", "idle"}, binary \in Nat :
          /\ dev' = [pc |-> pc, first |-> dev.first, seen |-> dev.seen, restart |-> dev.restart,
                     compiled |-> project.saved, failed |-> ~project.sound, binary |-> binary]
          /\ pc \in {"watch", "idle"} => binary = dev.binary
          /\ pc \in {"rescan", "idle"} => ~dev.first
  <2>1. dev.pc = "compile" /\ project.saved \in Nat /\ dev.binary \in Nat
    BY DEF Dev!Compile, DevTypes
  <2>2. CASE project.sound
    <3>1. CASE dev.first
      BY <2>1, <2>2, <3>1 DEF Dev!Compile
    <3>2. CASE ~dev.first
      BY <2>1, <2>2, <3>2 DEF Dev!Compile
    <3>3. QED
      BY <3>1, <3>2
  <2>3. CASE ~project.sound
    <3>1. CASE dev.first
      BY <2>1, <2>3, <3>1 DEF Dev!Compile
    <3>2. CASE ~dev.first
      BY <2>1, <2>3, <3>2 DEF Dev!Compile
    <3>3. QED
      BY <3>1, <3>2
  <2>4. QED
    BY <2>2, <2>3
<1>2. UNCHANGED <<project, tables, app, overlooked, unasked>> /\ dev.pc = "compile"
  BY DEF Dev!Compile
<1>3. (~project.sound) \in BOOLEAN /\ project.saved \in Nat
  BY DEF DevTypes
<1>4. DevTypes'
  BY <1>1, <1>2, <1>3 DEF DevTypes
<1>5. Remembered' /\ SeenIsBuilt'
  BY <1>1, <1>2 DEF Remembered, SeenIsBuilt
<1>6. RunsTheBinary' /\ RunsTheTables'
  BY <1>1, <1>2 DEF RunsTheBinary, RunsTheTables
<1>7. QED
  BY <1>4, <1>5, <1>6 DEF DevInv

LEMMA RescanHolds == ASSUME DevInv, Dev!Rescan PROVE DevInv'
<1> USE DevUnpacked
<1>1. /\ dev.pc \in {"rescan", "watch"}
      /\ UNCHANGED <<project, tables, app, unasked>>
      /\ overlooked' = (project.saved # dev.compiled)
  BY DEF Dev!Rescan
<1>2. PICK pc \in {"look", "launch"} :
          /\ dev' = [pc |-> pc, first |-> dev.first, seen |-> Dev!Watched, restart |-> dev.restart,
                     compiled |-> dev.compiled, failed |-> dev.failed, binary |-> dev.binary]
          /\ pc = IF dev.first THEN "look" ELSE "launch"
  BY DEF Dev!Rescan
<1>3. dev.pc = "rescan" => ~dev.first
  BY DEF Remembered
<1>4. DevTypes'
  BY <1>1, <1>2, SeenIsThere DEF DevTypes
<1>5. Remembered'
  BY <1>1, <1>2, SeenIsThere DEF Remembered
<1>8. SeenIsBuilt'
  <2>1. dev'.compiled = dev.compiled /\ project'.saved = project.saved
    BY <1>1, <1>2
  <2>2. ~overlooked' => dev.compiled = project.saved
    BY <1>1
  <2>3. QED
    BY <2>1, <2>2 DEF SeenIsBuilt
<1>6. RunsTheBinary' /\ RunsTheTables'
  BY <1>1, <1>2, <1>3 DEF RunsTheBinary, RunsTheTables
<1>7. QED
  BY <1>4, <1>5, <1>6, <1>8 DEF DevInv

LEMMA LookHolds == ASSUME DevInv, Dev!Look PROVE DevInv'
<1> USE DevUnpacked
<1>1. /\ dev' = [pc |-> "idle", first |-> FALSE, seen |-> dev.seen, restart |-> tables.stamp,
                 compiled |-> dev.compiled, failed |-> dev.failed, binary |-> dev.binary]
      /\ UNCHANGED <<project, tables, app, overlooked>> /\ dev.pc = "look"
      /\ unasked' = (app.schema # tables.schema /\ ~tables.asks)
  BY DEF Dev!Look
<1>2. tables.stamp \in Nat
  BY DEF DevTypes
<1>3. DevTypes'
  BY <1>1, <1>2 DEF DevTypes
<1>4. Remembered' /\ SeenIsBuilt'
  BY <1>1, <1>2 DEF Remembered, SeenIsBuilt
<1>5. RunsTheBinary' /\ RunsTheTables'
  BY <1>1 DEF RunsTheBinary, RunsTheTables
<1>6. QED
  BY <1>3, <1>4, <1>5 DEF DevInv

LEMMA LaunchHolds == ASSUME DevInv, Dev!Launch PROVE DevInv'
<1> USE DevUnpacked
<1>1. PICK pc \in {"idle", "watch", "ended"} :
          /\ dev' = [pc |-> pc, first |-> dev.first, seen |-> dev.seen, restart |-> dev.restart,
                     compiled |-> dev.compiled, failed |-> dev.failed, binary |-> dev.binary]
          /\ pc = "idle" => ~dev.first
  BY DEF Dev!Launch
<1>2. /\ UNCHANGED <<project, tables, overlooked>> /\ dev.pc = "launch"
      /\ Dev!Start
  BY DEF Dev!Launch
<1>3. /\ app' \in [kept : BOOLEAN, runs : BOOLEAN, of : Nat, schema : Nat]
      /\ unasked' \in BOOLEAN
      /\ app'.kept => app'.of = dev.binary /\ app'.schema = tables.schema
  BY <1>2, Started
<1>4. DevTypes'
  BY <1>1, <1>2, <1>3 DEF DevTypes
<1>5. Remembered' /\ SeenIsBuilt'
  BY <1>1, <1>2 DEF Remembered, SeenIsBuilt
<1>6. RunsTheBinary' /\ RunsTheTables'
  BY <1>1, <1>2, <1>3 DEF RunsTheBinary, RunsTheTables
<1>7. QED
  BY <1>4, <1>5, <1>6 DEF DevInv

LEMMA DevAlone == part = "dev" /\ [Next]_vars => [Dev!Next]_devVars
<1>1. ASSUME part = "dev", Next PROVE [Dev!Next]_devVars
  BY <1>1 DEF Next, RenewalStep, FactorStep, ConnectedStep, PoolStep, CacheStep, SavedStep,
     OutboxStep, StripeStep, SchemaStep, PolicyStep, CalendarStep, GeneratedStep,
     MergeStep, DevStep, ModelStep, UploadStep, LifeStep, DecimalStep
<1>2. ASSUME UNCHANGED vars PROVE UNCHANGED devVars
  BY <1>2 DEF vars, state, devVars
<1>3. QED
  BY <1>1, <1>2

DevRuns == part = "dev" => DevInv

LEMMA DevHolds == DevRuns /\ [Next]_vars => DevRuns'
<1>1. ASSUME DevInv, UNCHANGED devVars PROVE DevInv'
  BY <1>1 DEF devVars, DevInv, DevTypes, Remembered, SeenIsBuilt, RunsTheBinary, RunsTheTables
<1>2. ASSUME DevInv, Dev!Next PROVE DevInv'
  BY <1>2, SaveHolds, MigrateHolds, RequestRestartHolds, AppEndsHolds, TickRestartHolds,
     TickScanHolds, GenerateHolds, CompileHolds, RescanHolds, LookHolds, LaunchHolds DEF Dev!Next
<1>3. QED
  BY <1>1, <1>2, DevAlone, OnePart DEF DevRuns

\* Once the development server has nothing left to notice, the last build read what is
\* saved, and what runs is that build's binary with the schema as migrated, but for the
\* save and the migration that the code overlooks: for any saves, migrations and falls.
THEOREM DevKeepsUp == Spec => []DevFollows
<1>1. Init => DevRuns
  BY DevBegins DEF Init, DevRuns
<1>2. DevRuns => DevFollows
  <2> SUFFICES ASSUME DevInv PROVE Dev!DevFollows
    BY DEF DevFollows, DevRuns
  <2>1. Dev!BuildsWhatIsSaved
    BY DevUnpacked DEF Dev!BuildsWhatIsSaved, Dev!Watched, SeenIsBuilt
  <2>2. Dev!RunsWhatIsBuilt
    BY DevUnpacked DEF Dev!RunsWhatIsBuilt, RunsTheBinary, RunsTheTables, Remembered
  <2>3. QED
    BY <2>1, <2>2 DEF Dev!DevFollows
<1>3. QED
  BY <1>1, <1>2, DevHolds, PTL DEF Spec

-----------------------------------------------------------------------------
(* The settings saved while the application runs.                          *)

credential == x1
clock == x2
overrides == x3
seen == x4
config == x5
watch == x6
save == x7
repeated == x9
overtaken == x10
raced == x11
settingVars == <<x1, x2, x3, x4, x5, x6, x7, x8, x9, x10, x11>>
USE DEF credential, clock, overrides, seen, config, watch, save, repeated, overtaken, raced

Write == [name : Saved!Names, value : {"set", Nothing}]
Request == [stops : BOOLEAN, back : BOOLEAN, before : SUBSET Write]
InForm ==
    [pc : {"idle"}]
    \cup [pc : {"fields"}, form : Request, left : SUBSET Write]
    \cup [pc : {"begun"}, form : Request, left : SUBSET Write, write : Write, at : Nat]
    \cup [pc : {"stored"}, form : Request, left : SUBSET Write, write : Write]
    \cup [pc : {"switch"}, form : Request, read : Saved!Settings]

SavedTypes ==
    /\ credential \in [Saved!Names -> Saved!Row] /\ clock \in Nat
    /\ overrides \in [Pair -> Saved!Settings]
    /\ seen = [n \in Pair |-> seen[n]]
    /\ config = [n \in Pair |-> config[n]]
    /\ watch = [n \in Pair |-> watch[n]]
    /\ \A n \in Pair : watch[n].pc = "rows" => watch[n].rows \in Saved!Settings
    /\ save \in [Pair -> InForm]

\* A node that is down has no form.
NoFormDown == \A n \in Pair : watch[n] = Saved!Down => save[n] = Saved!Idle

NoReturn == ~repeated /\ ~overtaken

\* As long as no version came back, a node that remembers the table's version has its
\* values, and so will one that has read them.
HasTheTable(n) ==
    /\ watch[n] # Saved!Down /\ seen[n] = Saved!Version => overrides[n] = Saved!Stored
    /\ watch[n].pc = "rows" /\ watch[n].version = Saved!Version => watch[n].rows = Saved!Stored

\* With nothing more to apply, its packs run with them and its form is about to switch
\* to them; its poll is, if it is about to switch.
RunsOnIt(n) ==
    seen[n] = Saved!Version =>
        /\ watch[n].pc \in {"idle", "version", "rows"} =>
              /\ config[n] = Saved!Stored \/ Saved!Stored \in {[provider |-> "set", host |-> Nothing]}
              /\ save[n].pc = "switch" => save[n].read = Saved!Stored
        /\ watch[n].pc = "switch" => watch[n].read = Saved!Stored

SavedInv ==
    /\ SavedTypes /\ NoFormDown
    /\ NoReturn => \A n \in Pair : HasTheTable(n)
    /\ NoReturn /\ ~raced => \A n \in Pair : RunsOnIt(n)

LEMMA SameTable ==
    ASSUME credential' = credential
    PROVE  Saved!Version' = Saved!Version /\ Saved!Stored' = Saved!Stored
<1>1. Saved!Stored' = Saved!Stored
  BY DEF Saved!Stored
<1>2. Saved!Newest' = Saved!Newest
  BY Zenon DEF Saved!Newest
<1>3. Saved!Version' = Saved!Version
  BY <1>2 DEF Saved!Version
<1>4. QED
  BY <1>1, <1>3

LEMMA StoredIsSettings == ASSUME SavedTypes PROVE Saved!Stored \in Saved!Settings
<1>1. \A f \in Saved!Names : credential[f].value \in {"set"} \cup {Nothing}
  BY DEF SavedTypes, Saved!Row
<1> HIDE DEF credential
<1>2. QED
  BY <1>1 DEF Saved!Stored, Saved!Settings, credential

LEMMA SavedBegins == Saved!Init => SavedInv
<1> SUFFICES ASSUME Saved!Init PROVE SavedInv
  OBVIOUS
<1>1. /\ credential = [f \in Saved!Names |-> Saved!NoRow] /\ clock = 0
      /\ overrides = [n \in Pair |-> Saved!Stored] /\ config = overrides
      /\ seen = [n \in Pair |-> [count |-> 0, newest |-> 0]]
      /\ watch = [n \in Pair |-> Saved!Idle] /\ save = [n \in Pair |-> Saved!Idle]
  BY DEF Saved!Init
<1>2. Saved!NoRow \in Saved!Row
  BY DEF Saved!NoRow, Saved!Row
<1>3. credential \in [Saved!Names -> Saved!Row]
  BY <1>1, <1>2
<1>4. Saved!Stored \in Saved!Settings
  <2>1. \A f \in Saved!Names : credential[f].value = Nothing
    BY <1>1 DEF Saved!NoRow
  <2>2. QED
    BY <2>1 DEF Saved!Stored, Saved!Settings
<1>5. Saved!Idle \in InForm /\ Saved!Idle.pc = "idle" /\ Saved!Down.pc = "down"
  BY DEF Saved!Idle, Saved!Down, InForm
<1>6. SavedTypes
  BY <1>1, <1>3, <1>4, <1>5 DEF SavedTypes
<1>7. NoFormDown /\ \A n \in Pair : HasTheTable(n) /\ RunsOnIt(n)
  BY <1>1, <1>5 DEF NoFormDown, HasTheTable, RunsOnIt
<1>8. QED
  BY <1>6, <1>7 DEF SavedInv

\* What a step of one node leaves the others with, the table being the same.
LEMMA OtherNodes ==
    ASSUME SavedInv, NEW n \in Pair, credential' = credential,
           NoReturn' => NoReturn, raced => raced',
           \A o \in Pair : o # n =>
               /\ overrides'[o] = overrides[o] /\ seen'[o] = seen[o] /\ config'[o] = config[o]
               /\ watch'[o] = watch[o] /\ save'[o] = save[o],
           SavedTypes',
           watch'[n] = Saved!Down => save'[n] = Saved!Idle,
           NoReturn' => HasTheTable(n)', NoReturn' /\ ~raced' => RunsOnIt(n)'
    PROVE  SavedInv'
<1>1. Saved!Version' = Saved!Version /\ Saved!Stored' = Saved!Stored
  BY SameTable
<1>2. NoFormDown'
  BY DEF SavedInv, NoFormDown
<1>3. ASSUME NoReturn', NEW o \in Pair, o # n PROVE HasTheTable(o)'
  <2>1. HasTheTable(o)
    BY <1>3 DEF SavedInv
  <2>2. QED
    BY <1>1, <1>3, <2>1 DEF HasTheTable
<1>4. ASSUME NoReturn', ~raced', NEW o \in Pair, o # n PROVE RunsOnIt(o)'
  <2>1. RunsOnIt(o)
    BY <1>4 DEF SavedInv
  <2>2. QED
    BY <1>1, <1>4, <2>1 DEF RunsOnIt
<1>5. QED
  BY <1>2, <1>3, <1>4 DEF SavedInv

\* A step of a node's poll that leaves what it holds.
LEMMA PollMoves ==
    ASSUME SavedInv, NEW n \in Pair, NEW w, watch' = [watch EXCEPT ![n] = w],
           w # Saved!Down, watch[n] # Saved!Down,
           w.pc = "rows" => w.rows \in Saved!Settings,
           w.pc = "rows" /\ NoReturn /\ w.version = Saved!Version => w.rows = Saved!Stored,
           w.pc \in {"idle", "version", "rows"} => watch[n].pc \in {"idle", "version", "rows"},
           w.pc = "switch" => w.read = overrides[n],
           UNCHANGED <<credential, clock, overrides, seen, config, save, repeated, overtaken, raced>>
    PROVE  SavedInv'
<1>1. Saved!Version' = Saved!Version /\ Saved!Stored' = Saved!Stored
  BY SameTable
<1>2. /\ watch' = [o \in Pair |-> watch'[o]] /\ watch'[n] = w
      /\ \A o \in Pair : o # n => watch'[o] = watch[o]
  BY DEF SavedInv, SavedTypes
<1>3. SavedTypes'
  <2>1. \A o \in Pair : watch'[o].pc = "rows" => watch'[o].rows \in Saved!Settings
    BY <1>2 DEF SavedInv, SavedTypes
  <2>2. QED
    BY <1>2, <2>1 DEF SavedInv, SavedTypes
<1>4. NoReturn' <=> NoReturn
  BY DEF NoReturn
<1>5. ASSUME NoReturn PROVE HasTheTable(n)'
  BY <1>1, <1>2, <1>5 DEF SavedInv, HasTheTable
<1>6. ASSUME NoReturn, ~raced PROVE RunsOnIt(n)'
  BY <1>1, <1>2, <1>6 DEF SavedInv, HasTheTable, RunsOnIt
<1>7. QED
  BY <1>2, <1>3, <1>4, <1>5, <1>6, OtherNodes

LEMMA RefreshKeeps == ASSUME SavedInv, NEW n \in Pair, Saved!Refresh(n) PROVE SavedInv'
<1> DEFINE w == [pc |-> "version", version |-> Saved!Version]
<1>1. /\ watch[n] = Saved!Idle /\ watch' = [watch EXCEPT ![n] = w]
      /\ UNCHANGED <<credential, clock, overrides, seen, config, save, repeated, overtaken, raced>>
  BY DEF Saved!Refresh, Saved!Poll
<1>2. w.pc = "version" /\ watch[n].pc = "idle" /\ Saved!Down.pc = "down"
  BY <1>1 DEF Saved!Idle, Saved!Down
<1> HIDE DEF w
<1>3. w # Saved!Down /\ watch[n] # Saved!Down
  BY <1>2
<1>4. QED
  BY <1>1, <1>2, <1>3, PollMoves

LEMMA ReadKeeps == ASSUME SavedInv, NEW n \in Pair, Saved!Read(n) PROVE SavedInv'
<1> DEFINE w == [pc |-> "rows", version |-> watch[n].version, rows |-> Saved!Stored]
<1>1. /\ watch[n].pc = "version" /\ watch' = [watch EXCEPT ![n] = w]
      /\ UNCHANGED <<credential, clock, overrides, seen, config, save, repeated, overtaken, raced>>
  BY DEF Saved!Read, Saved!Poll
<1>2. w.pc = "rows" /\ w.rows = Saved!Stored /\ Saved!Down.pc = "down"
  BY DEF Saved!Down
<1>3. w.rows \in Saved!Settings
  BY <1>2, StoredIsSettings DEF SavedInv
<1> HIDE DEF w
<1>4. w # Saved!Down /\ watch[n] # Saved!Down
  BY <1>1, <1>2
<1>5. QED
  BY <1>1, <1>2, <1>3, <1>4, PollMoves

LEMMA LoadFailsKeeps == ASSUME SavedInv, NEW n \in Pair, Saved!LoadFails(n) PROVE SavedInv'
<1>1. /\ watch[n].pc \in {"version", "rows"} /\ watch' = [watch EXCEPT ![n] = Saved!Idle]
      /\ UNCHANGED <<credential, clock, overrides, seen, config, save, repeated, overtaken, raced>>
  BY DEF Saved!LoadFails, Saved!Poll
<1>2. Saved!Idle.pc = "idle" /\ Saved!Down.pc = "down"
  BY DEF Saved!Idle, Saved!Down
<1>3. Saved!Idle # Saved!Down /\ watch[n] # Saved!Down
  BY <1>1, <1>2
<1>4. QED
  BY <1>1, <1>2, <1>3, PollMoves

LEMMA ReconfigureKeeps == ASSUME SavedInv, NEW n \in Pair, Saved!Reconfigure(n) PROVE SavedInv'
<1> DEFINE w == [pc |-> "switch", read |-> overrides[n]]
<1>1. /\ watch[n].pc = "apply" /\ watch' = [watch EXCEPT ![n] = w]
      /\ UNCHANGED <<credential, clock, overrides, seen, config, save, repeated, overtaken, raced>>
  BY DEF Saved!Reconfigure, Saved!Poll
<1>2. w.pc = "switch" /\ w.read = overrides[n] /\ Saved!Down.pc = "down"
  BY DEF Saved!Down
<1> HIDE DEF w
<1>3. w # Saved!Down /\ watch[n] # Saved!Down
  BY <1>1, <1>2
<1>4. QED
  BY <1>1, <1>2, <1>3, PollMoves

\* The rows read, and with them the version read before.
LEMMA LoadKeeps == ASSUME SavedInv, NEW n \in Pair, Saved!Load(n) PROVE SavedInv'
<1> DEFINE w == [pc |-> "apply"]
<1>1. /\ watch[n].pc = "rows" /\ watch' = [watch EXCEPT ![n] = w]
      /\ overrides' = [overrides EXCEPT ![n] = watch[n].rows]
      /\ seen' = [seen EXCEPT ![n] = watch[n].version]
      /\ UNCHANGED <<credential, clock, config, save, repeated, overtaken, raced>>
  BY DEF Saved!Load, Saved!Poll
<1>2. w.pc = "apply" /\ Saved!Down.pc = "down"
  BY DEF Saved!Down
<1> HIDE DEF w
<1>3. w # Saved!Down /\ watch[n] # Saved!Down
  BY <1>1, <1>2
<1>4. Saved!Version' = Saved!Version /\ Saved!Stored' = Saved!Stored
  BY <1>1, SameTable
<1>5. /\ watch' = [o \in Pair |-> watch'[o]] /\ watch'[n] = w
      /\ seen' = [o \in Pair |-> seen'[o]] /\ seen'[n] = watch[n].version
      /\ overrides' \in [Pair -> Saved!Settings] /\ overrides'[n] = watch[n].rows
      /\ \A o \in Pair : o # n => /\ watch'[o] = watch[o] /\ seen'[o] = seen[o]
                                  /\ overrides'[o] = overrides[o]
  BY <1>1 DEF SavedInv, SavedTypes
<1>6. SavedTypes'
  <2>1. \A o \in Pair : watch'[o].pc = "rows" => watch'[o].rows \in Saved!Settings
    BY <1>2, <1>5 DEF SavedInv, SavedTypes
  <2>2. QED
    BY <1>1, <1>5, <2>1 DEF SavedInv, SavedTypes
<1>7. NoReturn' <=> NoReturn
  BY <1>1 DEF NoReturn
<1>8. ASSUME NoReturn PROVE HasTheTable(n)'
  BY <1>1, <1>2, <1>4, <1>5, <1>8 DEF SavedInv, HasTheTable
<1>9. RunsOnIt(n)'
  BY <1>2, <1>5 DEF RunsOnIt
<1>10. QED
  BY <1>1, <1>3, <1>5, <1>6, <1>7, <1>8, <1>9, OtherNodes

\* The packs switch to what was read; a form about to switch too races with it.
LEMMA SwitchKeeps == ASSUME SavedInv, NEW n \in Pair, Saved!Switch(n) PROVE SavedInv'
<1>1. /\ watch[n].pc = "switch" /\ watch' = [watch EXCEPT ![n] = Saved!Idle]
      /\ Saved!SwitchTo(n, watch[n].read)
      /\ raced' = (raced \/ save[n].pc = "switch")
      /\ UNCHANGED <<credential, clock, overrides, seen, save, repeated, overtaken>>
  BY DEF Saved!Switch, Saved!Poll
<1>2. Saved!Idle.pc = "idle" /\ Saved!Down.pc = "down"
  BY DEF Saved!Idle, Saved!Down
<1>3. Saved!Idle # Saved!Down /\ watch[n] # Saved!Down
  BY <1>1, <1>2
<1>4. Saved!Version' = Saved!Version /\ Saved!Stored' = Saved!Stored
  BY <1>1, SameTable
<1>5. /\ watch' = [o \in Pair |-> watch'[o]] /\ watch'[n] = Saved!Idle
      /\ config' = [o \in Pair |-> config'[o]]
      /\ watch[n].read \in Saved!Accepted => config'[n] = watch[n].read
      /\ \A o \in Pair : o # n => watch'[o] = watch[o] /\ config'[o] = config[o]
  BY <1>1 DEF SavedInv, SavedTypes, Saved!SwitchTo
<1>6. SavedTypes'
  <2>1. \A o \in Pair : watch'[o].pc = "rows" => watch'[o].rows \in Saved!Settings
    BY <1>2, <1>5 DEF SavedInv, SavedTypes
  <2>2. QED
    BY <1>1, <1>5, <2>1 DEF SavedInv, SavedTypes
<1>7. (NoReturn' <=> NoReturn) /\ (raced => raced')
  BY <1>1 DEF NoReturn
<1>8. ASSUME NoReturn PROVE HasTheTable(n)'
  BY <1>1, <1>2, <1>3, <1>4, <1>5, <1>8 DEF SavedInv, HasTheTable
<1>9. ASSUME NoReturn, ~raced' PROVE RunsOnIt(n)'
  <2>1. ~raced /\ save[n].pc # "switch"
    BY <1>1, <1>9
  <2>2. seen[n] = Saved!Version => watch[n].read = Saved!Stored
    BY <1>1, <1>9, <2>1 DEF SavedInv, RunsOnIt
  <2>3. Saved!Stored \in Saved!Accepted
        \/ Saved!Stored \in {[provider |-> "set", host |-> Nothing]}
    BY StoredIsSettings DEF SavedInv, Saved!Accepted
  <2>4. seen[n] = Saved!Version => config'[n] = Saved!Stored
                                   \/ Saved!Stored \in {[provider |-> "set", host |-> Nothing]}
    BY <1>5, <2>2, <2>3
  <2>5. QED
    BY <1>1, <1>2, <1>4, <1>5, <2>1, <2>4 DEF RunsOnIt
<1>10. QED
  BY <1>1, <1>3, <1>5, <1>6, <1>7, <1>8, <1>9, OtherNodes

\* A step of a form that leaves the table and the node's own copy.
LEMMA FormMoves ==
    ASSUME SavedInv, NEW n \in Pair, NEW s, s \in InForm,
           save' = [save EXCEPT ![n] = s],
           s = Saved!Idle \/ save[n] # Saved!Idle \/ watch[n] # Saved!Down,
           s.pc = "switch" => s.read = overrides[n], clock' \in Nat,
           UNCHANGED <<credential, overrides, seen, config, watch, repeated, overtaken, raced>>
    PROVE  SavedInv'
<1>1. Saved!Version' = Saved!Version /\ Saved!Stored' = Saved!Stored
  BY SameTable
<1>2. /\ save' \in [Pair -> InForm] /\ save'[n] = s
      /\ \A o \in Pair : o # n => save'[o] = save[o]
  BY DEF SavedInv, SavedTypes
<1>3. SavedTypes'
  BY <1>2 DEF SavedInv, SavedTypes
<1>4. watch'[n] = Saved!Down => save'[n] = Saved!Idle
  BY <1>2 DEF SavedInv, NoFormDown
<1>5. NoReturn' <=> NoReturn
  BY DEF NoReturn
<1>6. ASSUME NoReturn PROVE HasTheTable(n)'
  BY <1>1, <1>2, <1>6 DEF SavedInv, HasTheTable
<1>7. ASSUME NoReturn, ~raced PROVE RunsOnIt(n)'
  <2>1. HasTheTable(n) /\ RunsOnIt(n)
    BY <1>7 DEF SavedInv
  <2>2. watch[n].pc \in {"idle", "version", "rows"} => watch[n] # Saved!Down
    BY DEF Saved!Down
  <2>3. QED
    BY <1>1, <1>2, <2>1, <2>2 DEF HasTheTable, RunsOnIt
<1>8. QED
  BY <1>2, <1>3, <1>4, <1>5, <1>6, <1>7, OtherNodes

LEMMA PostKeeps == ASSUME SavedInv, NEW n \in Pair, Saved!Post(n) PROVE SavedInv'
<1>1. /\ watch[n] # Saved!Down
      /\ UNCHANGED <<credential, clock, overrides, seen, config, watch, repeated, overtaken, raced>>
  BY DEF Saved!Post
<1>2. PICK form \in [Saved!Names -> {"set"} \cup {Nothing, Wrong}] :
          save' = [save EXCEPT ![n] =
              Saved!Writing([stops |-> Saved!Refusal(form) # {}, back |-> FALSE,
                             before |-> Saved!Writes(Saved!Changes(n, form), overrides[n])],
                            Saved!Writes(Saved!Changes(n, form), form))]
  BY DEF Saved!Post, Saved!Form
<1> DEFINE names == Saved!Changes(n, form)
           before == Saved!Writes(names, overrides[n])
           left == Saved!Writes(names, form)
           request == [stops |-> Saved!Refusal(form) # {}, back |-> FALSE, before |-> before]
           s == Saved!Writing(request, left)
<1>3. \A f \in names : f \in Saved!Names /\ form[f] \in {"set", Nothing}
  BY DEF Saved!Changes, Saved!Refusal
<1>4. overrides[n] \in Saved!Settings
  BY DEF SavedInv, SavedTypes
<1> HIDE DEF names
<1>5. left \in SUBSET Write /\ before \in SUBSET Write
  BY <1>3, <1>4 DEF Saved!Writes, Write, Saved!Settings
<1> HIDE DEF left, before
<1>6. request \in Request
  <2>1. (Saved!Refusal(form) # {}) \in BOOLEAN
    OBVIOUS
  <2>2. \A b \in BOOLEAN : [stops |-> b, back |-> FALSE, before |-> before] \in Request
    BY <1>5 DEF Request
  <2>3. QED
    BY <2>1, <2>2
<1> HIDE DEF request
<1>7. s \in InForm /\ s.pc = "fields"
  BY <1>5, <1>6 DEF InForm, Saved!Writing
<1>8. save' = [save EXCEPT ![n] = s]
  BY <1>2 DEF names, left, before, request
<1>9. clock' \in Nat
  BY <1>1 DEF SavedInv, SavedTypes
<1> HIDE DEF s
<1>10. QED
  BY <1>1, <1>7, <1>8, <1>9, FormMoves

LEMMA StopKeeps == ASSUME SavedInv, NEW n \in Pair, Saved!Stop(n) PROVE SavedInv'
<1>1. /\ save' = [save EXCEPT ![n] = Saved!Idle]
      /\ UNCHANGED <<credential, clock, overrides, seen, config, watch, repeated, overtaken, raced>>
  BY DEF Saved!Stop, Saved!Form
<1>2. Saved!Idle \in InForm /\ Saved!Idle.pc = "idle"
  BY DEF Saved!Idle, InForm
<1>3. clock' \in Nat
  BY <1>1 DEF SavedInv, SavedTypes
<1>4. QED
  BY <1>1, <1>2, <1>3, FormMoves

LEMMA BeginWriteKeeps == ASSUME SavedInv, NEW n \in Pair, Saved!BeginWrite(n) PROVE SavedInv'
<1>1. PICK w \in save[n].left :
          save' = [save EXCEPT ![n] = [pc |-> "begun", form |-> save[n].form,
                                       left |-> save[n].left \ {w}, write |-> w, at |-> clock + 1]]
  BY DEF Saved!BeginWrite, Saved!Form
<1>2. /\ save[n].pc = "fields" /\ clock' = clock + 1
      /\ UNCHANGED <<credential, overrides, seen, config, watch, repeated, overtaken, raced>>
  BY DEF Saved!BeginWrite
<1>3. save[n] \in [pc : {"fields"}, form : Request, left : SUBSET Write]
  BY <1>2 DEF SavedInv, SavedTypes, InForm
<1>4. clock' \in Nat
  BY <1>2 DEF SavedInv, SavedTypes
<1> DEFINE s == [pc |-> "begun", form |-> save[n].form, left |-> save[n].left \ {w},
                 write |-> w, at |-> clock + 1]
<1>5. save[n].form \in Request /\ save[n].left \ {w} \in SUBSET Write /\ w \in Write
  BY <1>3
<1>6. s \in InForm /\ s.pc = "begun"
  BY <1>2, <1>4, <1>5 DEF InForm
<1>7. save[n] # Saved!Idle
  BY <1>2 DEF Saved!Idle
<1>8. save' = [save EXCEPT ![n] = s]
  BY <1>1
<1> HIDE DEF s
<1>9. QED
  BY <1>2, <1>4, <1>6, <1>7, <1>8, FormMoves

LEMMA PutBackFailsKeeps == ASSUME SavedInv, NEW n \in Pair, Saved!PutBackFails(n) PROVE SavedInv'
<1> DEFINE s == Saved!Writing(save[n].form, save[n].left)
<1>1. /\ save[n].pc = "begun" /\ save' = [save EXCEPT ![n] = s]
      /\ UNCHANGED <<credential, clock, overrides, seen, config, watch, repeated, overtaken, raced>>
  BY DEF Saved!PutBackFails, Saved!Form
<1>2. save[n] \in [pc : {"begun"}, form : Request, left : SUBSET Write, write : Write, at : Nat]
  BY <1>1 DEF SavedInv, SavedTypes, InForm
<1>3. clock' \in Nat
  BY <1>1 DEF SavedInv, SavedTypes
<1>4. s \in InForm /\ s.pc = "fields"
  BY <1>2 DEF InForm, Saved!Writing
<1>5. save[n] # Saved!Idle
  BY <1>1 DEF Saved!Idle
<1> HIDE DEF s
<1>6. QED
  BY <1>1, <1>3, <1>4, <1>5, FormMoves

LEMMA ApplyKeeps == ASSUME SavedInv, NEW n \in Pair, Saved!Apply(n) PROVE SavedInv'
<1> DEFINE s == Saved!Switching(save[n].form, overrides[n])
<1>1. /\ save[n].pc = "fields" /\ save' = [save EXCEPT ![n] = s]
      /\ UNCHANGED <<credential, clock, overrides, seen, config, watch, repeated, overtaken, raced>>
  BY DEF Saved!Apply, Saved!Form
<1>2. save[n] \in [pc : {"fields"}, form : Request, left : SUBSET Write]
  BY <1>1 DEF SavedInv, SavedTypes, InForm
<1>3. clock' \in Nat /\ overrides[n] \in Saved!Settings
  BY <1>1 DEF SavedInv, SavedTypes
<1>4. s \in InForm /\ s.pc = "switch" /\ s.read = overrides[n]
  BY <1>2, <1>3 DEF InForm, Saved!Switching
<1>5. save[n] # Saved!Idle
  BY <1>1 DEF Saved!Idle
<1> HIDE DEF s
<1>6. QED
  BY <1>1, <1>3, <1>4, <1>5, FormMoves

\* A write: nobody remembers the version it makes, or one has come back.
LEMMA CommitWriteKeeps == ASSUME SavedInv, NEW n \in Pair, Saved!CommitWrite(n) PROVE SavedInv'
<1> DEFINE w == save[n].write
           s == [pc |-> "stored", form |-> save[n].form, left |-> save[n].left, write |-> w]
           r == IF w.value = Nothing THEN Saved!NoRow ELSE [value |-> w.value, at |-> save[n].at]
<1>1. /\ save[n].pc = "begun" /\ save' = [save EXCEPT ![n] = s]
      /\ credential' = [credential EXCEPT ![w.name] = r]
      /\ UNCHANGED <<clock, overrides, seen, config, watch, overtaken, raced>>
  BY DEF Saved!CommitWrite, Saved!Form
<1>2. repeated' = (repeated \/ Saved!Version' \in Saved!Versions)
  BY DEF Saved!CommitWrite
<1>3. save[n] \in [pc : {"begun"}, form : Request, left : SUBSET Write, write : Write, at : Nat]
  BY <1>1 DEF SavedInv, SavedTypes, InForm
<1>4. s \in InForm /\ w \in Write /\ save[n].at \in Nat
  BY <1>3 DEF InForm
<1>5. r \in Saved!Row
  BY <1>4 DEF Write, Saved!Row, Saved!NoRow
<1>6. save[n] # Saved!Idle
  BY <1>1 DEF Saved!Idle
<1> HIDE DEF s, r, w
<1>7. SavedTypes'
  BY <1>1, <1>4, <1>5 DEF SavedInv, SavedTypes
<1>8. NoFormDown'
  BY <1>1, <1>6 DEF SavedInv, SavedTypes, NoFormDown
<1>9. ASSUME NoReturn', NEW o \in Pair
      PROVE  /\ Saved!Version' # seen'[o]
             /\ ~(watch'[o].pc = "rows" /\ watch'[o].version = Saved!Version')
  <2>1. Saved!Version' \notin Saved!Versions
    BY <1>2, <1>9 DEF NoReturn
  <2>2. seen[o] \in Saved!Versions
    BY DEF Saved!Versions
  <2>3. watch[o].pc = "rows" => watch[o].version \in Saved!Versions
    BY DEF Saved!Versions
  <2>4. QED
    BY <1>1, <2>1, <2>2, <2>3
<1>10. NoReturn' => \A o \in Pair : HasTheTable(o)' /\ RunsOnIt(o)'
  BY <1>9 DEF HasTheTable, RunsOnIt
<1>11. QED
  BY <1>7, <1>8, <1>10 DEF SavedInv

\* The node's own copy takes the value written, unless a newer row was loaded.
LEMMA SetOverrideKeeps == ASSUME SavedInv, NEW n \in Pair, Saved!SetOverride(n) PROVE SavedInv'
<1> DEFINE w == save[n].write
           s == Saved!Writing(save[n].form, save[n].left)
           own == [overrides[n] EXCEPT ![w.name] = w.value]
<1>1. /\ save[n].pc = "stored" /\ save' = [save EXCEPT ![n] = s]
      /\ overrides' = [overrides EXCEPT ![n] = own]
      /\ overtaken' = (overtaken \/ credential[w.name].value # w.value)
      /\ UNCHANGED <<credential, clock, seen, config, watch, repeated, raced>>
  BY DEF Saved!SetOverride, Saved!Form
<1>2. save[n] \in [pc : {"stored"}, form : Request, left : SUBSET Write, write : Write]
  BY <1>1 DEF SavedInv, SavedTypes, InForm
<1>3. s \in InForm /\ s.pc = "fields" /\ w \in Write
  BY <1>2 DEF InForm, Saved!Writing
<1>4. w.name \in Saved!Names /\ w.value \in {"set"} \cup {Nothing}
  BY <1>3 DEF Write
<1>5. save[n] # Saved!Idle
  BY <1>1 DEF Saved!Idle
<1> HIDE DEF s, w
<1>6. overrides[n] \in Saved!Settings
  BY DEF SavedInv, SavedTypes
<1>7. own \in Saved!Settings
  BY <1>4, <1>6 DEF Saved!Settings
<1>8. credential[w.name].value = w.value /\ overrides[n] = Saved!Stored => own = Saved!Stored
  <2>1. ASSUME credential[w.name].value = w.value, overrides[n] = Saved!Stored
        PROVE  own = Saved!Stored
    <3>1. Saved!Stored[w.name] = w.value
      BY <1>4, <2>1 DEF Saved!Stored
    <3>2. Saved!Stored = [f \in Saved!Names |-> Saved!Stored[f]]
      BY DEF Saved!Stored
    <3>3. [Saved!Stored EXCEPT ![w.name] = w.value] = Saved!Stored
      BY ONLY <3>1, <3>2
    <3>4. QED
      BY <2>1, <3>3
  <2>2. QED
    BY <2>1
<1> HIDE DEF own
<1>9. /\ save' \in [Pair -> InForm] /\ save'[n] = s
      /\ overrides' \in [Pair -> Saved!Settings] /\ overrides'[n] = own
      /\ \A o \in Pair : o # n => save'[o] = save[o] /\ overrides'[o] = overrides[o]
  BY <1>1, <1>3, <1>7 DEF SavedInv, SavedTypes
<1>10. Saved!Version' = Saved!Version /\ Saved!Stored' = Saved!Stored
  BY <1>1, SameTable
<1>11. SavedTypes'
  BY <1>1, <1>9 DEF SavedInv, SavedTypes
<1>12. NoReturn' => NoReturn /\ credential[w.name].value = w.value
  BY <1>1 DEF NoReturn
<1>13. ASSUME NoReturn' PROVE HasTheTable(n)'
  BY <1>1, <1>8, <1>9, <1>10, <1>12, <1>13 DEF SavedInv, HasTheTable
<1>14. ASSUME NoReturn', ~raced' PROVE RunsOnIt(n)'
  BY <1>1, <1>3, <1>9, <1>10, <1>12, <1>14 DEF SavedInv, RunsOnIt
<1>15. watch'[n] = Saved!Down => save'[n] = Saved!Idle
  BY <1>1, <1>5 DEF SavedInv, NoFormDown
<1>16. QED
  BY <1>1, <1>9, <1>11, <1>12, <1>13, <1>14, <1>15, OtherNodes

\* A form's switch: to what the table holds, or the poll's comes after it.
LEMMA AppliedKeeps == ASSUME SavedInv, NEW n \in Pair, Saved!Applied(n) PROVE SavedInv'
<1> DEFINE s == IF save[n].form.back \/ save[n].read \in Saved!Accepted THEN Saved!Idle
                ELSE Saved!Writing([stops |-> FALSE, back |-> TRUE, before |-> {}],
                                   save[n].form.before)
<1>1. /\ save[n].pc = "switch" /\ save' = [save EXCEPT ![n] = s]
      /\ Saved!SwitchTo(n, save[n].read)
      /\ raced' = (raced \/ watch[n].pc = "switch")
      /\ UNCHANGED <<credential, clock, overrides, seen, watch, repeated, overtaken>>
  BY DEF Saved!Applied, Saved!Form
<1>2. save[n] \in [pc : {"switch"}, form : Request, read : Saved!Settings]
  BY <1>1 DEF SavedInv, SavedTypes, InForm
<1>3. s \in InForm /\ s.pc # "switch"
  <2>1. save[n].form.before \in SUBSET Write
    BY <1>2 DEF Request
  <2>2. [stops |-> FALSE, back |-> TRUE, before |-> {}] \in Request
    BY DEF Request
  <2>3. CASE save[n].form.back \/ save[n].read \in Saved!Accepted
    BY <2>3 DEF Saved!Idle, InForm
  <2>4. CASE ~(save[n].form.back \/ save[n].read \in Saved!Accepted)
    BY <2>1, <2>2, <2>4 DEF Saved!Writing, InForm
  <2>5. QED
    BY <2>3, <2>4
<1>4. save[n] # Saved!Idle
  BY <1>1 DEF Saved!Idle
<1> HIDE DEF s
<1>5. /\ save' \in [Pair -> InForm] /\ save'[n] = s
      /\ config' = [o \in Pair |-> config'[o]]
      /\ config'[n] = config[n] \/ config'[n] = save[n].read
      /\ save[n].read \in Saved!Accepted => config'[n] = save[n].read
      /\ \A o \in Pair : o # n => save'[o] = save[o] /\ config'[o] = config[o]
  BY <1>1, <1>3 DEF SavedInv, SavedTypes, Saved!SwitchTo
<1>6. Saved!Version' = Saved!Version /\ Saved!Stored' = Saved!Stored
  BY <1>1, SameTable
<1>7. SavedTypes'
  BY <1>1, <1>5 DEF SavedInv, SavedTypes
<1>8. (NoReturn' <=> NoReturn) /\ (raced => raced')
  BY <1>1 DEF NoReturn
<1>9. ASSUME NoReturn PROVE HasTheTable(n)'
  BY <1>1, <1>6, <1>9 DEF SavedInv, HasTheTable
<1>10. ASSUME NoReturn, ~raced' PROVE RunsOnIt(n)'
  <2>1. ~raced /\ watch[n].pc # "switch" /\ RunsOnIt(n)
    BY <1>1, <1>10 DEF SavedInv
  <2>2. QED
    BY <1>1, <1>3, <1>5, <1>6, <2>1 DEF RunsOnIt
<1>11. watch'[n] = Saved!Down => save'[n] = Saved!Idle
  BY <1>1, <1>4 DEF SavedInv, NoFormDown
<1>12. QED
  BY <1>1, <1>5, <1>7, <1>8, <1>9, <1>10, <1>11, OtherNodes

LEMMA SavedCrashKeeps == ASSUME SavedInv, NEW n \in Pair, Saved!Crash(n) PROVE SavedInv'
<1>1. /\ watch' = [watch EXCEPT ![n] = Saved!Down] /\ save' = [save EXCEPT ![n] = Saved!Idle]
      /\ UNCHANGED <<credential, clock, overrides, seen, config, repeated, overtaken, raced>>
  BY DEF Saved!Crash, Saved!Poll, Saved!Form
<1>2. Saved!Idle \in InForm /\ Saved!Idle.pc = "idle" /\ Saved!Down.pc = "down"
  BY DEF Saved!Idle, Saved!Down, InForm
<1>3. /\ watch' = [o \in Pair |-> watch'[o]] /\ watch'[n] = Saved!Down
      /\ save' \in [Pair -> InForm] /\ save'[n] = Saved!Idle
      /\ \A o \in Pair : o # n => watch'[o] = watch[o] /\ save'[o] = save[o]
  BY <1>1, <1>2 DEF SavedInv, SavedTypes
<1>4. SavedTypes'
  <2>1. \A o \in Pair : watch'[o].pc = "rows" => watch'[o].rows \in Saved!Settings
    BY <1>2, <1>3 DEF SavedInv, SavedTypes
  <2>2. QED
    BY <1>1, <1>3, <2>1 DEF SavedInv, SavedTypes
<1>5. HasTheTable(n)' /\ RunsOnIt(n)'
  BY <1>2, <1>3 DEF HasTheTable, RunsOnIt
<1>6. NoReturn' <=> NoReturn
  BY <1>1 DEF NoReturn
<1>7. QED
  BY <1>1, <1>3, <1>4, <1>5, <1>6, OtherNodes

LEMMA SavedStartKeeps == ASSUME SavedInv, NEW n \in Pair, Saved!Start(n) PROVE SavedInv'
<1>1. /\ watch[n] = Saved!Down /\ watch' = [watch EXCEPT ![n] = Saved!Idle]
      /\ overrides' = [overrides EXCEPT ![n] = Saved!Stored]
      /\ config' = [config EXCEPT ![n] = Saved!Stored]
      /\ seen' = [seen EXCEPT ![n] = Saved!Version]
      /\ UNCHANGED <<credential, clock, save, repeated, overtaken, raced>>
  BY DEF Saved!Start, Saved!Poll
<1>2. Saved!Idle.pc = "idle" /\ Saved!Down.pc = "down"
  BY DEF Saved!Idle, Saved!Down
<1>3. save[n] = Saved!Idle
  BY <1>1 DEF SavedInv, NoFormDown
<1>4. Saved!Stored \in Saved!Settings
  BY StoredIsSettings DEF SavedInv
<1>5. /\ watch' = [o \in Pair |-> watch'[o]] /\ watch'[n] = Saved!Idle
      /\ seen' = [o \in Pair |-> seen'[o]] /\ seen'[n] = Saved!Version
      /\ config' = [o \in Pair |-> config'[o]] /\ config'[n] = Saved!Stored
      /\ overrides' \in [Pair -> Saved!Settings] /\ overrides'[n] = Saved!Stored
      /\ \A o \in Pair : o # n => /\ watch'[o] = watch[o] /\ seen'[o] = seen[o]
                                  /\ config'[o] = config[o] /\ overrides'[o] = overrides[o]
  BY <1>1, <1>4 DEF SavedInv, SavedTypes
<1>6. Saved!Version' = Saved!Version /\ Saved!Stored' = Saved!Stored
  BY <1>1, SameTable
<1>7. SavedTypes'
  <2>1. \A o \in Pair : watch'[o].pc = "rows" => watch'[o].rows \in Saved!Settings
    BY <1>2, <1>5 DEF SavedInv, SavedTypes
  <2>2. QED
    BY <1>1, <1>5, <2>1 DEF SavedInv, SavedTypes
<1>8. HasTheTable(n)' /\ RunsOnIt(n)'
  BY <1>1, <1>2, <1>3, <1>5, <1>6 DEF HasTheTable, RunsOnIt
<1>9. NoReturn' <=> NoReturn
  BY <1>1 DEF NoReturn
<1>10. QED
  BY <1>1, <1>3, <1>5, <1>7, <1>8, <1>9, OtherNodes

LEMMA SettingsAlone == part = "settings" /\ [Next]_vars => [Saved!Next]_settingVars
<1>1. ASSUME part = "settings", Next PROVE [Saved!Next]_settingVars
  BY <1>1 DEF Next, RenewalStep, FactorStep, ConnectedStep, PoolStep, CacheStep, SavedStep,
     OutboxStep, StripeStep, SchemaStep, PolicyStep, CalendarStep, GeneratedStep,
     MergeStep, DevStep, ModelStep, UploadStep, LifeStep, DecimalStep
<1>2. ASSUME UNCHANGED vars PROVE UNCHANGED settingVars
  BY <1>2 DEF vars, state, settingVars
<1>3. QED
  BY <1>1, <1>2

SettingsRun == part = "settings" => SavedInv

LEMMA SettingsHold == SettingsRun /\ [Next]_vars => SettingsRun'
<1>1. ASSUME SavedInv, UNCHANGED settingVars PROVE SavedInv'
  <2>1. Saved!Version' = Saved!Version /\ Saved!Stored' = Saved!Stored
    BY <1>1, SameTable DEF settingVars
  <2>2. QED
    BY <1>1, <2>1 DEF settingVars, SavedInv, SavedTypes, NoFormDown, NoReturn, HasTheTable, RunsOnIt
<1>2. ASSUME SavedInv, Saved!Next PROVE SavedInv'
  BY <1>2, RefreshKeeps, ReadKeeps, LoadKeeps, LoadFailsKeeps, ReconfigureKeeps, SwitchKeeps,
     PostKeeps, StopKeeps, BeginWriteKeeps, CommitWriteKeeps, SetOverrideKeeps, ApplyKeeps,
     AppliedKeeps, PutBackFailsKeeps, SavedCrashKeeps, SavedStartKeeps DEF Saved!Next
<1>3. QED
  BY <1>1, <1>2, SettingsAlone, OnePart DEF SettingsRun

\* Every node comes to hold the table's settings, and its packs to run with them or refuse
\* them: for any number of nodes and forms, crashing, polling and saving at any time.
THEOREM SettingsFollow == Spec => []NodesFollow
<1>1. Init => SettingsRun
  BY SavedBegins DEF Init, SettingsRun
<1>2. SettingsRun => NodesFollow
  <2> SUFFICES ASSUME SavedInv PROVE Saved!NodesFollow
    BY DEF NodesFollow, SettingsRun
  <2> SUFFICES ASSUME NEW n \in Pair, Saved!Settled(n), NoReturn
               PROVE  /\ overrides[n] = Saved!Stored
                      /\ \/ config[n] = Saved!Stored
                         \/ Saved!Stored \in {[provider |-> "set", host |-> Nothing]}
                         \/ raced
    BY DEF Saved!NodesFollow, NoReturn
  <2>1. seen[n] = Saved!Version /\ watch[n] # Saved!Down /\ watch[n].pc = "idle"
    BY DEF Saved!Settled, Saved!Idle, Saved!Down
  <2>2. HasTheTable(n) /\ (~raced => RunsOnIt(n))
    BY DEF SavedInv
  <2>3. QED
    BY <2>1, <2>2 DEF HasTheTable, RunsOnIt
<1>3. QED
  BY <1>1, <1>2, SettingsHold, PTL DEF Spec

-----------------------------------------------------------------------------
(* Recursion over the numbers: a function that follows a step is there, and *)
(* two that do agree as far as both go.                                    *)

\* Counting reaches every number.
LEMMA Counting ==
    ASSUME NEW S, 0 \in S, \A n \in Nat : n \in S => n + 1 \in S
    PROVE  \A n \in Nat : n \in S
<1> DEFINE missing == {n \in Nat : n \notin S}
<1>1. SUFFICES ASSUME missing # {} PROVE FALSE
  OBVIOUS
<1>2. PICK n \in missing : \A k \in missing : n <= k
  BY <1>1, LeastNat
<1>3. n # 0 /\ n - 1 \in Nat /\ n - 1 \notin missing
  BY <1>2
<1>4. QED
  BY <1>2, <1>3

Follows(f, k, first, step) ==
    /\ f[0] = first
    /\ \A n \in 0..(k - 1) : f[n + 1] = step[<<n + 1, f[n]>>]

LEMMA FollowersAgree ==
    ASSUME NEW first, NEW step, NEW k \in Nat, NEW h \in Nat, NEW f, NEW g,
           Follows(f, k, first, step), Follows(g, h, first, step)
    PROVE  \A n \in Nat : n <= k /\ n <= h => f[n] = g[n]
<1> DEFINE S == {n \in Nat : n <= k /\ n <= h => f[n] = g[n]}
<1>1. 0 \in S
  BY DEF Follows
<1>2. ASSUME NEW n \in Nat, n \in S PROVE n + 1 \in S
  <2> SUFFICES ASSUME n + 1 <= k, n + 1 <= h PROVE f[n + 1] = g[n + 1]
    OBVIOUS
  <2>1. n \in 0..(k - 1) /\ n \in 0..(h - 1) /\ f[n] = g[n]
    BY <1>2
  <2>2. QED
    BY <2>1 DEF Follows
<1>3. \A n \in Nat : n \in S
  <2> HIDE DEF S
  <2>1. QED
    BY <1>1, <1>2, Counting
<1>4. QED
  BY <1>3

Computes(f, V, first, step) ==
    /\ f \in [Nat -> V]
    /\ f[0] = first
    /\ \A n \in Nat : f[n + 1] = step[<<n + 1, f[n]>>]

LEMMA Recursion ==
    ASSUME NEW V, NEW first, NEW step, first \in V, step \in [Nat \X V -> V]
    PROVE  \E f : Computes(f, V, first, step)
<1> DEFINE Parts(k) == {f \in [0..k -> V] : Follows(f, k, first, step)}
           S == {k \in Nat : Parts(k) # {}}
<1>1. 0 \in S
  <2>1. [n \in 0..0 |-> first] \in Parts(0)
    BY DEF Follows
  <2>2. QED
    BY <2>1
<1>2. ASSUME NEW k \in Nat, k \in S PROVE k + 1 \in S
  <2>1. PICK f \in Parts(k) : TRUE
    BY <1>2
  <2> DEFINE g == [n \in 0..(k + 1) |-> IF n = k + 1 THEN step[<<k + 1, f[k]>>] ELSE f[n]]
  <2>2. f \in [0..k -> V] /\ Follows(f, k, first, step)
    BY <2>1
  <2>3. g \in [0..(k + 1) -> V]
    BY <2>2
  <2>4. ASSUME NEW n \in 0..k PROVE g[n + 1] = step[<<n + 1, g[n]>>]
    <3>1. CASE n = k
      <4>1. k + 1 \in 0..(k + 1) /\ k \in 0..(k + 1) /\ k # k + 1
        OBVIOUS
      <4>2. g[k + 1] = step[<<k + 1, f[k]>>] /\ g[k] = f[k]
        BY <4>1
      <4>3. QED
        BY <3>1, <4>2
    <3>2. CASE n # k
      <4>1. n \in 0..(k - 1)
        BY <3>2
      <4>2. f[n + 1] = step[<<n + 1, f[n]>>]
        BY <4>1, <2>2 DEF Follows
      <4>3. g[n + 1] = f[n + 1] /\ g[n] = f[n]
        BY <4>1
      <4>4. QED
        BY <4>2, <4>3
    <3>3. QED
      BY <3>1, <3>2
  <2>5. g[0] = first
    BY <2>2 DEF Follows
  <2>6. g \in Parts(k + 1)
    <3>1. 0..((k + 1) - 1) = 0..k
      OBVIOUS
    <3> HIDE DEF g
    <3>2. QED
      BY <2>3, <2>4, <2>5, <3>1 DEF Follows
  <2>7. QED
    BY <2>6
<1>3. \A k \in Nat : Parts(k) # {}
  <2>1. \A k \in Nat : k \in S
    <3> HIDE DEF S
    <3>1. QED
      BY <1>1, <1>2, Counting
  <2>2. QED
    BY <2>1
<1> DEFINE Part(k) == CHOOSE f : f \in Parts(k)
           all == [n \in Nat |-> Part(n)[n]]
<1>4. \A k \in Nat : Part(k) \in Parts(k)
  BY <1>3
<1>5. \A k \in Nat : Part(k) \in [0..k -> V] /\ Follows(Part(k), k, first, step)
  BY <1>4
<1> HIDE DEF Part, Parts
<1>6. all \in [Nat -> V]
  BY <1>5
<1>7. all[0] = first
  BY <1>5 DEF Follows
<1>8. ASSUME NEW n \in Nat PROVE all[n + 1] = step[<<n + 1, all[n]>>]
  <2>1. n \in 0..((n + 1) - 1)
    OBVIOUS
  <2>2. Part(n + 1)[n + 1] = step[<<n + 1, Part(n + 1)[n]>>]
    BY <1>5, <2>1 DEF Follows
  <2>3. Part(n + 1)[n] = Part(n)[n]
    BY <1>5, FollowersAgree, n + 1 \in Nat, n <= n + 1, n <= n
  <2>4. QED
    BY <2>2, <2>3
<1>9. QED
  BY <1>6, <1>7, <1>8 DEF Computes

-----------------------------------------------------------------------------
(* The powers of the base.                                                 *)

LEMMA PowerDef ==
    /\ Exact!Power \in [Nat -> Int]
    /\ Exact!Power[0] = 1
    /\ \A n \in Nat : Exact!Power[n + 1] = Base * Exact!Power[n]
<1> DEFINE Solves(f) == f = [n \in Nat |-> IF n = 0 THEN 1 ELSE Base * f[n - 1]]
           step == [p \in Nat \X Int |-> Base * p[2]]
<1>1. step \in [Nat \X Int -> Int]
  BY DecimalsAssumption
<1>2. PICK f : Computes(f, Int, 1, step)
  <2> HIDE DEF step
  <2>1. QED
    BY <1>1, Recursion, 1 \in Int
<1>3. ASSUME NEW n \in Nat PROVE f[n + 1] = Base * f[n]
  <2>1. <<n + 1, f[n]>> \in Nat \X Int
    BY <1>2 DEF Computes
  <2>2. step[<<n + 1, f[n]>>] = Base * f[n]
    BY <2>1
  <2>3. f[n + 1] = step[<<n + 1, f[n]>>]
    BY <1>2 DEF Computes
  <2>4. QED
    BY <2>2, <2>3
<1>4. ASSUME NEW n \in Nat, n # 0 PROVE f[n] = Base * f[n - 1]
  <2>1. n - 1 \in Nat /\ (n - 1) + 1 = n
    BY <1>4
  <2>2. QED
    BY <1>3, <2>1
<1>5. Solves(f)
  BY <1>2, <1>4 DEF Computes
<1>6. Exact!Power = CHOOSE g : Solves(g)
  BY DEF Exact!Power
<1>7. Solves(Exact!Power)
  <2> HIDE DEF Solves
  <2>1. QED
    BY <1>5, <1>6
<1> DEFINE P == Exact!Power
<1>8. P = [n \in Nat |-> IF n = 0 THEN 1 ELSE Base * P[n - 1]]
  BY <1>7
<1> HIDE DEF P
<1>9. P[0] = 1 /\ \A n \in Nat : P[n + 1] = Base * P[n]
  <2>1. P[0] = 1
    BY <1>8
  <2>2. ASSUME NEW n \in Nat PROVE P[n + 1] = Base * P[n]
    <3>1. n + 1 \in Nat /\ n + 1 # 0 /\ (n + 1) - 1 = n
      OBVIOUS
    <3>2. P[n + 1] = Base * P[(n + 1) - 1]
      BY <1>8, <3>1
    <3>3. QED
      BY <3>1, <3>2
  <2>3. QED
    BY <2>1, <2>2
<1>10. \A n \in Nat : P[n] \in Int
  <2> DEFINE S == {n \in Nat : P[n] \in Int}
  <2>1. 0 \in S
    BY <1>9
  <2>2. ASSUME NEW n \in Nat, n \in S PROVE n + 1 \in S
    BY <1>9, <2>2, DecimalsAssumption
  <2>3. \A n \in Nat : n \in S
    <3> HIDE DEF S
    <3>1. QED
      BY <2>1, <2>2, Counting
  <2>4. QED
    BY <2>3
<1>11. P \in [Nat -> Int]
  BY <1>8, <1>10
<1>12. QED
  BY <1>9, <1>11 DEF P

\* A name the provers need not look into.
Pw(n) == Exact!Power[n]

LEMMA PwDef == Pw(0) = 1 /\ \A n \in Nat : Pw(n) \in Int /\ Pw(n + 1) = Base * Pw(n)
  BY PowerDef DEF Pw

LEMMA Positives ==
    ASSUME NEW a \in Nat, NEW b \in Nat, a > 0, b > 0
    PROVE  a * b \in Nat /\ a * b > 0 /\ a * b >= a
  OBVIOUS

LEMMA PwPositive == \A n \in Nat : Pw(n) \in Nat /\ Pw(n) > n
<1> DEFINE S == {n \in Nat : Pw(n) \in Nat /\ Pw(n) > n}
<1>1. 0 \in S
  BY PwDef
<1>2. ASSUME NEW n \in Nat, n \in S PROVE n + 1 \in S
  <2>1. Pw(n) \in Nat /\ Pw(n) > n /\ Pw(n + 1) = Base * Pw(n)
    BY <1>2, PwDef
  <2>2. \A x \in Nat, b \in Nat : b > 1 /\ x > n => b * x \in Nat /\ b * x > n + 1
    <3> SUFFICES ASSUME NEW x \in Nat, NEW b \in Nat, b > 1, x > n
                 PROVE  b * x \in Nat /\ b * x > n + 1
      OBVIOUS
    <3>1. b * x = 2 * x + (b - 2) * x /\ (b - 2) * x >= 0
      OBVIOUS
    <3>2. QED
      BY <3>1
  <2>3. QED
    BY <2>1, <2>2, DecimalsAssumption
<1>3. \A n \in Nat : n \in S
  <2> HIDE DEF S
  <2>1. QED
    BY <1>1, <1>2, Counting
<1>4. QED
  BY <1>3

LEMMA PwSum == \A a, b \in Nat : Pw(a + b) = Pw(a) * Pw(b)
<1> SUFFICES ASSUME NEW a \in Nat PROVE \A b \in Nat : Pw(a + b) = Pw(a) * Pw(b)
  OBVIOUS
<1> DEFINE S == {b \in Nat : Pw(a + b) = Pw(a) * Pw(b)}
<1>1. 0 \in S
  BY PwDef
<1>2. ASSUME NEW b \in Nat, b \in S PROVE b + 1 \in S
  <2>1. Pw(a + b) = Pw(a) * Pw(b) /\ a + b \in Nat
    BY <1>2
  <2>2. Pw(a + (b + 1)) = Base * (Pw(a) * Pw(b))
    <3>1. a + (b + 1) = (a + b) + 1
      OBVIOUS
    <3>2. QED
      BY <2>1, <3>1, PwDef
  <2>3. Pw(a) * Pw(b + 1) = Pw(a) * (Base * Pw(b))
    BY PwDef
  <2>4. \A x, y, z \in Int : x * (y * z) = y * (x * z)
    OBVIOUS
  <2>5. Pw(a) \in Int /\ Pw(b) \in Int /\ Base \in Int
    BY PwDef, DecimalsAssumption
  <2>6. Pw(a + (b + 1)) = Pw(a) * Pw(b + 1)
    BY <2>2, <2>3, <2>4, <2>5
  <2>7. QED
    BY <2>6
<1>3. \A b \in Nat : b \in S
  <2> HIDE DEF S
  <2>1. QED
    BY <1>1, <1>2, Counting
<1>4. QED
  BY <1>3

LEMMA PwGrows ==
    /\ \A a, b \in Nat : a <= b => Pw(a) <= Pw(b)
    /\ \A a, b \in Nat : a < b => Pw(a) < Pw(b)
<1>1. ASSUME NEW a \in Nat, NEW b \in Nat, a <= b PROVE Pw(a) <= Pw(b)
  <2>1. b - a \in Nat /\ b = a + (b - a)
    BY <1>1
  <2>2. Pw(b) = Pw(a) * Pw(b - a)
    BY <2>1, PwSum
  <2>3. QED
    BY <2>1, <2>2, PwPositive, Positives
<1>2. ASSUME NEW a \in Nat, NEW b \in Nat, a < b PROVE Pw(a) < Pw(b)
  <2>1. Pw(a + 1) <= Pw(b)
    BY <1>1, <1>2
  <2>2. \A x \in Nat, y \in Nat : x > 0 /\ y > 1 => y * x > x
    OBVIOUS
  <2>3. Pw(a + 1) > Pw(a)
    BY <2>2, PwDef, PwPositive, DecimalsAssumption
  <2>4. Pw(a) \in Nat /\ Pw(a + 1) \in Nat /\ Pw(b) \in Nat
    BY PwPositive
  <2>5. QED
    BY <2>1, <2>3, <2>4
<1>3. QED
  BY <1>1, <1>2

-----------------------------------------------------------------------------
(* The number that digits write.                                           *)

Digit == 0..(Base - 1)

Sums(f, s) ==
    /\ f \in [0..Len(s) -> Int]
    /\ f[0] = 0
    /\ \A i \in 1..Len(s) : f[i] = f[i - 1] * Base + s[i]

LEMMA NumberSums ==
    ASSUME NEW s \in Seq(Int)
    PROVE  \E f : Sums(f, s) /\ Exact!Number(s) = f[Len(s)]
<1> DEFINE Solves(f) ==
               f = [i \in 0..Len(s) |-> IF i = 0 THEN 0 ELSE f[i - 1] * Base + s[i]]
           step == [p \in Nat \X Int |->
                       IF p[1] \in 1..Len(s) THEN p[2] * Base + s[p[1]] ELSE 0]
<1>1. Len(s) \in Nat /\ \A i \in 1..Len(s) : s[i] \in Int
  OBVIOUS
<1>2. step \in [Nat \X Int -> Int]
  BY <1>1, DecimalsAssumption
<1>3. PICK f : Computes(f, Int, 0, step)
  <2> HIDE DEF step
  <2>1. QED
    BY <1>2, Recursion, 0 \in Int
<1> DEFINE g == [i \in 0..Len(s) |-> f[i]]
<1>4. ASSUME NEW i \in 1..Len(s) PROVE f[i] = f[i - 1] * Base + s[i]
  <2>1. i - 1 \in Nat /\ (i - 1) + 1 = i /\ i \in Nat
    OBVIOUS
  <2>2. <<i, f[i - 1]>> \in Nat \X Int
    BY <1>3, <2>1 DEF Computes
  <2>3. step[<<i, f[i - 1]>>] = f[i - 1] * Base + s[i]
    BY <2>2
  <2>4. f[(i - 1) + 1] = step[<<(i - 1) + 1, f[i - 1]>>]
    <3> HIDE DEF step
    <3>1. QED
      BY <1>3, <2>1 DEF Computes
  <2>5. QED
    BY <2>1, <2>3, <2>4
<1>5. g \in [0..Len(s) -> Int] /\ g[0] = 0
  BY <1>1, <1>3 DEF Computes
<1>6. ASSUME NEW i \in 1..Len(s) PROVE g[i] = g[i - 1] * Base + s[i]
  <2>1. i \in 0..Len(s) /\ i - 1 \in 0..Len(s)
    OBVIOUS
  <2>2. QED
    BY <1>4, <2>1
<1> HIDE DEF g, step
<1>7. Solves(g)
  <2>1. g = [i \in 0..Len(s) |-> g[i]]
    BY <1>5
  <2>2. \A i \in 0..Len(s) : g[i] = IF i = 0 THEN 0 ELSE g[i - 1] * Base + s[i]
    BY <1>5, <1>6
  <2>3. QED
    BY <2>1, <2>2
<1> DEFINE h == CHOOSE f1 : Solves(f1)
<1>8. Exact!Number(s) = h[Len(s)]
  BY DEF Exact!Number
<1>9. Solves(h)
  <2> HIDE DEF Solves
  <2>1. QED
    BY <1>7
<1>10. h = [i \in 0..Len(s) |-> IF i = 0 THEN 0 ELSE h[i - 1] * Base + s[i]]
  BY <1>9
<1> HIDE DEF h, Solves
<1>11. h[0] = 0 /\ \A i \in 1..Len(s) : h[i] = h[i - 1] * Base + s[i]
  BY <1>1, <1>10
<1>12. \A i \in Nat : i <= Len(s) => h[i] \in Int
  <2> DEFINE S == {i \in Nat : i <= Len(s) => h[i] \in Int}
  <2>1. 0 \in S
    BY <1>11
  <2>2. ASSUME NEW i \in Nat, i \in S PROVE i + 1 \in S
    <3> SUFFICES ASSUME i + 1 <= Len(s) PROVE h[i + 1] \in Int
      OBVIOUS
    <3>1. i + 1 \in 1..Len(s) /\ h[i] \in Int /\ (i + 1) - 1 = i
      BY <1>1, <2>2
    <3>2. h[i + 1] = h[i] * Base + s[i + 1]
      BY <1>11, <3>1
    <3>3. QED
      BY <1>1, <3>1, <3>2, DecimalsAssumption
  <2>3. \A i \in Nat : i \in S
    <3> HIDE DEF S
    <3>1. QED
      BY <2>1, <2>2, Counting
  <2>4. QED
    BY <2>3
<1>13. h \in [0..Len(s) -> Int]
  BY <1>1, <1>10, <1>12
<1>14. QED
  BY <1>8, <1>11, <1>13 DEF Sums

\* Sums of sequences that begin alike begin alike.
LEMMA SumsAgree ==
    ASSUME NEW s \in Seq(Int), NEW t \in Seq(Int), NEW f, NEW g, Sums(f, s), Sums(g, t),
           NEW n \in Nat, n <= Len(s), n <= Len(t), \A i \in 1..n : s[i] = t[i]
    PROVE  f[n] = g[n]
<1> DEFINE S == {k \in Nat : k <= n => f[k] = g[k]}
<1>1. 0 \in S
  BY DEF Sums
<1>2. ASSUME NEW k \in Nat, k \in S PROVE k + 1 \in S
  <2> SUFFICES ASSUME k + 1 <= n PROVE f[k + 1] = g[k + 1]
    OBVIOUS
  <2>1. k + 1 \in 1..Len(s) /\ k + 1 \in 1..Len(t) /\ k + 1 \in 1..n /\ (k + 1) - 1 = k
    OBVIOUS
  <2>2. f[k] = g[k] /\ s[k + 1] = t[k + 1]
    BY <1>2, <2>1
  <2>3. f[k + 1] = f[k] * Base + s[k + 1] /\ g[k + 1] = g[k] * Base + t[k + 1]
    BY <2>1 DEF Sums
  <2>4. QED
    BY <2>2, <2>3
<1>3. \A k \in Nat : k \in S
  <2> HIDE DEF S
  <2>1. QED
    BY <1>1, <1>2, Counting
<1>4. QED
  BY <1>3

LEMMA NumberOf ==
    ASSUME NEW s \in Seq(Int), NEW f, Sums(f, s)
    PROVE  Exact!Number(s) = f[Len(s)]
<1>1. PICK g : Sums(g, s) /\ Exact!Number(s) = g[Len(s)]
  BY NumberSums
<1>2. f[Len(s)] = g[Len(s)]
  BY <1>1, SumsAgree, Len(s) \in Nat
<1>3. QED
  BY <1>1, <1>2

LEMMA NumberOfNone == Exact!Number(<<>>) = 0
<1>1. <<>> \in Seq(Int) /\ Len(<<>>) = 0
  OBVIOUS
<1>2. PICK f : Sums(f, <<>>) /\ Exact!Number(<<>>) = f[Len(<<>>)]
  BY <1>1, NumberSums
<1>3. QED
  BY <1>1, <1>2 DEF Sums

\* Digits after others weigh less than all of them.
LEMMA NumberJoined ==
    ASSUME NEW s \in Seq(Int), NEW t \in Seq(Int)
    PROVE  Exact!Number(s \o t) = Exact!Number(s) * Pw(Len(t)) + Exact!Number(t)
<1> DEFINE u == s \o t
           L == Len(s)
<1>1. u \in Seq(Int) /\ Len(u) = L + Len(t) /\ L \in Nat /\ Len(t) \in Nat
  OBVIOUS
<1>2. /\ \A i \in 1..L : u[i] = s[i]
      /\ \A i \in 1..Len(t) : u[L + i] = t[i]
  OBVIOUS
<1>3. PICK f : Sums(f, s) /\ Exact!Number(s) = f[L]
  BY NumberSums
<1>4. PICK g : Sums(g, t) /\ Exact!Number(t) = g[Len(t)]
  BY NumberSums
<1>5. PICK h : Sums(h, u) /\ Exact!Number(u) = h[Len(u)]
  BY <1>1, NumberSums
<1> HIDE DEF u, L
<1>6. h[L] = f[L]
  <2>1. L <= Len(u) /\ L <= Len(s)
    BY <1>1 DEF L
  <2>2. QED
    BY <1>1, <1>2, <1>3, <1>5, <2>1, SumsAgree
<1> DEFINE S == {i \in Nat : i <= Len(t) => h[L + i] = f[L] * Pw(i) + g[i]}
<1>7. 0 \in S
  <2>1. L + 0 = L /\ L \in 0..Len(s)
    BY <1>1 DEF L
  <2> g[0] = 0 /\ Pw(0) = 1 /\ f[L] \in Int
    BY <1>3, <1>4, <2>1, PwDef DEF Sums
  <2>2. QED
    BY <1>6, <2>1
<1>8. ASSUME NEW i \in Nat, i \in S PROVE i + 1 \in S
  <2> SUFFICES ASSUME i + 1 <= Len(t)
               PROVE  h[L + (i + 1)] = f[L] * Pw(i + 1) + g[i + 1]
    OBVIOUS
  <2>1. h[L + i] = f[L] * Pw(i) + g[i]
    BY <1>1, <1>8
  <2>2. /\ L + (i + 1) \in 1..Len(u) /\ (L + (i + 1)) - 1 = L + i
        /\ i + 1 \in 1..Len(t) /\ (i + 1) - 1 = i
    BY <1>1
  <2>3. h[L + (i + 1)] = h[L + i] * Base + u[L + (i + 1)]
    BY <1>5, <2>2 DEF Sums
  <2>4. g[i + 1] = g[i] * Base + t[i + 1]
    BY <1>4, <2>2 DEF Sums
  <2>5. u[L + (i + 1)] = t[i + 1] /\ t[i + 1] \in Int
    BY <1>2, <2>2
  <2>6. f[L] \in Int /\ g[i] \in Int /\ Pw(i) \in Int /\ Base \in Int /\ Pw(i + 1) = Base * Pw(i)
    <3>1. i \in 0..Len(t) /\ L \in 0..Len(s)
      BY <1>1 DEF L
    <3>2. QED
      BY <1>3, <1>4, <3>1, PwDef, DecimalsAssumption DEF Sums
  <2>7. \A a, b, c, p, x \in Int : (a * p + b) * c + x = a * (c * p) + (b * c + x)
    OBVIOUS
  <2>8. (f[L] * Pw(i) + g[i]) * Base + t[i + 1]
            = f[L] * (Base * Pw(i)) + (g[i] * Base + t[i + 1])
    BY <2>5, <2>6, <2>7
  <2>9. QED
    BY <2>1, <2>3, <2>4, <2>5, <2>6, <2>8
<1>9. \A i \in Nat : i \in S
  <2> HIDE DEF S
  <2>1. QED
    BY <1>7, <1>8, Counting
<1>10. h[L + Len(t)] = f[L] * Pw(Len(t)) + g[Len(t)]
  BY <1>1, <1>9
<1>11. QED
  BY <1>1, <1>3, <1>4, <1>5, <1>10 DEF u

LEMMA NumberOfZeros == \A n \in Nat : Exact!Number(Exact!Zeros(n)) = 0
<1> SUFFICES ASSUME NEW n \in Nat PROVE Exact!Number(Exact!Zeros(n)) = 0
  OBVIOUS
<1> DEFINE z == Exact!Zeros(n)
           f == [i \in 0..n |-> 0]
<1>1. z \in Seq(Int) /\ Len(z) = n /\ \A i \in 1..n : z[i] = 0
  BY DEF Exact!Zeros
<1>2. f \in [0..n -> Int] /\ f[0] = 0 /\ \A i \in 1..n : f[i] = 0 /\ f[i - 1] = 0
  OBVIOUS
<1> HIDE DEF z, f
<1>3. \A i \in 1..n : f[i] = f[i - 1] * Base + z[i]
  BY <1>1, <1>2, DecimalsAssumption
<1>4. Sums(f, z)
  BY <1>1, <1>2, <1>3 DEF Sums
<1>5. Exact!Number(z) = f[n]
  BY <1>1, <1>4, NumberOf
<1>6. f[n] = 0
  BY DEF f
<1>7. QED
  BY <1>5, <1>6 DEF z

\* n digits write a number below the n-th power.
LEMMA NumberBounded ==
    ASSUME NEW s \in Seq(Digit)
    PROVE  Exact!Number(s) \in Nat /\ Exact!Number(s) < Pw(Len(s))
<1>1. s \in Seq(Int) /\ Len(s) \in Nat /\ \A i \in 1..Len(s) : s[i] \in Digit
  BY DecimalsAssumption DEF Digit
<1>2. PICK f : Sums(f, s) /\ Exact!Number(s) = f[Len(s)]
  BY <1>1, NumberSums
<1> DEFINE S == {i \in Nat : i <= Len(s) => f[i] \in Nat /\ f[i] < Pw(i)}
<1>3. 0 \in S
  <2>1. f[0] = 0 /\ Pw(0) = 1
    BY <1>2, PwDef DEF Sums
  <2>2. QED
    BY <2>1
<1>4. ASSUME NEW i \in Nat, i \in S PROVE i + 1 \in S
  <2> SUFFICES ASSUME i + 1 <= Len(s) PROVE f[i + 1] \in Nat /\ f[i + 1] < Pw(i + 1)
    OBVIOUS
  <2>1. i + 1 \in 1..Len(s) /\ (i + 1) - 1 = i /\ f[i] \in Nat /\ f[i] < Pw(i)
    BY <1>1, <1>4
  <2>2. f[i + 1] = f[i] * Base + s[i + 1] /\ s[i + 1] \in 0..(Base - 1)
    BY <1>1, <1>2, <2>1 DEF Sums, Digit
  <2>3. \A x, p, b, d \in Nat : x < p /\ d < b => x * b + d \in Nat /\ x * b + d < b * p
    <3> SUFFICES ASSUME NEW x \in Nat, NEW p \in Nat, NEW b \in Nat, NEW d \in Nat,
                        x < p, d < b
                 PROVE  x * b + d \in Nat /\ x * b + d < b * p
      OBVIOUS
    <3>1. b * p = x * b + b + b * (p - x - 1) /\ b * (p - x - 1) >= 0 /\ x * b \in Nat
      OBVIOUS
    <3>2. QED
      BY <3>1
  <2>4. Pw(i) \in Nat /\ Pw(i + 1) = Base * Pw(i) /\ Base \in Nat
    BY PwDef, PwPositive, DecimalsAssumption
  <2>5. s[i + 1] \in Nat /\ s[i + 1] < Base
    BY <2>2, <2>4
  <2>6. f[i] * Base + s[i + 1] \in Nat /\ f[i] * Base + s[i + 1] < Base * Pw(i)
    BY <2>1, <2>3, <2>4, <2>5
  <2>7. QED
    BY <2>2, <2>4, <2>6
<1>5. \A i \in Nat : i \in S
  <2> HIDE DEF S
  <2>1. QED
    BY <1>3, <1>4, Counting
<1>6. QED
  BY <1>1, <1>2, <1>5

LEMMA NumberOfOne ==
    ASSUME NEW d \in Int
    PROVE  Exact!Number(<<d>>) = d
<1>1. PICK f : Sums(f, <<d>>) /\ Exact!Number(<<d>>) = f[Len(<<d>>)]
  BY NumberSums, <<d>> \in Seq(Int)
<1>2. Len(<<d>>) = 1 /\ <<d>>[1] = d /\ 1 \in 1..1 /\ 1 - 1 = 0
  OBVIOUS
<1>3. f[0] = 0 /\ f[1] = f[0] * Base + d
  <2>1. f[0] = 0 /\ f[1] = f[1 - 1] * Base + <<d>>[1]
    BY <1>1, <1>2 DEF Sums
  <2>2. QED
    BY <1>2, <2>1
<1>4. QED
  BY <1>1, <1>2, <1>3, DecimalsAssumption

LEMMA Cuts ==
    ASSUME NEW D, NEW s \in Seq(D), NEW k \in 0..Len(s)
    PROVE  /\ SubSeq(s, 1, k) \in Seq(D) /\ Len(SubSeq(s, 1, k)) = k
           /\ SubSeq(s, k + 1, Len(s)) \in Seq(D) /\ Len(SubSeq(s, k + 1, Len(s))) = Len(s) - k
           /\ \A i \in 1..k : SubSeq(s, 1, k)[i] = s[i]
           /\ \A i \in 1..(Len(s) - k) : SubSeq(s, k + 1, Len(s))[i] = s[k + i]
           /\ s = SubSeq(s, 1, k) \o SubSeq(s, k + 1, Len(s))
<1>1. Len(s) \in Nat
  OBVIOUS
<1>2. /\ SubSeq(s, 1, k) \in Seq(D) /\ Len(SubSeq(s, 1, k)) = k
      /\ \A i \in 1..k : SubSeq(s, 1, k)[i] = s[i]
  BY <1>1
<1>3. /\ SubSeq(s, k + 1, Len(s)) \in Seq(D) /\ Len(SubSeq(s, k + 1, Len(s))) = Len(s) - k
      /\ \A i \in 1..(Len(s) - k) : SubSeq(s, k + 1, Len(s))[i] = s[k + i]
  BY <1>1
<1>4. s = SubSeq(s, 1, k) \o SubSeq(s, k + 1, Len(s))
  <2> DEFINE a == SubSeq(s, 1, k)
             b == SubSeq(s, k + 1, Len(s))
             c == a \o b
  <2>1. a \in Seq(D) /\ b \in Seq(D) /\ Len(a) = k /\ Len(b) = Len(s) - k
    BY <1>2, <1>3
  <2>2. /\ \A i \in 1..k : a[i] = s[i]
        /\ \A i \in 1..(Len(s) - k) : b[i] = s[k + i]
    BY <1>2, <1>3
  <2> HIDE DEF a, b
  <2>3. c \in Seq(D) /\ Len(c) = Len(s)
    BY <1>1, <2>1
  <2>4. ASSUME NEW i \in 1..Len(s) PROVE c[i] = s[i]
    <3>1. CASE i <= k
      BY <1>1, <2>1, <2>2, <3>1
    <3>2. CASE i > k
      <4>1. i - k \in 1..(Len(s) - k) /\ k + (i - k) = i
        BY <1>1, <3>2
      <4>2. c[i] = b[i - k]
        BY <1>1, <2>1, <3>2
      <4>3. b[i - k] = s[k + (i - k)]
        BY <2>2, <4>1
      <4>4. QED
        BY <4>1, <4>2, <4>3
    <3>3. i <= k \/ i > k
      BY <1>1
    <3>4. QED
      BY <3>1, <3>2, <3>3
  <2>5. c = s
    <3> HIDE DEF c
    <3>1. QED
      BY <2>3, <2>4
  <2>6. QED
    BY <2>5 DEF a, b
<1>5. QED
  BY <1>2, <1>3, <1>4

\* A first digit that is not zero weighs a power.
LEMMA NumberAtLeast ==
    ASSUME NEW s \in Seq(Digit), Len(s) > 0, s[1] # 0
    PROVE  Exact!Number(s) >= Pw(Len(s) - 1)
<1> DEFINE a == SubSeq(s, 1, 1)
           b == SubSeq(s, 1 + 1, Len(s))
<1>1. /\ a \in Seq(Digit) /\ Len(a) = 1 /\ a[1] = s[1]
      /\ b \in Seq(Digit) /\ Len(b) = Len(s) - 1 /\ s = a \o b
  BY Cuts, 1 \in 0..Len(s), 1 \in 1..1
<1> HIDE DEF a, b
<1>2. a \in Seq(Int) /\ b \in Seq(Int) /\ s[1] \in Digit
  BY <1>1, DecimalsAssumption DEF Digit
<1>3. a = <<s[1]>>
  BY <1>1
<1>4. Exact!Number(a) = s[1]
  BY <1>2, <1>3, NumberOfOne DEF Digit
<1>5. Exact!Number(s) = s[1] * Pw(Len(s) - 1) + Exact!Number(b)
  BY <1>1, <1>2, <1>4, NumberJoined
<1>6. s[1] \in Nat /\ s[1] > 0 /\ Exact!Number(b) \in Nat /\ Len(s) - 1 \in Nat
  BY <1>1, <1>2, NumberBounded, DecimalsAssumption DEF Digit
<1>7. Pw(Len(s) - 1) \in Nat
  BY <1>6, PwPositive
<1>8. \A x, y, z \in Nat : x > 0 => x * y + z >= y
  OBVIOUS
<1>9. QED
  BY <1>5, <1>6, <1>7, <1>8

\* The zeros in front of a number.
LEMMA LeadingZeros ==
    ASSUME NEW s \in Seq(Digit)
    PROVE  /\ Exact!Leading(s) \in 1..(Len(s) + 1)
           /\ Exact!Leading(s) <= Len(s) => s[Exact!Leading(s)] # 0
           /\ \A j \in 1..(Exact!Leading(s) - 1) : s[j] = 0
<1> DEFINE First(i) == /\ i <= Len(s) => s[i] # 0
                       /\ \A j \in 1..(i - 1) : s[j] = 0
           S == {i \in 1..(Len(s) + 1) : i <= Len(s) => s[i] # 0}
<1>1. Len(s) \in Nat
  OBVIOUS
<1>2. S \in SUBSET Nat /\ Len(s) + 1 \in S
  BY <1>1
<1>3. PICK i \in S : \A j \in S : i <= j
  BY <1>2, LeastNat
<1>4. i \in 1..(Len(s) + 1) /\ First(i)
  BY <1>1, <1>3
<1>5. Exact!Leading(s) = CHOOSE k \in 1..(Len(s) + 1) : First(k)
  BY DEF Exact!Leading
<1>6. Exact!Leading(s) \in 1..(Len(s) + 1) /\ First(Exact!Leading(s))
  <2> HIDE DEF First
  <2>1. QED
    BY <1>4, <1>5
<1>7. QED
  BY <1>6

LEMMA Trimmed ==
    ASSUME NEW s \in Seq(Digit)
    PROVE  LET t == Exact!TrimLeft(s)
           IN  /\ t \in Seq(Digit)
               /\ Len(t) > 0 => t[1] # 0
               /\ Exact!Number(t) = Exact!Number(s)
<1> DEFINE k == Exact!Leading(s) - 1
           a == SubSeq(s, 1, k)
           b == SubSeq(s, k + 1, Len(s))
<1>1. Len(s) \in Nat /\ k \in 0..Len(s) /\ k + 1 = Exact!Leading(s)
  BY LeadingZeros
<1>2. /\ a \in Seq(Digit) /\ Len(a) = k
      /\ b \in Seq(Digit) /\ Len(b) = Len(s) - k
      /\ \A i \in 1..k : a[i] = s[i]
      /\ \A i \in 1..(Len(s) - k) : b[i] = s[k + i]
      /\ s = a \o b
  <2> HIDE DEF k
  <2>1. QED
    BY <1>1, Cuts
<1>3. b = Exact!TrimLeft(s)
  BY <1>1 DEF Exact!TrimLeft
<1>4. \A i \in 1..k : s[i] = 0
  BY LeadingZeros
<1>5. Len(s) - k > 0 => s[k + 1] # 0
  BY <1>1, LeadingZeros
<1> HIDE DEF a, b, k
<1>6. a = Exact!Zeros(k)
  BY <1>1, <1>2, <1>4 DEF Exact!Zeros
<1>7. a \in Seq(Int) /\ b \in Seq(Int)
  BY <1>2, DecimalsAssumption DEF Digit
<1>8. Exact!Number(s) = 0 * Pw(Len(b)) + Exact!Number(b)
  <2>1. Exact!Number(a) = 0
    BY <1>1, <1>6, NumberOfZeros, k \in Nat
  <2>2. Exact!Number(a \o b) = Exact!Number(a) * Pw(Len(b)) + Exact!Number(b)
    BY <1>7, NumberJoined
  <2>3. QED
    BY <1>2, <2>1, <2>2
<1>9. Exact!Number(b) \in Int /\ Pw(Len(b)) \in Int
  BY <1>2, NumberBounded, PwDef
<1>10. Len(b) > 0 => b[1] # 0
  <2> SUFFICES ASSUME Len(b) > 0 PROVE b[1] # 0
    OBVIOUS
  <2>1. 1 \in 1..(Len(s) - k) /\ Len(s) - k > 0
    BY <1>1, <1>2
  <2>2. QED
    BY <1>2, <1>5, <2>1
<1>11. QED
  BY <1>2, <1>3, <1>8, <1>9, <1>10

LEMMA TrimmedFirst ==
    ASSUME NEW s \in Seq(Digit), Len(s) > 0, s[1] # 0
    PROVE  Exact!TrimLeft(s) = s
<1>1. Exact!Leading(s) = 1
  BY LeadingZeros, Len(s) \in Nat
<1>2. QED
  BY <1>1 DEF Exact!TrimLeft

LEMMA TrimmedZero == Exact!TrimLeft(<<0>>) = <<>>
<1> SUFFICES ASSUME NEW z, z = << 0 >> PROVE Exact!TrimLeft(z) = <<>>
  OBVIOUS
<1>1. z \in Seq(Digit) /\ Len(z) = 1 /\ z[1] = 0
  BY DecimalsAssumption DEF Digit
<1>2. Exact!Leading(z) \in 1..(Len(z) + 1)
  BY <1>1, LeadingZeros
<1>3. Exact!Leading(z) <= Len(z) => z[Exact!Leading(z)] # 0
  BY <1>1, LeadingZeros
<1>4. Exact!Leading(z) = 2
  BY <1>1, <1>2, <1>3
<1>5. QED
  BY <1>1, <1>4 DEF Exact!TrimLeft

-----------------------------------------------------------------------------
(* A number in plain notation.                                             *)

\* No exponent, no zero too many before the point, no negative zero.
PlainForm(d) ==
    /\ d = [neg |-> d.neg, whole |-> d.whole, frac |-> d.frac, exp |-> 0]
    /\ d.neg \in BOOLEAN /\ d.whole \in Seq(Digit) /\ d.frac \in Seq(Digit)
    /\ Len(d.whole) > 0 /\ (Len(d.whole) > 1 => d.whole[1] # 0)
    /\ d.neg => Exact!Number(d.whole \o d.frac) # 0

LEMMA ZerosAre ==
    ASSUME NEW n \in Int
    PROVE  /\ Exact!Zeros(n) \in Seq(Digit)
           /\ Len(Exact!Zeros(n)) = Exact!Positive(n)
           /\ Exact!Number(Exact!Zeros(n)) = 0
           /\ n <= 0 => Exact!Zeros(n) = <<>>
<1>1. 0 \in Digit
  BY DecimalsAssumption DEF Digit
<1>2. CASE n > 0
  <2>1. n \in Nat /\ Exact!Positive(n) = n
    BY <1>2 DEF Exact!Positive
  <2>2. Exact!Zeros(n) \in Seq(Digit) /\ Len(Exact!Zeros(n)) = n
    BY <1>1, <2>1 DEF Exact!Zeros
  <2>3. QED
    BY <1>2, <2>1, <2>2, NumberOfZeros
<1>3. CASE ~(n > 0)
  <2>1. Exact!Positive(n) = 0 /\ 1..n = {}
    BY <1>3 DEF Exact!Positive
  <2>2. Exact!Zeros(n) = <<>>
    BY <2>1 DEF Exact!Zeros
  <2>3. <<>> \in Seq(Digit) /\ Len(<<>>) = 0
    OBVIOUS
  <2>4. QED
    BY <2>1, <2>2, <2>3, NumberOfNone
<1>4. QED
  BY <1>2, <1>3

LEMMA Joined ==
    ASSUME NEW s \in Seq(Digit), NEW t \in Seq(Digit)
    PROVE  /\ s \o t \in Seq(Digit) /\ Len(s \o t) = Len(s) + Len(t)
           /\ Exact!Number(s \o t) = Exact!Number(s) * Pw(Len(t)) + Exact!Number(t)
           /\ SubSeq(s \o t, 1, Len(s)) = s
           /\ SubSeq(s \o t, Len(s) + 1, Len(s \o t)) = t
<1>1. s \in Seq(Int) /\ t \in Seq(Int)
  BY DecimalsAssumption DEF Digit
<1>2. s \o t \in Seq(Digit) /\ Len(s \o t) = Len(s) + Len(t)
  OBVIOUS
<1> DEFINE u == s \o t
           a == SubSeq(u, 1, Len(s))
           b == SubSeq(u, Len(s) + 1, Len(u))
<1>3. /\ \A i \in 1..Len(s) : u[i] = s[i]
      /\ \A i \in 1..Len(t) : u[Len(s) + i] = t[i]
  OBVIOUS
<1>4. Len(s) \in 0..Len(u) /\ u \in Seq(Digit) /\ Len(u) - Len(s) = Len(t)
  BY <1>2
<1> HIDE DEF u
<1>5. /\ a \in Seq(Digit) /\ Len(a) = Len(s)
      /\ b \in Seq(Digit) /\ Len(b) = Len(t)
      /\ \A i \in 1..Len(s) : a[i] = u[i]
      /\ \A i \in 1..Len(t) : b[i] = u[Len(s) + i]
  BY <1>4, Cuts
<1> HIDE DEF a, b
<1>6. a = s
  BY <1>3, <1>5
<1>7. b = t
  BY <1>3, <1>5
<1>8. QED
  BY <1>1, <1>2, <1>6, <1>7, NumberJoined DEF a, b, u

\* What plain writes of digits and their power of ten: their number, as long as the power asks.
LEMMA PlainIs ==
    ASSUME NEW neg \in BOOLEAN, NEW s \in Seq(Digit), NEW e \in Int, Len(s) > 0
    PROVE  LET d == Exact!Plain(neg, s, e)
           IN  /\ PlainForm(d)
               /\ Len(d.frac) = Exact!Positive(-e)
               /\ d.neg = (neg /\ Exact!Number(s) # 0)
               /\ Exact!Number(d.whole \o d.frac) = Exact!Number(s) * Pw(Exact!Positive(e))
<1> DEFINE all == s \o Exact!Zeros(e)
           short == Exact!Positive(-e - Len(s))
           shift == Exact!Zeros(short) \o s
           at == Len(shift) + e
           front == IF e >= 0 THEN all ELSE SubSeq(shift, 1, at)
           trim == Exact!TrimLeft(front)
           whole == IF trim = <<>> THEN <<0>> ELSE trim
           frac == IF e >= 0 THEN <<>> ELSE SubSeq(shift, at + 1, Len(shift))
           d == Exact!Plain(neg, s, e)
<1>1. d = [neg |-> neg /\ Exact!Number(s) # 0, whole |-> whole, frac |-> frac, exp |-> 0]
  BY DEF Exact!Plain
<1>2. Len(s) \in Nat /\ Exact!Number(s) \in Nat
  BY NumberBounded
<1>3. /\ front \in Seq(Digit) /\ frac \in Seq(Digit)
      /\ Len(frac) = Exact!Positive(-e)
      /\ Exact!Number(front \o frac) = Exact!Number(s) * Pw(Exact!Positive(e))
  <2>1. CASE e >= 0
    <3>1. /\ Exact!Positive(-e) = 0 /\ Exact!Positive(e) = e /\ front = all /\ frac = <<>>
      BY <2>1 DEF Exact!Positive
    <3>2. all \in Seq(Digit) /\ Exact!Number(all) = Exact!Number(s) * Pw(e) + 0
      BY <2>1, <3>1, ZerosAre, Joined
    <3>3. Exact!Number(s) * Pw(e) \in Int
      BY <1>2, <2>1, PwDef
    <3>4. all \o <<>> = all
      BY <3>2
    <3>5. <<>> \in Seq(Digit) /\ Len(<<>>) = 0
      OBVIOUS
    <3> HIDE DEF all, front, frac
    <3>6. QED
      BY <3>1, <3>2, <3>3, <3>4, <3>5
  <2>2. CASE e < 0
    <3>1. Exact!Positive(-e) = -e /\ Exact!Positive(e) = 0
      BY <2>2 DEF Exact!Positive
    <3>2. short \in Nat /\ short >= -e - Len(s) /\ Exact!Positive(short) = short
      BY <1>2 DEF Exact!Positive
    <3>3. /\ shift \in Seq(Digit) /\ Len(shift) = short + Len(s)
          /\ Exact!Number(shift) = 0 * Pw(Len(s)) + Exact!Number(s)
      <4> HIDE DEF short
      <4>1. /\ Exact!Zeros(short) \in Seq(Digit) /\ Len(Exact!Zeros(short)) = short
            /\ Exact!Number(Exact!Zeros(short)) = 0
        BY <3>2, ZerosAre, short \in Int
      <4>2. QED
        BY <4>1, Joined
    <3>4. at \in 0..Len(shift) /\ Len(shift) - at = -e
      <4> HIDE DEF short, shift
      <4>1. QED
        BY <1>2, <2>2, <3>2, <3>3
    <3>5. front = SubSeq(shift, 1, at) /\ frac = SubSeq(shift, at + 1, Len(shift))
      <4>1. ~(e >= 0)
        BY <2>2
      <4>2. QED
        BY <4>1, Zenon
    <3> HIDE DEF short, shift, at, front, frac
    <3>6. /\ front \in Seq(Digit) /\ frac \in Seq(Digit) /\ Len(frac) = -e
          /\ shift = front \o frac
      BY <3>3, <3>4, <3>5, Cuts
    <3>7. 0 * Pw(Len(s)) + Exact!Number(s) = Exact!Number(s) * Pw(0)
      BY <1>2, PwDef
    <3>8. QED
      BY <3>1, <3>3, <3>6, <3>7
  <2>3. e >= 0 \/ e < 0
    OBVIOUS
  <2>4. QED
    BY <2>1, <2>2, <2>3, Zenon
<1> HIDE DEF all, short, shift, at, front, frac
<1>4. /\ trim \in Seq(Digit) /\ (Len(trim) > 0 => trim[1] # 0)
      /\ Exact!Number(trim) = Exact!Number(front)
  BY <1>3, Trimmed
<1>5. /\ whole \in Seq(Digit) /\ Len(whole) > 0 /\ (Len(whole) > 1 => whole[1] # 0)
      /\ Exact!Number(whole) = Exact!Number(front)
  <2> HIDE DEF trim
  <2>1. CASE trim = <<>>
    <3>1. whole = <<0>> /\ <<0>> \in Seq(Digit) /\ Len(<<0>>) = 1
      BY <2>1, DecimalsAssumption DEF Digit
    <3>2. Exact!Number(<<0>>) = 0
      BY NumberOfOne, 0 \in Int
    <3> HIDE DEF whole
    <3>3. QED
      BY <1>4, <2>1, <3>1, <3>2, NumberOfNone
  <2>2. CASE trim # <<>>
    BY <1>4, <2>2
  <2>3. QED
    BY <2>1, <2>2
<1> HIDE DEF trim, whole
<1>6. Exact!Number(whole \o frac) = Exact!Number(s) * Pw(Exact!Positive(e))
  BY <1>3, <1>5, Joined
<1> HIDE DEF d
<1>7. d.whole = whole /\ d.frac = frac /\ d.neg = (neg /\ Exact!Number(s) # 0) /\ d.exp = 0
  BY <1>1
<1>8. d.neg => Exact!Number(d.whole \o d.frac) # 0
  <2> SUFFICES ASSUME d.neg PROVE Exact!Number(whole \o frac) # 0
    BY <1>7
  <2>1. Exact!Number(s) # 0
    BY <1>7
  <2>2. Exact!Positive(e) \in Nat
    BY DEF Exact!Positive
  <2>3. Pw(Exact!Positive(e)) \in Nat /\ Pw(Exact!Positive(e)) > 0
    BY <2>2, PwPositive
  <2>4. \A x, y \in Nat : x # 0 /\ y > 0 => x * y # 0
    OBVIOUS
  <2>5. QED
    BY <1>2, <1>6, <2>1, <2>3, <2>4
<1>9. PlainForm(d)
  BY <1>1, <1>3, <1>5, <1>7, <1>8 DEF PlainForm
<1>10. QED
  BY <1>3, <1>6, <1>7, <1>9 DEF d

\* Reading a number in plain notation changes nothing of it.
LEMMA PlainStays ==
    ASSUME NEW d, PlainForm(d)
    PROVE  Exact!Parse(d) = d
<1> DEFINE s == d.whole \o d.frac
           e == 0 - Len(d.frac)
           W == Len(d.whole)
           F == Len(d.frac)
<1>1. /\ d = [neg |-> d.neg, whole |-> d.whole, frac |-> d.frac, exp |-> 0]
      /\ d.neg \in BOOLEAN /\ d.whole \in Seq(Digit) /\ d.frac \in Seq(Digit)
      /\ W > 0 /\ (W > 1 => d.whole[1] # 0) /\ (d.neg => Exact!Number(s) # 0)
  BY DEF PlainForm
<1>2. d.exp = 0
  BY <1>1
<1>3. Exact!Parse(d) = Exact!Plain(d.neg, s, e)
  BY <1>2 DEF Exact!Parse, Exact!Split
<1>4. s \in Seq(Digit) /\ Len(s) = W + F /\ W \in Nat /\ F \in Nat
  BY <1>1
<1>5. SubSeq(s, 1, W) = d.whole /\ SubSeq(s, W + 1, Len(s)) = d.frac
  BY <1>1, Joined
<1>6. (IF Exact!TrimLeft(d.whole) = <<>> THEN <<0>> ELSE Exact!TrimLeft(d.whole)) = d.whole
  <2>1. CASE d.whole[1] # 0
    <3>1. Exact!TrimLeft(d.whole) = d.whole
      BY <1>1, <2>1, TrimmedFirst
    <3>2. d.whole # <<>>
      BY <1>1
    <3>3. QED
      BY <3>1, <3>2
  <2>2. CASE d.whole[1] = 0
    <3>1. d.whole = <<0>>
      BY <1>1, <1>4, <2>2
    <3>2. QED
      BY <3>1, TrimmedZero
  <2>3. QED
    BY <2>1, <2>2
<1> DEFINE all == s \o Exact!Zeros(e)
           short == Exact!Positive(-e - Len(s))
           shift == Exact!Zeros(short) \o s
           at == Len(shift) + e
           front == IF e >= 0 THEN all ELSE SubSeq(shift, 1, at)
           trim == Exact!TrimLeft(front)
           frac == IF e >= 0 THEN <<>> ELSE SubSeq(shift, at + 1, Len(shift))
<1>7. Exact!Plain(d.neg, s, e)
          = [neg |-> d.neg /\ Exact!Number(s) # 0,
             whole |-> IF trim = <<>> THEN <<0>> ELSE trim,
             frac |-> frac, exp |-> 0]
  BY DEF Exact!Plain
<1>8. front = d.whole /\ frac = d.frac
  <2>1. CASE F = 0
    <3>1. e = 0 /\ e >= 0 /\ d.frac = <<>>
      BY <1>1, <2>1
    <3>2. Exact!Zeros(e) = <<>>
      BY <3>1, ZerosAre
    <3>3. all = d.whole
      BY <1>1, <3>1, <3>2
    <3>4. QED
      BY <3>1, <3>3
  <2>2. CASE F # 0
    <3>1. ~(e >= 0) /\ -e - Len(s) <= 0 /\ -e - Len(s) \in Int
      BY <1>1, <1>4, <2>2
    <3>2. short = 0
      <4> HIDE DEF s, e
      <4>1. QED
        BY <3>1 DEF Exact!Positive
    <3>3. Exact!Zeros(short) = <<>>
      <4> HIDE DEF short
      <4>1. QED
        BY <3>2, ZerosAre
    <3>4. shift = s
      <4> HIDE DEF short
      <4>1. QED
        BY <1>4, <3>3
    <3>5. at = W
      <4>1. e = -F
        BY <1>4
      <4> HIDE DEF shift, s, e, F, W
      <4>2. Len(shift) = W + F
        BY <1>4, <3>4
      <4>3. QED
        BY <1>4, <4>1, <4>2
    <3> HIDE DEF shift, at
    <3>6. front = SubSeq(s, 1, W) /\ frac = SubSeq(s, W + 1, Len(s))
      BY <3>1, <3>4, <3>5
    <3>7. QED
      BY <1>5, <3>6
  <2>3. QED
    BY <2>1, <2>2
<1> HIDE DEF s, e, front, frac
<1>9. (d.neg /\ Exact!Number(s) # 0) = d.neg
  BY <1>1
<1>10. QED
  BY <1>1, <1>3, <1>6, <1>7, <1>8, <1>9

\* What is read is what is written, and in plain notation.
LEMMA TextRead ==
    ASSUME NEW t \in Exact!Texts
    PROVE  LET s == Exact!Split(t)
               d == Exact!Parse(t)
           IN  /\ s.neg \in BOOLEAN /\ s.digits \in Seq(Digit) /\ Len(s.digits) > 0
               /\ s.exp \in Int
               /\ PlainForm(d)
               /\ Len(d.frac) = Exact!Positive(-s.exp)
               /\ d.neg = (s.neg /\ Exact!Number(s.digits) # 0)
               /\ Exact!Number(d.whole \o d.frac)
                      = Exact!Number(s.digits) * Pw(Exact!Positive(s.exp))
<1> DEFINE s == Exact!Split(t)
<1>1. /\ t.neg \in BOOLEAN
      /\ t.whole \in UNION {[1..i -> Figures] : i \in Widths \cap (Nat \ {0})}
      /\ t.frac \in UNION {[1..i -> Figures] : i \in Widths \cap Nat}
      /\ t.exp \in -MaxExponent..MaxExponent
  BY DEF Exact!Texts, Exact!Written
<1>2. PICK i \in Nat \ {0} : t.whole \in [1..i -> Figures]
  BY <1>1
<1>3. PICK j \in Nat : t.frac \in [1..j -> Figures]
  BY <1>1
<1>4. Figures \subseteq Digit
  BY DecimalsAssumption DEF Digit
<1>5. t.whole \in Seq(Digit) /\ Len(t.whole) = i
  BY <1>2, <1>4
<1>6. t.frac \in Seq(Digit) /\ Len(t.frac) = j
  BY <1>3, <1>4
<1>7. t.exp \in Int
  BY <1>1, PartsAssumption
<1>8. /\ s.neg = t.neg /\ s.digits = t.whole \o t.frac /\ s.exp = t.exp - Len(t.frac)
  BY DEF Exact!Split
<1>9. /\ s.neg \in BOOLEAN /\ s.digits \in Seq(Digit) /\ Len(s.digits) > 0
      /\ s.exp \in Int
  <2> HIDE DEF s
  <2>1. s.neg \in BOOLEAN
    BY <1>1, <1>8
  <2>2. t.whole \o t.frac \in Seq(Digit) /\ Len(t.whole \o t.frac) = i + j
    BY <1>5, <1>6, Joined
  <2>3. t.exp - Len(t.frac) \in Int
    BY <1>6, <1>7
  <2>4. QED
    BY <1>8, <2>1, <2>2, <2>3
<1>10. Exact!Parse(t) = Exact!Plain(s.neg, s.digits, s.exp)
  BY DEF Exact!Parse
<1> HIDE DEF s
<1>11. QED
  BY <1>9, <1>10, PlainIs DEF s

LEMMA PositivePart ==
    ASSUME NEW n \in Int
    PROVE  /\ Exact!Positive(n) \in Nat /\ Exact!Positive(-n) \in Nat
           /\ Exact!Magnitude(n) \in Nat
           /\ Exact!Positive(n) - Exact!Positive(-n) = n
           /\ Exact!Magnitude(n) = Exact!Positive(n) + Exact!Positive(-n)
           /\ n <= 0 => Exact!Positive(n) = 0 /\ Exact!Positive(-n) = -n
  BY DEF Exact!Positive, Exact!Magnitude

\* The value of what is read, at any places that take in its fraction.
LEMMA ReadScaled ==
    ASSUME NEW d, PlainForm(d), NEW p \in Nat, p >= Len(d.frac)
    PROVE  LET n == Exact!Number(d.whole \o d.frac) * Pw(p - Len(d.frac))
           IN  Exact!Scaled(d, p) = IF d.neg THEN -n ELSE n
<1>1. /\ d.exp = 0 /\ d.frac \in Seq(Digit) /\ Len(d.frac) \in Nat
  BY DEF PlainForm
<1> DEFINE s == Exact!Split(d)
<1>2. s.neg = d.neg /\ s.digits = d.whole \o d.frac /\ s.exp = 0 - Len(d.frac)
  BY <1>1 DEF Exact!Split
<1>3. p + s.exp = p - Len(d.frac)
  BY <1>1, <1>2
<1>4. QED
  BY <1>2, <1>3 DEF Exact!Scaled, Exact!Signed, Pw

LEMMA NumbersRead ==
    ASSUME NEW t \in Exact!Texts
    PROVE  LET d == Exact!Parse(t)
               p == Exact!Places(t)
           IN  /\ Exact!Scaled(d, p) = Exact!Scaled(t, p)
               /\ Len(d.frac) = Exact!Positive(-Exact!Split(t).exp)
               /\ d.exp = 0 /\ Exact!Parse(d) = d
               /\ Len(d.whole) > 1 => Head(d.whole) # 0
               /\ d.neg => Exact!Scaled(d, p) < 0
<1> DEFINE s == Exact!Split(t)
           d == Exact!Parse(t)
           p == Exact!Places(t)
           e == s.exp
           N == Exact!Number(s.digits)
           M == Exact!Number(d.whole \o d.frac)
           up == Exact!Positive(e)
           down == Exact!Positive(-e)
<1>1. /\ s.neg \in BOOLEAN /\ s.digits \in Seq(Digit) /\ e \in Int /\ PlainForm(d)
      /\ Len(d.frac) = down /\ d.neg = (s.neg /\ N # 0) /\ M = N * Pw(up)
  BY TextRead
<1>2. N \in Nat
  BY <1>1, NumberBounded
<1>3. up \in Nat /\ down \in Nat /\ p \in Nat /\ up - down = e /\ p = up + down
  BY <1>1, PositivePart DEF Exact!Places
<1>4. Exact!Scaled(t, p) = IF s.neg THEN -(N * Pw(p + e)) ELSE N * Pw(p + e)
  BY DEF Exact!Scaled, Exact!Signed, Pw
<1> HIDE DEF s, d, p, e, N, M, up, down
<1>5. p >= Len(d.frac) /\ p - Len(d.frac) = up /\ p + e = up + up
  BY <1>1, <1>3
<1>6. M * Pw(up) = N * Pw(p + e) /\ N * Pw(p + e) \in Nat
  <2>1. Pw(up + up) = Pw(up) * Pw(up) /\ Pw(up) \in Nat
    BY <1>3, PwSum, PwPositive
  <2>2. \A x, y \in Nat : (x * y) * y = x * (y * y) /\ x * (y * y) \in Nat
    OBVIOUS
  <2>3. QED
    BY <1>1, <1>2, <1>5, <2>1, <2>2
<1>7. Exact!Scaled(d, p) = IF d.neg THEN -(M * Pw(up)) ELSE M * Pw(up)
  BY <1>1, <1>3, <1>5, ReadScaled DEF M
<1>8. N = 0 => N * Pw(p + e) = 0
  <2>1. Pw(p + e) \in Int
    BY <1>3, <1>5, PwDef
  <2>2. QED
    BY <2>1
<1>9. Exact!Scaled(d, p) = Exact!Scaled(t, p)
  BY <1>1, <1>4, <1>6, <1>7, <1>8
<1>10. d.neg => Exact!Scaled(d, p) < 0
  <2> SUFFICES ASSUME d.neg PROVE Exact!Scaled(d, p) < 0
    OBVIOUS
  <2> p + e \in Nat
    BY <1>3, <1>5
  <2> N # 0
    BY <1>1
  <2>1. Pw(p + e) \in Nat /\ Pw(p + e) > 0
    BY PwPositive
  <2>2. N * Pw(p + e) > 0
    BY <1>2, <2>1, Positives
  <2>3. QED
    BY <1>6, <1>7, <2>2
<1>11. d.exp = 0 /\ (Len(d.whole) > 1 => Head(d.whole) # 0)
  BY <1>1 DEF PlainForm
<1>12. Exact!Parse(d) = d
  BY <1>1, PlainStays
<1>13. QED
  BY <1>1, <1>9, <1>10, <1>11, <1>12 DEF s, d, p, e, down

-----------------------------------------------------------------------------
(* The room of a column.                                                   *)

LEMMA DroppedZeros ==
    ASSUME NEW s \in Seq(Digit), NEW e \in Int
    PROVE  LET n == Exact!Dropped(s, e)
           IN  /\ n \in 0..Len(s) /\ n <= Exact!Positive(-e)
               /\ \A i \in (Len(s) - n + 1)..Len(s) : s[i] = 0
               /\ n < Len(s) /\ n < Exact!Positive(-e) => s[Len(s) - n] # 0
<1> DEFINE max == Exact!Positive(-e)
           Is(n) == /\ n <= max
                    /\ \A i \in (Len(s) - n + 1)..Len(s) : s[i] = 0
                    /\ n < Len(s) /\ n < max => s[Len(s) - n] # 0
           S == {n \in 0..Len(s) : n <= max /\ (n < Len(s) /\ n < max => s[Len(s) - n] # 0)}
           most == IF max < Len(s) THEN max ELSE Len(s)
<1>1. Len(s) \in Nat /\ max \in Nat
  <2>1. Exact!Positive(-e) \in Nat
    BY PositivePart
  <2>2. QED
    BY <2>1
<1>2. Exact!Dropped(s, e) = CHOOSE n \in 0..Len(s) : Is(n)
  BY DEF Exact!Dropped
<1> HIDE DEF max
<1>3. S \in SUBSET Nat /\ most \in S
  BY <1>1
<1>4. PICK n \in S : \A k \in S : n <= k
  BY <1>3, LeastNat
<1>5. n \in 0..Len(s) /\ n <= max /\ (n < Len(s) /\ n < max => s[Len(s) - n] # 0)
  BY <1>4
<1>6. ASSUME NEW i \in (Len(s) - n + 1)..Len(s) PROVE s[i] = 0
  <2>1. Len(s) - i \in 0..Len(s) /\ Len(s) - i < n /\ Len(s) - (Len(s) - i) = i
    BY <1>1, <1>5
  <2>2. Len(s) - i \notin S
    BY <1>4, <2>1, <1>1
  <2>3. Len(s) - i <= max
    BY <1>1, <1>5, <2>1
  <2>4. QED
    BY <2>1, <2>2, <2>3
<1>7. Is(n)
  BY <1>5, <1>6
<1>8. Exact!Dropped(s, e) \in 0..Len(s) /\ Is(Exact!Dropped(s, e))
  <2> HIDE DEF Is
  <2>1. QED
    BY <1>2, <1>5, <1>7
<1>9. QED
  BY <1>8 DEF max

\* Without its last zeros a number is that much smaller.
LEMMA DroppedNumber ==
    ASSUME NEW s \in Seq(Digit), NEW n \in 0..Len(s),
           \A i \in (Len(s) - n + 1)..Len(s) : s[i] = 0
    PROVE  LET r == SubSeq(s, 1, Len(s) - n)
           IN  /\ r \in Seq(Digit) /\ Len(r) = Len(s) - n
               /\ \A i \in 1..(Len(s) - n) : r[i] = s[i]
               /\ Exact!Number(s) = Exact!Number(r) * Pw(n)
<1> DEFINE k == Len(s) - n
           r == SubSeq(s, 1, k)
           z == SubSeq(s, k + 1, Len(s))
<1>1. Len(s) \in Nat /\ k \in 0..Len(s) /\ Len(s) - k = n
  OBVIOUS
<1>2. \A i \in (k + 1)..Len(s) : s[i] = 0
  OBVIOUS
<1> HIDE DEF k
<1>3. /\ r \in Seq(Digit) /\ Len(r) = k
      /\ z \in Seq(Digit) /\ Len(z) = n
      /\ \A i \in 1..k : r[i] = s[i]
      /\ \A i \in 1..n : z[i] = s[k + i]
      /\ s = r \o z
  BY <1>1, Cuts
<1> HIDE DEF r, z
<1>4. \A i \in 1..n : z[i] = 0
  <2> TAKE i \in 1..n
  <2>1. k + i \in (k + 1)..Len(s)
    BY <1>1
  <2>2. QED
    BY <1>2, <1>3, <2>1
<1>5. z = Exact!Zeros(n)
  BY <1>1, <1>3, <1>4 DEF Exact!Zeros
<1>6. Exact!Number(z) = 0
  BY <1>1, <1>5, NumberOfZeros
<1>7. Exact!Number(r \o z) = Exact!Number(r) * Pw(n) + 0
  BY <1>3, <1>6, Joined
<1>8. Exact!Number(r) * Pw(n) \in Int
  BY <1>1, <1>3, NumberBounded, PwDef
<1>9. Exact!Number(s) = Exact!Number(r) * Pw(n)
  BY <1>3, <1>7, <1>8
<1>10. QED
  BY <1>3, <1>9 DEF r, k

LEMMA RemainderZero ==
    ASSUME NEW x \in Nat, NEW y \in Nat, y > 0
    PROVE  x % y = 0 <=> \E q \in Nat : x = q * y
<1>1. x \div y \in Nat
  OBVIOUS
<1>2. x = (x \div y) * y + (x % y)
  OBVIOUS
<1>3. ASSUME NEW q \in Nat, x = q * y PROVE x % y = 0
  BY <1>3
<1>4. ASSUME x % y = 0 PROVE \E q \in Nat : x = q * y
  <2>1. x = (x \div y) * y
    BY <1>1, <1>2, <1>4
  <2>2. QED
    BY <1>1, <2>1
<1>5. QED
  BY <1>3, <1>4

\* A number whose last digit is not zero is no multiple of the base.
LEMMA LastDigit ==
    ASSUME NEW s \in Seq(Digit), Len(s) > 0, s[Len(s)] # 0, NEW q \in Nat
    PROVE  Exact!Number(s) # q * Base
<1> DEFINE k == Len(s) - 1
           r == SubSeq(s, 1, k)
           z == SubSeq(s, k + 1, Len(s))
<1>1. k \in 0..Len(s) /\ Len(s) - k = 1 /\ k + 1 = Len(s) /\ 1 \in 1..1
  OBVIOUS
<1> HIDE DEF k
<1>2. /\ r \in Seq(Digit)
      /\ z \in Seq(Digit) /\ Len(z) = 1 /\ z[1] = s[k + 1]
      /\ s = r \o z
  <2>1. /\ r \in Seq(Digit)
        /\ z \in Seq(Digit) /\ Len(z) = Len(s) - k
        /\ \A i \in 1..(Len(s) - k) : z[i] = s[k + i]
        /\ s = r \o z
    BY <1>1, Cuts
  <2> HIDE DEF r, z
  <2>2. QED
    BY <1>1, <2>1
<1> DEFINE c == s[Len(s)]
<1>3. z = <<c>>
  <2> HIDE DEF z
  <2>1. QED
    BY <1>1, <1>2
<1>4. c \in Digit /\ c # 0
  OBVIOUS
<1> HIDE DEF r, z, c
<1>5. c \in Nat /\ c > 0 /\ c < Base
  BY <1>4, DecimalsAssumption DEF Digit
<1>6. Exact!Number(z) = c
  BY <1>3, <1>5, NumberOfOne
<1>7. Exact!Number(s) = Exact!Number(r) * Pw(1) + c
  <2>1. Exact!Number(r \o z) = Exact!Number(r) * Pw(Len(z)) + Exact!Number(z)
    BY <1>2, Joined
  <2>2. QED
    BY <1>2, <1>6, <2>1
<1>8. Pw(1) = Base
  <2>1. Pw(0 + 1) = Base * Pw(0) /\ Pw(0) = 1
    BY PwDef
  <2>2. QED
    BY <2>1, DecimalsAssumption
<1>9. Exact!Number(r) \in Nat
  BY <1>2, NumberBounded
<1>10. \A x, y, b, d \in Nat : 0 < d /\ d < b => x * b + d # y * b
  <2> SUFFICES ASSUME NEW x \in Nat, NEW y \in Nat, NEW b \in Nat, NEW d \in Nat,
                      0 < d, d < b, x * b + d = y * b
               PROVE  FALSE
    OBVIOUS
  <2>1. (y - x) * b = d
    OBVIOUS
  <2>2. y - x <= 0 => (y - x) * b <= 0
    OBVIOUS
  <2>3. y - x >= 1 => (y - x) * b >= b
    OBVIOUS
  <2>4. QED
    BY <2>1, <2>2, <2>3
<1>11. QED
  BY <1>5, <1>7, <1>8, <1>9, <1>10, DecimalsAssumption

\* Fits counts what the column holds: the places a multiple of its last one needs, and the
\* digits in front of the point.
LEMMA FitsIsHeld ==
    ASSUME NEW d, PlainForm(d), NEW p \in Nat, NEW precision \in Nat, NEW scale \in Nat,
           scale <= precision, p >= Len(d.frac), p >= scale
    PROVE  LET n == Exact!Number(d.whole \o d.frac) * Pw(p - Len(d.frac))
           IN  Exact!Fits(d, precision, scale) <=>
                   /\ n % Pw(p - scale) = 0
                   /\ n < Pw(p + precision - scale)
<1> DEFINE s == d.whole \o d.frac
           F == Len(d.frac)
           e == 0 - F
           k == Exact!Dropped(s, e)
           r == SubSeq(s, 1, Len(s) - k)
           t == Exact!TrimLeft(r)
           L == Len(t)
           N == Exact!Number(s)
           M == Exact!Number(r)
           f == F - k
           room == precision - scale
           n == N * Pw(p - F)
<1>1. /\ d.whole \in Seq(Digit) /\ d.frac \in Seq(Digit) /\ Len(d.whole) > 0 /\ d.exp = 0
  BY DEF PlainForm
<1>2. /\ s \in Seq(Digit) /\ Len(s) = Len(d.whole) + F /\ F \in Nat /\ Len(d.whole) \in Nat
  BY <1>1, Joined
<1>3. Exact!Fits(d, precision, scale) <=>
          /\ Exact!Positive(-(e + k)) <= scale
          /\ Exact!Positive(L + (e + k)) <= room
  BY <1>1 DEF Exact!Fits, Exact!Split
<1> HIDE DEF s
<1>4. F < Len(s) /\ e \in Int /\ Exact!Positive(-e) = F
  <2>1. e \in Int /\ -e = F
    <3> HIDE DEF F
    <3>1. QED
      BY <1>2
  <2>2. F < Len(s)
    <3> HIDE DEF F
    <3>1. QED
      BY <1>1, <1>2
  <2>3. Exact!Positive(-e) = F
    <3> HIDE DEF e
    <3>1. QED
      BY <1>2, <2>1 DEF Exact!Positive
  <2>4. QED
    BY <2>1, <2>2, <2>3
<1>5. /\ k \in 0..Len(s) /\ k <= F
      /\ \A i \in (Len(s) - k + 1)..Len(s) : s[i] = 0
      /\ k < Len(s) /\ k < F => s[Len(s) - k] # 0
  <2> HIDE DEF e, F
  <2>1. QED
    BY <1>2, <1>4, DroppedZeros
<1>6. f \in Nat /\ -(e + k) = f /\ L + (e + k) = L - f /\ p - F \in Nat /\ p - scale \in Nat
      /\ room \in Nat /\ p + precision - scale = p + room /\ L \in Nat
  <2>1. r \in Seq(Digit)
    <3> HIDE DEF k
    <3>1. QED
      BY <1>2, <1>5, DroppedNumber
  <2>2. L \in Nat
    <3> HIDE DEF r
    <3>1. t \in Seq(Digit)
      BY <2>1, Trimmed
    <3>2. QED
      BY <3>1
  <2> HIDE DEF k, L
  <2>3. QED
    BY <1>2, <1>5, <2>2
<1>7. /\ r \in Seq(Digit) /\ Len(r) = Len(s) - k
      /\ \A i \in 1..(Len(s) - k) : r[i] = s[i]
      /\ N = M * Pw(k)
  <2> HIDE DEF k
  <2>1. QED
    BY <1>2, <1>5, DroppedNumber
<1>8. f > 0 => Len(r) > 0 /\ r[Len(r)] # 0
  <2> SUFFICES ASSUME f > 0 PROVE Len(r) > 0 /\ r[Len(r)] # 0
    OBVIOUS
  <2> HIDE DEF k, r, F
  <2>1. k < F /\ k < Len(s) /\ Len(r) > 0 /\ Len(r) \in 1..(Len(s) - k)
    BY <1>2, <1>4, <1>5, <1>7
  <2>2. QED
    BY <1>5, <1>7, <2>1
<1>9. /\ t \in Seq(Digit) /\ (Len(t) > 0 => t[1] # 0) /\ Exact!Number(t) = M
  <2> HIDE DEF r
  <2>1. QED
    BY <1>7, Trimmed
<1> HIDE DEF e, k, r, t, N, M
<1>10. M \in Nat
  BY <1>7, NumberBounded DEF M
<1>11. n = M * Pw(p - f) /\ p - f \in Nat
  <2>1. k \in Nat /\ k + (p - F) = p - f
    BY <1>2, <1>5
  <2>2. Pw(p - f) = Pw(k) * Pw(p - F)
    BY <1>6, <2>1, PwSum
  <2>3. Pw(k) \in Nat /\ Pw(p - F) \in Nat
    BY <1>6, <2>1, PwPositive
  <2>4. \A x, y, z \in Nat : (x * y) * z = x * (y * z)
    OBVIOUS
  <2>5. p - f \in Nat
    BY <1>2, <1>6, <2>1
  <2>6. QED
    BY <1>7, <1>10, <2>2, <2>3, <2>4, <2>5
<1> HIDE DEF n, F, f, L, room
<1>12. Pw(p - f) \in Nat /\ Pw(p - f) > 0 /\ Pw(p - scale) \in Nat /\ Pw(p - scale) > 0
  <2>1. p - f \in Nat /\ p - scale \in Nat
    BY <1>6, <1>11
  <2>2. Pw(p - f) \in Nat /\ Pw(p - f) > p - f
    BY <2>1, PwPositive
  <2>3. Pw(p - scale) \in Nat /\ Pw(p - scale) > p - scale
    BY <2>1, PwPositive
  <2>4. QED
    BY <2>1, <2>2, <2>3
<1>13. n \in Nat
  BY <1>10, <1>11, <1>12
<1>14. f <= scale => n % Pw(p - scale) = 0
  <2> SUFFICES ASSUME f <= scale PROVE n % Pw(p - scale) = 0
    OBVIOUS
  <2>1. scale - f \in Nat /\ (scale - f) + (p - scale) = p - f
    BY <1>6
  <2>2. Pw(p - f) = Pw(scale - f) * Pw(p - scale) /\ Pw(scale - f) \in Nat
    <3>1. Pw((scale - f) + (p - scale)) = Pw(scale - f) * Pw(p - scale)
      BY <1>6, <2>1, PwSum
    <3>2. Pw(scale - f) \in Nat
      BY <2>1, PwPositive
    <3>3. QED
      BY <2>1, <3>1, <3>2
  <2>3. \A x, y, z \in Nat : x * (y * z) = (x * y) * z /\ x * y \in Nat
    OBVIOUS
  <2>4. n = (M * Pw(scale - f)) * Pw(p - scale) /\ M * Pw(scale - f) \in Nat
    BY <1>10, <1>11, <1>12, <2>2, <2>3
  <2>5. QED
    BY <1>12, <1>13, <2>4, RemainderZero
<1>15. f > scale => n % Pw(p - scale) # 0
  <2> SUFFICES ASSUME f > scale, n % Pw(p - scale) = 0 PROVE FALSE
    OBVIOUS
  <2>1. PICK q \in Nat : n = q * Pw(p - scale)
    BY <1>12, <1>13, RemainderZero
  <2>2. f - scale - 1 \in Nat /\ (p - f) + ((f - scale - 1) + 1) = p - scale
    BY <1>6
  <2> DEFINE w == Pw(f - scale - 1)
  <2>3. w \in Nat /\ Pw((f - scale - 1) + 1) = Base * w
    BY <2>2, PwPositive, PwDef
  <2>4. Pw(p - scale) = Pw(p - f) * (Base * w)
    BY <1>11, <2>2, <2>3, PwSum
  <2> HIDE DEF w
  <2>5. \A x, y, z, b, v \in Nat : y > 0 /\ x * y = z * (y * (b * v)) => x = (z * v) * b
    <3> SUFFICES ASSUME NEW x \in Nat, NEW y \in Nat, NEW z \in Nat, NEW b \in Nat,
                        NEW v \in Nat, y > 0, x * y = z * (y * (b * v))
                 PROVE  x = (z * v) * b
      OBVIOUS
    <3>1. PICK u \in Nat : u = (z * v) * b
      OBVIOUS
    <3>2. z * (y * (b * v)) = u * y
      BY <3>1
    <3>3. QED
      BY <3>1, <3>2
  <2>6. M = (q * w) * Base /\ q * w \in Nat
    <3>1. M * Pw(p - f) = q * (Pw(p - f) * (Base * w))
      BY <1>11, <2>1, <2>4
    <3>2. M \in Nat /\ Pw(p - f) \in Nat /\ Pw(p - f) > 0 /\ w \in Nat /\ Base \in Nat
      BY <1>10, <1>12, <2>3, DecimalsAssumption
    <3>3. M = (q * w) * Base
      BY <2>5, <3>1, <3>2
    <3>4. q * w \in Nat
      BY <3>2
    <3>5. QED
      BY <3>3, <3>4
  <2>7. Len(r) > 0 /\ r[Len(r)] # 0
    BY <1>6, <1>8
  <2>8. QED
    BY <1>7, <2>6, <2>7, LastDigit DEF M
<1>16. Exact!Positive(L + (e + k)) <= room <=> n < Pw(p + room)
  <2>1. Exact!Positive(L - f) <= room <=> L - f <= room
    BY <1>6 DEF Exact!Positive
  <2>2. CASE L = 0
    <3>1. M = 0
      BY <1>9, <2>2, NumberOfNone DEF L
    <3>2. n = 0 /\ Pw(p + room) > 0
      <4>1. n = 0
        BY <1>11, <1>12, <3>1
      <4>2. p + room \in Nat
        BY <1>6
      <4>3. Pw(p + room) \in Nat /\ Pw(p + room) > p + room
        BY <4>2, PwPositive
      <4>4. QED
        BY <4>1, <4>2, <4>3
    <3>3. QED
      BY <1>6, <2>1, <2>2, <3>2
  <2>3. CASE L # 0
    <3>1. Pw(L - 1) <= M /\ M < Pw(L) /\ L - 1 \in Nat
      BY <1>6, <1>9, <2>3, NumberAtLeast, NumberBounded DEF L
    <3>2. Pw(L - 1) \in Nat /\ Pw(L) \in Nat
      BY <1>6, <3>1, PwPositive
    <3>3. \A x, y, z \in Nat : x <= y => x * z <= y * z
      OBVIOUS
    <3>4. \A x, y, z \in Nat : x < y /\ z > 0 => x * z < y * z
      OBVIOUS
    <3>5. Pw((L - 1) + (p - f)) <= n /\ n < Pw(L + (p - f))
      <4>1. /\ Pw((L - 1) + (p - f)) = Pw(L - 1) * Pw(p - f)
            /\ Pw(L + (p - f)) = Pw(L) * Pw(p - f)
        BY <1>6, <1>11, <3>1, PwSum
      <4>2. Pw(L - 1) * Pw(p - f) <= M * Pw(p - f)
        BY <1>10, <1>12, <3>1, <3>2, <3>3
      <4>3. M * Pw(p - f) < Pw(L) * Pw(p - f)
        BY <1>10, <1>12, <3>1, <3>2, <3>4
      <4>4. QED
        BY <1>11, <4>1, <4>2, <4>3
    <3>6. CASE L - f <= room
      <4>1. L + (p - f) \in Nat /\ p + room \in Nat /\ L + (p - f) <= p + room
        BY <1>6, <1>11, <3>6
      <4>2. Pw(L + (p - f)) <= Pw(p + room) /\ Pw(L + (p - f)) \in Nat /\ Pw(p + room) \in Nat
        BY <4>1, PwGrows, PwPositive
      <4>3. n < Pw(p + room)
        BY <1>13, <3>5, <4>2
      <4>4. QED
        BY <1>6, <2>1, <3>6, <4>3
    <3>7. CASE L - f > room
      <4>1. (L - 1) + (p - f) \in Nat /\ p + room \in Nat /\ p + room <= (L - 1) + (p - f)
        BY <1>6, <1>11, <3>1, <3>7
      <4>2. /\ Pw(p + room) <= Pw((L - 1) + (p - f))
            /\ Pw((L - 1) + (p - f)) \in Nat /\ Pw(p + room) \in Nat
        BY <4>1, PwGrows, PwPositive
      <4>3. ~(n < Pw(p + room))
        BY <1>13, <3>5, <4>2
      <4>4. QED
        BY <1>6, <2>1, <3>7, <4>3
    <3>8. QED
      BY <1>6, <3>6, <3>7
  <2>4. QED
    BY <2>2, <2>3
<1>17. Exact!Positive(-(e + k)) <= scale <=> f <= scale
  BY <1>6 DEF Exact!Positive
<1>18. Exact!Fits(d, precision, scale) <=> n % Pw(p - scale) = 0 /\ n < Pw(p + room)
  BY <1>3, <1>6, <1>14, <1>15, <1>16, <1>17
<1>19. QED
  BY <1>6, <1>18 DEF n, N, F, s, room

-----------------------------------------------------------------------------
(* The results of calculations.                                            *)

LEMMA QuotientOf ==
    ASSUME NEW x \in Nat, NEW y \in Nat, y > 0
    PROVE  /\ x \div y \in Nat /\ x % y \in Nat /\ x % y < y
           /\ x = (x \div y) * y + (x % y)
<1>1. x \div y \in Nat
  OBVIOUS
<1>2. x % y \in Nat /\ x % y < y
  OBVIOUS
<1>3. x = (x \div y) * y + (x % y)
  OBVIOUS
<1>4. QED
  BY <1>1, <1>2, <1>3

LEMMA QuotientIs ==
    ASSUME NEW y \in Nat, y > 0, NEW q \in Nat, NEW r \in Nat, r < y
    PROVE  (q * y + r) \div y = q
<1> DEFINE x == q * y + r
<1>1. x \in Nat
  OBVIOUS
<1>2. x \div y \in Nat /\ x = (x \div y) * y + (x % y) /\ x % y \in Nat /\ x % y < y
  BY <1>1, QuotientOf
<1>3. PICK k \in Nat, m \in Nat : k = x \div y /\ q * y + r = k * y + m /\ m < y
  BY <1>2
<1>4. (q - k) * y = m - r
  BY <1>3
<1>5. q - k <= -1 => (q - k) * y <= -y
  BY <1>3
<1>6. q - k >= 1 => (q - k) * y >= y
  BY <1>3
<1>7. q - k = 0
  BY <1>3, <1>4, <1>5, <1>6
<1>8. QED
  BY <1>3, <1>7

\* Digit by digit: what is left of the point moves one place.
LEMMA QuotientAgain ==
    ASSUME NEW x \in Nat, NEW y \in Nat, y > 0
    PROVE  (x \div y) \div Base = x \div (Base * y)
<1> DEFINE q == x \div y
           p == q \div Base
<1>1. Base \in Nat /\ Base > 0
  BY DecimalsAssumption
<1>2. /\ q \in Nat /\ x % y \in Nat /\ x % y < y /\ x = q * y + (x % y)
  BY QuotientOf
<1> HIDE DEF q
<1>3. /\ p \in Nat /\ q % Base \in Nat /\ q % Base < Base /\ q = p * Base + (q % Base)
  BY <1>1, <1>2, QuotientOf
<1> HIDE DEF p
<1>4. PICK a \in Nat, b \in Nat : /\ a < y /\ b < Base
                                  /\ x = q * y + a /\ q = p * Base + b
  BY <1>2, <1>3
<1>5. \A h, b1, a1, c, z \in Nat : (h * c + b1) * z + a1 = h * (c * z) + (b1 * z + a1)
  OBVIOUS
<1>6. x = p * (Base * y) + (b * y + a)
  BY <1>1, <1>3, <1>4, <1>5
<1>7. \A b1, a1, c, z \in Nat : b1 < c /\ a1 < z => b1 * z + a1 < c * z /\ b1 * z + a1 \in Nat
  <2> SUFFICES ASSUME NEW b1 \in Nat, NEW a1 \in Nat, NEW c \in Nat, NEW z \in Nat,
                      b1 < c, a1 < z
               PROVE  b1 * z + a1 < c * z /\ b1 * z + a1 \in Nat
    OBVIOUS
  <2>1. c * z = b1 * z + z + (c - b1 - 1) * z /\ (c - b1 - 1) * z >= 0 /\ b1 * z \in Nat
    OBVIOUS
  <2>2. QED
    BY <2>1
<1>8. b * y + a < Base * y /\ b * y + a \in Nat
  BY <1>1, <1>4, <1>7
<1>9. Base * y \in Nat /\ Base * y > 0
  BY <1>1, Positives
<1>10. x \div (Base * y) = p
  BY <1>3, <1>6, <1>8, <1>9, QuotientIs
<1>11. QED
  BY <1>10 DEF p, q

\* The digits of a whole number write it.
LEMMA DigitsWrite ==
    ASSUME NEW n \in Nat
    PROVE  /\ Exact!DigitsOf(n) \in Seq(Digit) /\ Len(Exact!DigitsOf(n)) > 0
           /\ Exact!Number(Exact!DigitsOf(n)) = n
<1> DEFINE Long(k) == n < Pw(k) /\ (k > 1 => n >= Pw(k - 1))
           S == {k \in Nat : k >= 1 /\ n < Pw(k)}
           length == CHOOSE k \in 1..(n + 1) : Long(k)
           s == [i \in 1..length |-> (n \div Pw(length - i)) % Base]
<1>1. \A k \in Nat : Pw(k) \in Nat /\ Pw(k) > k
  BY PwPositive
<1>2. n + 1 \in S
  <2>1. Pw(n + 1) \in Nat /\ Pw(n + 1) > n + 1
    BY <1>1
  <2>2. QED
    BY <2>1
<1>3. PICK k \in S : \A h \in S : k <= h
  BY <1>2, LeastNat
<1>4. k \in 1..(n + 1) /\ n < Pw(k)
  BY <1>2, <1>3
<1>5. k > 1 => n >= Pw(k - 1)
  <2> SUFFICES ASSUME k > 1 PROVE n >= Pw(k - 1)
    OBVIOUS
  <2>1. k - 1 \in Nat /\ k - 1 >= 1 /\ k - 1 \notin S
    BY <1>3
  <2>2. Pw(k - 1) \in Nat
    BY <1>1, <2>1
  <2>3. QED
    BY <2>1, <2>2
<1>6. length \in 1..(n + 1) /\ Long(length)
  <2>1. Long(k)
    BY <1>4, <1>5
  <2> HIDE DEF Long
  <2>2. QED
    BY <1>4, <2>1
<1>7. Exact!DigitsOf(n) = s
  BY DEF Exact!DigitsOf, Pw
<1> HIDE DEF length
<1>8. length \in Nat /\ length >= 1 /\ n < Pw(length)
  BY <1>6
<1>9. Base \in Nat /\ Base > 1 /\ Base > 0
  BY DecimalsAssumption
<1> DEFINE f == [i \in 0..length |-> n \div Pw(length - i)]
<1>10. ASSUME NEW i \in 0..length
       PROVE  length - i \in Nat /\ Pw(length - i) \in Nat /\ Pw(length - i) > 0
  <2>1. length - i \in Nat
    BY <1>8
  <2>2. QED
    BY <1>1, <2>1
<1>11. f \in [0..length -> Nat]
  <2>1. \A i \in 0..length : n \div Pw(length - i) \in Nat
    BY <1>10, QuotientOf
  <2>2. QED
    BY <2>1
<1>12. s \in Seq(Digit) /\ Len(s) = length
  <2>1. ASSUME NEW i \in 1..length PROVE (n \div Pw(length - i)) % Base \in Digit
    <3>1. i \in 0..length
      BY <1>8
    <3>2. n \div Pw(length - i) \in Nat
      BY <1>10, <3>1, QuotientOf
    <3> DEFINE y == n \div Pw(length - i)
    <3> HIDE DEF y
    <3>3. y % Base \in Nat /\ y % Base < Base
      BY <1>9, <3>2, QuotientOf DEF y
    <3>4. QED
      BY <1>9, <3>3 DEF y, Digit
  <2>2. s \in [1..length -> Digit]
    BY <2>1
  <2> HIDE DEF s
  <2>3. QED
    BY <1>8, <2>2
<1>13. f[0] = 0
  <2>1. n = 0 * Pw(length) + n /\ Pw(length) \in Nat /\ Pw(length) > 0
    BY <1>1, <1>8
  <2>2. (0 * Pw(length) + n) \div Pw(length) = 0
    BY <1>8, <2>1, QuotientIs
  <2>3. f[0] = n \div Pw(length - 0) /\ length - 0 = length
    BY <1>8
  <2>4. QED
    BY <2>1, <2>2, <2>3
<1>14. ASSUME NEW i \in 1..length PROVE f[i] = f[i - 1] * Base + s[i]
  <2>1. i \in 0..length /\ i - 1 \in 0..length /\ length - (i - 1) = (length - i) + 1
    BY <1>8
  <2> DEFINE y == Pw(length - i)
             x == n \div y
  <2>2. y \in Nat /\ y > 0 /\ length - i \in Nat
    BY <1>10, <2>1
  <2>3. Pw(length - (i - 1)) = Base * y
    BY <2>1, <2>2, PwDef
  <2>4. f[i] = x /\ f[i - 1] = n \div Pw(length - (i - 1)) /\ s[i] = x % Base
    BY <2>1
  <2> HIDE DEF y
  <2>5. x \in Nat /\ x \div Base = n \div (Base * y)
    BY <2>2, QuotientOf, QuotientAgain
  <2> HIDE DEF x
  <2>6. x = (x \div Base) * Base + (x % Base)
    BY <1>9, <2>5, QuotientOf
  <2> HIDE DEF f, s
  <2>7. QED
    BY <2>3, <2>4, <2>5, <2>6
<1> HIDE DEF f, s
<1>15. Sums(f, s)
  BY <1>11, <1>12, <1>13, <1>14 DEF Sums
<1>16. s \in Seq(Int)
  BY <1>12, <1>9 DEF Digit
<1>17. Exact!Number(s) = f[length]
  BY <1>12, <1>15, <1>16, NumberOf
<1>18. f[length] = n
  <2>1. length \in 0..length /\ length - length = 0 /\ Pw(0) = 1
    BY <1>8, PwDef
  <2>2. f[length] = n \div 1
    BY <2>1 DEF f
  <2>3. QED
    BY <2>2
<1>19. QED
  BY <1>7, <1>8, <1>12, <1>17, <1>18

\* Rounding keeps to half a step of the whole number, and away from zero at the half.
LEMMA RoundedNear ==
    ASSUME NEW x \in Nat, NEW den \in Nat, den > 0
    PROVE  LET q == x \div den
               n == IF Exact!RoundsUp(x % den, den) THEN q + 1 ELSE q
           IN  /\ n \in Nat
               /\ \/ /\ n * den - x >= 0 /\ 2 * (n * den - x) <= den /\ n > 0
                  \/ /\ n * den - x <= 0 /\ 2 * (x - n * den) < den
<1> DEFINE q == x \div den
           r == x % den
           n == IF Exact!RoundsUp(r, den) THEN q + 1 ELSE q
<1>1. q \in Nat /\ r \in Nat /\ r < den /\ x = q * den + r
  BY QuotientOf
<1>2. Exact!RoundsUp(r, den) <=> r # 0 /\ 2 * r >= den
  BY DEF Exact!RoundsUp
<1> HIDE DEF q, r
<1>3. CASE Exact!RoundsUp(r, den)
  <2>1. n = q + 1 /\ n * den = q * den + den /\ q * den \in Nat
    BY <1>1, <1>3
  <2>2. n * den - x = den - r /\ n \in Nat /\ n > 0
    BY <1>1, <2>1
  <2>3. QED
    BY <1>1, <1>2, <1>3, <2>2 DEF q, r
<1>4. CASE ~Exact!RoundsUp(r, den)
  <2>1. n = q /\ n \in Nat
    BY <1>1, <1>4
  <2>2. n * den - x = -r /\ x - n * den = r
    BY <1>1, <2>1
  <2>3. 2 * r < den
    BY <1>1, <1>2, <1>4
  <2>4. QED
    BY <1>1, <2>1, <2>2, <2>3 DEF q, r
<1>5. QED
  BY <1>3, <1>4

\* The steps on either side of it are farther, or as far and nearer to zero.
LEMMA NearestAway ==
    ASSUME NEW x \in Nat, NEW den \in Nat, den > 0, NEW n \in Nat,
           \/ n * den - x >= 0 /\ 2 * (n * den - x) <= den /\ n > 0
           \/ n * den - x <= 0 /\ 2 * (x - n * den) < den
    PROVE  \A m \in {n - 1, n + 1} :
               \/ Exact!Magnitude(x - n * den) < Exact!Magnitude(x - m * den)
               \/ /\ Exact!Magnitude(x - n * den) = Exact!Magnitude(x - m * den)
                  /\ n > 0 /\ m = n - 1
<1>1. PICK y \in Int : y = x - n * den
  OBVIOUS
<1>2. x - (n - 1) * den = y + den /\ x - (n + 1) * den = y - den
  BY <1>1
<1>3. \/ y <= 0 /\ -2 * y <= den /\ n > 0
      \/ y >= 0 /\ 2 * y < den
  BY <1>1
<1>4. /\ Exact!Magnitude(y) < Exact!Magnitude(y - den)
      /\ \/ Exact!Magnitude(y) < Exact!Magnitude(y + den)
         \/ Exact!Magnitude(y) = Exact!Magnitude(y + den) /\ n > 0
  BY <1>3 DEF Exact!Magnitude
<1>5. QED
  BY <1>1, <1>2, <1>4

LEMMA ResultRounded ==
    ASSUME NEW num \in Int, NEW den \in Nat, den > 0, NEW scale \in Nat
    PROVE  LET d == Exact!FromRat(num, den, scale)
               n == Exact!Scaled(d, scale)
               off(m) == Exact!Magnitude(num * Exact!Power[scale] - m * den)
           IN  /\ Len(d.frac) = scale
               /\ \A m \in {n - 1, n + 1} :
                      \/ off(n) < off(m)
                      \/ off(n) = off(m) /\ Exact!Magnitude(m) < Exact!Magnitude(n)
<1> DEFINE d == Exact!FromRat(num, den, scale)
           n == Exact!Scaled(d, scale)
           P == Pw(scale)
           x == Exact!Magnitude(num) * P
           q == x \div den
           rounded == IF Exact!RoundsUp(x % den, den) THEN q + 1 ELSE q
           s == Exact!DigitsOf(rounded)
           M == Exact!Number(d.whole \o d.frac)
           off(m) == Exact!Magnitude(num * P - m * den)
<1>1. d = Exact!Plain(num < 0, s, -scale)
  BY DEF Exact!FromRat, Pw
<1>2. P \in Nat /\ Exact!Magnitude(num) \in Nat
  BY PwPositive, PositivePart
<1>3. x \in Nat
  <2> HIDE DEF P
  <2>1. QED
    BY <1>2
<1> HIDE DEF x
<1>4. /\ rounded \in Nat
      /\ \/ rounded * den - x >= 0 /\ 2 * (rounded * den - x) <= den /\ rounded > 0
         \/ rounded * den - x <= 0 /\ 2 * (x - rounded * den) < den
  BY <1>3, RoundedNear
<1> HIDE DEF rounded, P
<1>5. s \in Seq(Digit) /\ Len(s) > 0 /\ Exact!Number(s) = rounded
  BY <1>4, DigitsWrite
<1> HIDE DEF s, d
<1>6. /\ PlainForm(d)
      /\ Len(d.frac) = Exact!Positive(-(-scale))
      /\ d.neg = (num < 0 /\ rounded # 0)
      /\ M = rounded * Pw(Exact!Positive(-scale))
  BY <1>1, <1>5, PlainIs, -scale \in Int, (num < 0) \in BOOLEAN
<1>7. Exact!Positive(-(-scale)) = scale /\ Exact!Positive(-scale) = 0
  BY DEF Exact!Positive
<1>8. Len(d.frac) = scale /\ M = rounded
  BY <1>4, <1>6, <1>7, PwDef
<1>9. n = IF d.neg THEN -rounded ELSE rounded
  <2>1. scale - Len(d.frac) = 0 /\ scale >= Len(d.frac)
    BY <1>8
  <2>2. n = IF d.neg THEN -(M * Pw(0)) ELSE M * Pw(0)
    BY <1>6, <2>1, ReadScaled
  <2>3. M * Pw(0) = rounded
    BY <1>4, <1>8, PwDef
  <2>4. QED
    BY <2>2, <2>3
<1> HIDE DEF M, n
<1>10. \A m \in {rounded - 1, rounded + 1} :
           \/ Exact!Magnitude(x - rounded * den) < Exact!Magnitude(x - m * den)
           \/ /\ Exact!Magnitude(x - rounded * den) = Exact!Magnitude(x - m * den)
              /\ rounded > 0 /\ m = rounded - 1
  BY <1>3, <1>4, NearestAway
<1>11. CASE num >= 0
  <2>1. n = rounded
    <3>1. ~(num < 0)
      BY <1>11
    <3>2. ~d.neg
      BY <1>6, <3>1
    <3>3. QED
      BY <1>9, <3>2
  <2>2. num * P = x
    <3>1. Exact!Magnitude(num) = num
      BY <1>11 DEF Exact!Magnitude
    <3>2. QED
      BY <3>1 DEF x
  <2>3. ASSUME rounded > 0
        PROVE  Exact!Magnitude(rounded - 1) < Exact!Magnitude(rounded)
    BY <1>4, <2>3 DEF Exact!Magnitude
  <2>4. ASSUME NEW m \in {rounded - 1, rounded + 1}
        PROVE  \/ off(rounded) < off(m)
               \/ off(rounded) = off(m) /\ Exact!Magnitude(m) < Exact!Magnitude(rounded)
    BY <1>10, <2>2, <2>3
  <2> HIDE DEF off
  <2>5. QED
    BY <1>8, <2>1, <2>4 DEF off, d, n, P, Pw
<1>12. CASE num < 0
  <2>1. n = -rounded
    <3>1. CASE d.neg
      BY <1>9, <3>1
    <3>2. CASE ~d.neg
      <4>1. rounded = 0
        BY <1>6, <1>12, <3>2
      <4>2. n = rounded
        BY <1>9, <3>2
      <4>3. -rounded = 0 - rounded
        BY <1>4
      <4>4. QED
        BY <1>4, <4>1, <4>2, <4>3
    <3>3. QED
      BY <3>1, <3>2
  <2>2. num * P = -x
    <3>1. Exact!Magnitude(num) = -num
      BY <1>12 DEF Exact!Magnitude
    <3>2. \A a, b \in Int : a * b = -((-a) * b)
      OBVIOUS
    <3>3. num * P = -((-num) * P)
      BY <1>2, <3>2
    <3>4. QED
      BY <3>1, <3>3 DEF x
  <2>3. ASSUME rounded > 0
        PROVE  Exact!Magnitude(-(rounded - 1)) < Exact!Magnitude(-rounded)
    BY <1>4, <2>3 DEF Exact!Magnitude
  <2>4. ASSUME NEW m \in Int
        PROVE  off(-m) = Exact!Magnitude(x - m * den)
    <3>1. (-x) - (-m) * den = -(x - m * den) /\ x - m * den \in Int
      BY <1>3
    <3>2. \A a \in Int : Exact!Magnitude(-a) = Exact!Magnitude(a)
      BY DEF Exact!Magnitude
    <3>3. QED
      BY <2>2, <3>1, <3>2
  <2>5. ASSUME NEW m \in {rounded - 1, rounded + 1}
        PROVE  \/ off(-rounded) < off(-m)
               \/ off(-rounded) = off(-m) /\ Exact!Magnitude(-m) < Exact!Magnitude(-rounded)
    <3>1. m \in Int /\ rounded \in Int
      BY <1>4
    <3>2. /\ off(-rounded) = Exact!Magnitude(x - rounded * den)
          /\ off(-m) = Exact!Magnitude(x - m * den)
      BY <2>4, <3>1
    <3> HIDE DEF off
    <3>3. QED
      BY <1>10, <2>3, <3>2
  <2> HIDE DEF off
  <2>6. ASSUME NEW m \in {n - 1, n + 1}
        PROVE  \/ off(n) < off(m)
               \/ off(n) = off(m) /\ Exact!Magnitude(m) < Exact!Magnitude(n)
    <3>1. PICK h \in {rounded - 1, rounded + 1} : m = -h
      <4>1. m = -(rounded + 1) \/ m = -(rounded - 1)
        BY <1>4, <2>1
      <4>2. QED
        BY <4>1
    <3>2. QED
      BY <2>1, <2>5, <3>1
  <2>7. QED
    BY <1>8, <2>6 DEF off, d, n, P, Pw
<1>13. QED
  BY <1>11, <1>12

-----------------------------------------------------------------------------
(* Reading, writing and the room of a column together.                     *)

numeral == x1
ratio == x2
column == x3
decimalVars == <<x1, x2, x3>>
USE DEF numeral, ratio, column

DecimalInv ==
    /\ numeral = Exact!NoText \/ numeral \in Exact!Texts
    /\ ratio = Exact!NoRatio \/ ratio \in Ratios
    /\ {column.precision, column.scale} \subseteq Nat /\ column.scale <= column.precision

LEMMA DecimalBegins == Exact!Init => DecimalInv
  BY DEF Exact!Init, DecimalInv

LEMMA DecimalNext == DecimalInv /\ Exact!Next => DecimalInv'
<1> SUFFICES ASSUME DecimalInv, Exact!Next PROVE DecimalInv'
  OBVIOUS
<1>1. CASE Exact!Reads
  <2>1. numeral' \in Exact!Texts /\ column' \in Numerics /\ ratio' = ratio
    BY <1>1 DEF Exact!Reads
  <2>2. QED
    BY <2>1, DecimalsAssumption DEF DecimalInv
<1>2. CASE Exact!Calculates
  <2>1. ratio' \in Ratios /\ column' \in Numerics /\ numeral' = numeral
    BY <1>2 DEF Exact!Calculates
  <2>2. QED
    BY <2>1, DecimalsAssumption DEF DecimalInv
<1>3. QED
  BY <1>1, <1>2 DEF Exact!Next

LEMMA DecimalHeld == DecimalInv /\ UNCHANGED decimalVars => DecimalInv'
  BY DEF DecimalInv, decimalVars, Exact!NoText, Exact!NoRatio, Exact!Texts, Exact!Written

LEMMA ColumnHolds ==
    ASSUME DecimalInv, numeral \in Exact!Texts
    PROVE  Exact!HeldByColumn
<1> DEFINE d == Exact!Parse(numeral)
           places == Exact!Places(numeral)
           p == places + column.scale
           F == Len(d.frac)
           n == Exact!Number(d.whole \o d.frac) * Pw(p - F)
<1>1. /\ column.precision \in Nat /\ column.scale \in Nat /\ column.scale <= column.precision
  BY DEF DecimalInv
<1>2. PlainForm(d) /\ F = Exact!Positive(-Exact!Split(numeral).exp)
      /\ Exact!Split(numeral).exp \in Int
  BY TextRead
<1>3. places \in Nat /\ F \in Nat /\ F <= places
  <2>1. /\ places \in Nat /\ F \in Nat /\ Exact!Positive(Exact!Split(numeral).exp) \in Nat
        /\ places = Exact!Positive(Exact!Split(numeral).exp) + F
    BY <1>2, PositivePart DEF Exact!Places
  <2> HIDE DEF places, F
  <2>2. QED
    BY <2>1
<1> HIDE DEF d, places
<1>4. p \in Nat /\ p >= F /\ p >= column.scale /\ p - F \in Nat
  BY <1>1, <1>3
<1>5. Exact!Number(d.whole \o d.frac) \in Nat /\ Pw(p - F) \in Nat
  <2>1. d.whole \o d.frac \in Seq(Digit)
    BY <1>2, Joined DEF PlainForm
  <2>2. Pw(p - F) \in Nat
    BY <1>4, PwPositive
  <2>3. QED
    BY <2>1, <2>2, NumberBounded
<1>6. Exact!Scaled(d, p) = IF d.neg THEN -n ELSE n
  BY <1>2, <1>4, ReadScaled
<1>7. n \in Nat
  BY <1>5
<1>8. Exact!Fits(d, column.precision, column.scale) <=>
          n % Pw(p - column.scale) = 0 /\ n < Pw(p + column.precision - column.scale)
  BY <1>1, <1>2, <1>4, FitsIsHeld
<1> HIDE DEF n
<1>9. Exact!Magnitude(Exact!Scaled(d, p)) = n
  BY <1>6, <1>7 DEF Exact!Magnitude
<1>10. QED
  BY <1>8, <1>9 DEF Exact!HeldByColumn, d, places, Pw

LEMMA DecimalKept == DecimalInv => Exact!DecimalsExact
<1> SUFFICES ASSUME DecimalInv PROVE Exact!DecimalsExact
  OBVIOUS
<1>1. ASSUME numeral # Exact!NoText PROVE Exact!ReadExactly /\ Exact!HeldByColumn
  <2>1. numeral \in Exact!Texts
    BY <1>1 DEF DecimalInv
  <2>2. Exact!ReadExactly
    BY <2>1, NumbersRead DEF Exact!ReadExactly
  <2>3. QED
    BY <2>1, <2>2, ColumnHolds
<1>2. ASSUME ratio # Exact!NoRatio PROVE Exact!RoundedAway
  <2>1. ratio \in Ratios
    BY <1>2 DEF DecimalInv
  <2>2. ratio.num \in Int /\ ratio.den \in Nat /\ ratio.den > 0 /\ column.scale \in Nat
    BY <2>1, DecimalsAssumption DEF DecimalInv
  <2>3. QED
    BY <2>2, ResultRounded DEF Exact!RoundedAway
<1>3. QED
  BY <1>1, <1>2 DEF Exact!DecimalsExact

LEMMA DecimalAlone == part = "decimal" /\ [Next]_vars => [Exact!Next]_decimalVars
<1>1. ASSUME part = "decimal", Next PROVE [Exact!Next]_decimalVars
  BY <1>1 DEF Next, RenewalStep, FactorStep, ConnectedStep, PoolStep, CacheStep, SavedStep,
     OutboxStep, StripeStep, SchemaStep, PolicyStep, CalendarStep, GeneratedStep,
     MergeStep, DevStep, ModelStep, UploadStep, LifeStep, DecimalStep
<1>2. ASSUME UNCHANGED vars PROVE UNCHANGED decimalVars
  BY <1>2 DEF vars, state, decimalVars
<1>3. QED
  BY <1>1, <1>2

DecimalRuns == part = "decimal" => DecimalInv

LEMMA DecimalHolds == DecimalRuns /\ [Next]_vars => DecimalRuns'
  BY DecimalNext, DecimalHeld, DecimalAlone, OnePart DEF DecimalRuns

\* A decimal is read to its exact value and scale, in plain notation; Fits tells which
\* numbers its column holds without rounding; and the result of a calculation is rounded to
\* the nearest number of the scale, a half away from zero: of every base, for texts, fractions
\* and columns of any size (pkg/decimal/decimal.go:69, 102, 120).
THEOREM EveryDecimalIsExact == Spec => []DecimalsExact
<1>1. Init => DecimalRuns
  BY DecimalBegins DEF Init, DecimalRuns
<1>2. DecimalRuns => DecimalsExact
  BY DecimalKept DEF DecimalRuns, DecimalsExact
<1>3. QED
  BY <1>1, <1>2, DecimalHolds, PTL DEF Spec

-----------------------------------------------------------------------------
(* The lock files of two branches.                                         *)

LEMMA SameIsEquivalence ==
    ASSUME NEW n
    PROVE  /\ \A f : Merges!Same(f, f, n)
           /\ \A f, g : Merges!Same(f, g, n) => Merges!Same(g, f, n)
           /\ \A f, g, h : Merges!Same(f, g, n) /\ Merges!Same(g, h, n) => Merges!Same(f, h, n)
  BY DEF Merges!Same

\* What the merged lock has under a name is what the branch has that it follows there.
LEMMA EntryOf ==
    ASSUME NEW base, NEW ours, NEW theirs, NEW n
    PROVE  Merges!Same(Merges!Entries(base, ours, theirs),
                       Merges!Whose(base, ours, theirs, n), n)
<1> DEFINE from(x) == Merges!Whose(base, ours, theirs, x)
           names == {x \in DOMAIN base \cup DOMAIN ours \cup DOMAIN theirs : x \in DOMAIN from(x)}
           m == [x \in names |-> from(x)[x]]
<1>1. Merges!Entries(base, ours, theirs) = m
  BY DEF Merges!Entries
<1>2. from(n) = ours \/ from(n) = theirs
  BY DEF Merges!Whose
<1> HIDE DEF from
<1>3. n \in DOMAIN from(n) <=> n \in names
  BY <1>2
<1>4. DOMAIN m = names /\ (n \in names => m[n] = from(n)[n])
  OBVIOUS
<1> HIDE DEF names, m
<1>5. Merges!Same(m, from(n), n)
  BY <1>3, <1>4 DEF Merges!Same
<1>6. QED
  BY <1>1, <1>5 DEF from

\* "An entry one branch changed ... and the other left as it was takes the change", without
\* a conflict: whatever the schemas, the merged lock has each change of either branch and no
\* other, and which of the two is called ours makes no difference (pkg/schema/migrate.go:427).
THEOREM LocksMerge ==
    ASSUME NEW base, NEW ours, NEW theirs, ~Merges!Conflict(base, ours, theirs)
    PROVE  LET merged == Merges!Entries(base, ours, theirs)
           IN  /\ \A n : /\ Merges!Same(theirs, base, n) => Merges!Same(merged, ours, n)
                         /\ Merges!Same(ours, base, n) => Merges!Same(merged, theirs, n)
                         /\ \/ Merges!Same(theirs, base, n)
                            \/ Merges!Same(ours, base, n)
                            \/ Merges!Same(merged, ours, n) /\ Merges!Same(merged, theirs, n)
               /\ merged = Merges!Entries(base, theirs, ours)
<1> DEFINE merged == Merges!Entries(base, ours, theirs)
           turned == Merges!Entries(base, theirs, ours)
<1>1. ASSUME NEW n
      PROVE  \/ Merges!Same(ours, theirs, n)
             \/ Merges!Same(ours, base, n)
             \/ Merges!Same(theirs, base, n)
  <2>1. CASE n \in DOMAIN base \cup DOMAIN ours \cup DOMAIN theirs
    BY <2>1 DEF Merges!Conflict
  <2>2. CASE n \notin DOMAIN base \cup DOMAIN ours \cup DOMAIN theirs
    BY <2>2 DEF Merges!Same
  <2>3. QED
    BY <2>1, <2>2
<1>2. ASSUME NEW n
      PROVE  /\ Merges!Same(theirs, base, n) => Merges!Same(merged, ours, n)
             /\ Merges!Same(ours, base, n) => Merges!Same(merged, theirs, n)
             /\ \/ Merges!Same(theirs, base, n)
                \/ Merges!Same(ours, base, n)
                \/ Merges!Same(merged, ours, n) /\ Merges!Same(merged, theirs, n)
  <2>1. Merges!Same(merged, Merges!Whose(base, ours, theirs, n), n)
    BY EntryOf
  <2> HIDE DEF merged
  <2>2. CASE Merges!Same(ours, theirs, n)
    <3>1. Merges!Same(merged, ours, n) /\ Merges!Same(merged, theirs, n)
      BY <2>1, <2>2, SameIsEquivalence DEF Merges!Whose
    <3>2. QED
      BY <3>1
  <2>3. CASE ~Merges!Same(ours, theirs, n) /\ Merges!Same(ours, base, n)
    <3>1. Merges!Same(merged, theirs, n) /\ ~Merges!Same(theirs, base, n)
      BY <2>1, <2>3, SameIsEquivalence DEF Merges!Whose
    <3>2. QED
      BY <2>3, <3>1
  <2>4. CASE ~Merges!Same(ours, theirs, n) /\ ~Merges!Same(ours, base, n)
    <3>1. Merges!Same(merged, ours, n) /\ Merges!Same(theirs, base, n)
      BY <1>1, <2>1, <2>4 DEF Merges!Whose
    <3>2. QED
      BY <2>4, <3>1
  <2>5. QED
    BY <2>2, <2>3, <2>4
<1>3. ASSUME NEW n
      PROVE  Merges!Same(merged, turned, n)
  <2>1. /\ Merges!Same(merged, Merges!Whose(base, ours, theirs, n), n)
        /\ Merges!Same(turned, Merges!Whose(base, theirs, ours, n), n)
    BY EntryOf
  <2> HIDE DEF merged, turned
  <2>2. Merges!Same(Merges!Whose(base, ours, theirs, n), Merges!Whose(base, theirs, ours, n), n)
    BY <1>1, SameIsEquivalence DEF Merges!Whose
  <2>3. QED
    BY <2>1, <2>2, SameIsEquivalence
<1>4. merged = turned
  <2>1. /\ merged = [n \in DOMAIN merged |-> merged[n]]
        /\ turned = [n \in DOMAIN turned |-> turned[n]]
    BY DEF Merges!Entries
  <2>2. DOMAIN merged = DOMAIN turned /\ \A n \in DOMAIN merged : merged[n] = turned[n]
    BY <1>3 DEF Merges!Same
  <2> HIDE DEF merged, turned
  <2>3. QED
    BY <2>1, <2>2
<1>5. QED
  BY <1>2, <1>4
=============================================================================

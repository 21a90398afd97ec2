------------------------------ MODULE Calendar ------------------------------
(***************************************************************************)
(* date_time.rs and its bindings in lib.rs: dates of birth, the *_this_*      *)
(* methods, naive and in a time zone, and what is drawn between two moments    *)
(* that are given relative to now, or between a fixed one and now.  A call     *)
(* reads a clock once or twice, and the clock goes on between two reads; with  *)
(* a tzinfo, one bound may be read by UTC and the other by the local clock.    *)
(* Time is counted in ticks, some to a second; a date is [year, month, day],   *)
(* and also the time of its midnight.  A zone's clock is set once: from the    *)
(* instant turn on, its offset is new and not old.                             *)
(***************************************************************************)
EXTENDS Integers

CONSTANTS
  Ticks,       \* clock ticks in a second
  DaySeconds,  \* seconds in a day
  MaxYear,     \* MAX_YEAR
  Today,       \* dates on which calls are made
  TimesOfDay,  \* and at which tick of the day
  Zones,       \* what tzinfo may be
  Locals,      \* how far the local clock may be ahead of UTC
  Starts,      \* dates from which date_time and its like draw
  MaxAge,      \* bound on minimum_age and maximum_age
  MaxSpan,     \* bound on a relative value, in seconds or days
  MaxWait,     \* bound on the ticks that pass during a call
  Margin       \* draws further than that from both ends are left out

ASSUME CalendarAssumption ==
  /\ Ticks \in Nat \ {0} /\ DaySeconds \in Nat \ {0}
  /\ MaxYear \in Nat /\ MaxYear % 100 = 99
  /\ MaxAge \in Nat /\ MaxSpan \in Nat /\ MaxWait \in Nat /\ Margin \in Nat

VARIABLES
  dating,   \* "idle", "asked", "begun", "drawing", "done" or "failed"
  inquiry,  \* the call under way
  clock,    \* the time; it stands still while no call is under way
  from, to, \* start and end of the draw
  answer    \* the result, a time

dateVars == <<dating, inquiry, clock, from, to, answer>>
NoInquiry == [op |-> "none"]

DateInit ==
  dating = "idle" /\ inquiry = NoInquiry /\ clock = 0 /\ from = 0 /\ to = 0 /\ answer = 0

-----------------------------------------------------------------------------
(* The calendar: chrono's NaiveDate.  Day 1 is 0001-01-01.                    *)

Leap(y) == y % 4 = 0 /\ (y % 100 # 0 \/ y % 400 = 0)
DaysBefore(y) == 365 * (y - 1) + (y - 1) \div 4 - (y - 1) \div 100 + (y - 1) \div 400
Ymd(y, m, d) == [year |-> y, month |-> m, day |-> d]
Ordinal(d) ==
  DaysBefore(d.year) + (367 * d.month - 362) \div 12 + d.day
    - (IF d.month <= 2 THEN 0 ELSE IF Leap(d.year) THEN 1 ELSE 2)
DateOf(n) ==
  LET near == (400 * n) \div 146097
      y == CHOOSE y \in near..(near + 2) : DaysBefore(y) < n /\ n <= DaysBefore(y + 1)
      m == CHOOSE m \in 1..12 :
             Ordinal(Ymd(y, m, 1)) <= n /\ (m < 12 => n < Ordinal(Ymd(y, m + 1, 1)))
  IN Ymd(y, m, n - Ordinal(Ymd(y, m, 1)) + 1)
ValidDay(d) == DateOf(Ordinal(d)) = d

DayTicks == Ticks * DaySeconds
Midnight(d) == Ordinal(d) * DayTicks
DateAt(t) == DateOf(t \div DayTicks)
FloorSecond(t) == t - (t % Ticks)

\* check_year
BadYear(t) == DateAt(t).year \notin 1..MaxYear

\* A call is made on a day of datetime's, and a start is one; a zone's clock is
\* set to a second and on one, and no clock is a day from UTC.
ZoneOffsets == (1 - DayTicks)..(DayTicks - 1)
ASSUME TimeAssumption ==
  /\ \A d \in Today \cup Starts :
       d \in [year : 1..MaxYear, month : 1..12, day : 1..31] /\ ValidDay(d)
  /\ TimesOfDay \subseteq 0..(DayTicks - 1)
  /\ \A z \in Zones :
       /\ z \in [turn : Int, old : ZoneOffsets, new : ZoneOffsets]
       /\ z.turn % Ticks = 0 /\ z.old % Ticks = 0 /\ z.new % Ticks = 0
  /\ Locals \subseteq ZoneOffsets

\* No tzinfo: the local time is taken for UTC.  (UTC itself is one of Zones.)
Naive == [turn |-> 0, old |-> 0, new |-> 0]

OffsetAt(z, t) == IF t < z.turn THEN z.old ELSE z.new
Wall(z, t) == t + OffsetAt(z, t)
\* The instant at which a new datetime, of fold 0, counts: the first one for a
\* time that the clock shows twice, and by the old offset if it shows it never.
Instant(z, wall) ==
  wall - (IF wall < z.turn + z.old \/ wall < z.turn + z.new THEN z.old ELSE z.new)

\* Mutant of Boundary: midnight by the offset of now.
BoundaryAsNow(z, d, at) == Midnight(d) - OffsetAt(z, at)
\* The boundary d of a period, of a call made at the instant at.
Boundary(z, d, at) == Instant(z, Midnight(d))

Failed ==
  dating' = "failed" /\ UNCHANGED <<from, to, answer>>

\* _rand_seconds is about to draw from a to b.
Bounded(a, b) ==
  IF a > b THEN Failed ELSE dating' = "drawing" /\ from' = a /\ to' = b /\ UNCHANGED answer

Called(call) == clock' = call.at /\ inquiry' = call

-----------------------------------------------------------------------------
\* change_year: 29 February becomes 1 March in a year that has none.
ChangeYear(d, diff) ==
  LET same == [d EXCEPT !.year = @ + diff]
  IN IF ValidDay(same) THEN same ELSE Ymd(same.year, 3, 1)

\* What date_of_birth_from refuses.
BadAges(today, minimum, maximum) ==
  maximum < 0 \/ minimum < 0 \/ minimum > maximum \/ today.year - (maximum + 1) < 1

\* date_of_birth(minimum, maximum): only today depends on the zone.
AskBirth(at, z, minimum, maximum) ==
  LET today == DateAt(Wall(z, at))
  IN
    /\ Called([op |-> "birth", dated |-> TRUE, at |-> at, zone |-> z,
               minimum |-> minimum, maximum |-> maximum])
    /\ IF BadYear(Wall(z, at)) \/ BadAges(today, minimum, maximum)
         THEN Failed
         ELSE Bounded(Midnight(ChangeYear(today, -(maximum + 1))),
                      Midnight(ChangeYear(today, -minimum)))

-----------------------------------------------------------------------------
\* Mutant of NextMonthStart: the year stays when December is over.
NextMonthSameYear(d) == IF d.month = 12 THEN Ymd(d.year, 1, 1) ELSE Ymd(d.year, d.month + 1, 1)
NextMonthStart(d) == IF d.month = 12 THEN Ymd(d.year + 1, 1, 1) ELSE Ymd(d.year, d.month + 1, 1)

Earlier(a, b) == IF a < b THEN a ELSE b

\* The first day of the period that d is in, and the first day after it; a
\* century or decade of datetimes goes no further than the last year.
PeriodStart(period, d) ==
  CASE period = "century" -> Ymd(d.year - (d.year % 100), 1, 1)
    [] period = "decade"  -> Ymd(d.year - (d.year % 10), 1, 1)
    [] period = "year"    -> Ymd(d.year, 1, 1)
    [] period = "month"   -> Ymd(d.year, d.month, 1)
PeriodEnd(period, d, dated) ==
  LET start == PeriodStart(period, d)
      capped(y) == IF dated THEN y ELSE Earlier(y, MaxYear)
  IN CASE period = "century" -> Ymd(capped(start.year + 100), 1, 1)
       [] period = "decade"  -> Ymd(capped(start.year + 10), 1, 1)
       [] period = "year"    -> Ymd(d.year + 1, 1, 1)
       [] period = "month"   -> NextMonthStart(start)

\* date_this_* and date_time_this_*(before, after): the clock is read once.  In a
\* zone, a boundary in no year of datetime's is refused.
AskThis(at, z, period, before, after, dated) ==
  LET today == DateAt(Wall(z, at))
      now == IF dated THEN Midnight(today) ELSE FloorSecond(at)
      start == PeriodStart(period, today)
      end == PeriodEnd(period, today, dated)
  IN
    /\ Called([op |-> "this", dated |-> dated, at |-> at, zone |-> z,
               period |-> period, before |-> before, after |-> after])
    /\ IF z # Naive /\ (BadYear(Wall(z, at)) \/ (before /\ start.year < 1)
                          \/ (after /\ end.year > MaxYear))
         THEN Failed
         ELSE IF before \/ after
         THEN Bounded(IF before THEN Boundary(z, start, at) ELSE now,
                      IF after THEN Boundary(z, end, at) ELSE now)
         ELSE /\ dating' = "done" /\ answer' = IF dated THEN Midnight(today) ELSE at
              /\ UNCHANGED <<from, to>>

-----------------------------------------------------------------------------
\* "now", "today", "-3d" or "+2s": days or seconds from the present.
Resolved(dated, n, now) ==
  IF dated THEN (now \div DayTicks + n) * DayTicks ELSE FloorSecond(now + n * Ticks)

\* A bound is n from the present by the local clock or by UTC, 0 being "now", or
\* else the fixed time n.
Bound(by, n) == [by |-> by, n |-> n]
\* Without a tzinfo a call is made by the local clock.
ClockOf(z) == IF z = Naive THEN "NaiveLocal" ELSE "Utc"

\* What a bound of the call is when its own clock reads c.
BoundAt(call, bound, c) ==
  IF bound.by = "fixed" THEN bound.n
  ELSE Resolved(call.dated, bound.n, c + IF bound.by = "NaiveLocal" THEN call.ahead ELSE 0)
\* add_micros checks the year, if there is something to add to a naive time.
Overflows(call, bound, c) ==
  ~call.dated /\ bound.by = "NaiveLocal" /\ bound.n # 0 /\ BadYear(BoundAt(call, bound, c))

\* A call for what is between two bounds; the local clock is so far ahead of its own.
AskBounds(at, op, dated, z, ahead, low, high) ==
  /\ Called([op |-> op, dated |-> dated, at |-> at, zone |-> z, ahead |-> ahead,
             low |-> low, high |-> high])
  /\ dating' = "asked"
  /\ UNCHANGED <<from, to, answer>>

\* date_between, date_time_between or time_delta: both bounds by the call's clock.
AskRelative(at, op, dated, z, low, high) ==
  AskBounds(at, op, dated, z, 0, Bound(ClockOf(z), low), Bound(ClockOf(z), high))

\* date_time_between_dates: a bound that is absent is now by the call's clock, one
\* that is given is by the local clock, with a tzinfo too.
DateBounds(z) ==
  {Bound(ClockOf(z), 0)} \cup {Bound("NaiveLocal", n) : n \in (-MaxSpan)..MaxSpan}

\* unix_time, date_time, date_time_ad and all that write the time they drew in
\* another form, in tzinfo's clock or not: from a fixed start.
AskUntil(at, start, high) ==
  AskBounds(at, "until", FALSE, Naive, 0, Bound("fixed", Midnight(start)), Bound("NaiveLocal", high))

\* Mutant SoonestNow: what is to come starts now.
SoonestNow == 0
\* "+1s" and "+1d", "-1s" and "-1d".
Soonest == 1
Latest == -1

\* The first bound is resolved, with the first read of the clock.
ReadLow ==
  /\ dating = "asked"
  /\ IF Overflows(inquiry, inquiry.low, clock)
       THEN Failed
       ELSE /\ dating' = "begun" /\ from' = BoundAt(inquiry, inquiry.low, clock)
            /\ UNCHANGED <<to, answer>>
  /\ UNCHANGED <<inquiry, clock>>

\* The second bound, with the second.  date_time_between draws within a second
\* from the start when there is no more between the two, or less than none.
ReadHigh ==
  /\ dating = "begun"
  /\ LET high == BoundAt(inquiry, inquiry.high, clock)
         span == high - from
     IN IF Overflows(inquiry, inquiry.high, clock)
          THEN Failed
          ELSE CASE inquiry.op = "delta" ->
                      Bounded(IF span < 0 THEN span ELSE 0, IF span < 0 THEN 0 ELSE span)
                 [] /\ inquiry.op \in {"future", "past", "between"}
                    /\ ~inquiry.dated /\ span <= Ticks ->
                      Bounded(from, from + Ticks)
                 [] OTHER -> Bounded(from, high)
  /\ UNCHANGED <<inquiry, clock>>

\* Time passes between the reads.
Tick ==
  /\ dating \in {"asked", "begun"} /\ clock < inquiry.at + MaxWait
  /\ clock' = clock + 1
  /\ UNCHANGED <<dating, inquiry, from, to, answer>>

-----------------------------------------------------------------------------
\* Mutant of Birthday: the first day is as good as any.
FirstDayToo(d) == d
\* The day on which someone turned maximum + 1 is put off by one.
Birthday(d) == IF Midnight(d) = from THEN DateOf(Ordinal(d) + 1) ELSE d

\* uniform(from, to) gives t.  In a zone, it must be in a year of datetime's by UTC
\* (fromtimestamp) and by the zone's clock.
DrawTime(t) ==
  LET day == DateAt(t)
      shown == IF inquiry.op = "birth" THEN t ELSE Wall(inquiry.zone, t)
  IN
    /\ dating = "drawing"
    /\ t = from \/ t \in (from + 1)..(to - 1)
    /\ IF inquiry.op # "delta" /\ (BadYear(t) \/ BadYear(shown))
         THEN Failed
         ELSE /\ dating' = "done"
              /\ answer' = IF inquiry.op = "birth" THEN Midnight(Birthday(day))
                           ELSE IF inquiry.dated THEN Midnight(day) ELSE t
              /\ UNCHANGED <<from, to>>
    /\ UNCHANGED <<inquiry, clock>>

GotDate ==
  /\ dating \in {"done", "failed"}
  /\ dating' = "idle" /\ inquiry' = NoInquiry /\ clock' = 0
  /\ from' = 0 /\ to' = 0 /\ answer' = 0

DateNext ==
  \/ /\ dating = "idle"
     /\ \E d \in Today, tick \in TimesOfDay : \E at \in {Midnight(d) + tick} :
          \/ \E minimum, maximum \in (-1)..MaxAge : AskBirth(at, Naive, minimum, maximum)
          \/ \E z \in Zones, age \in 0..MaxAge : AskBirth(at, z, age, age)
          \/ \E period \in {"century", "decade", "year", "month"}, before, after \in BOOLEAN :
               \/ \E dated \in BOOLEAN : AskThis(at, Naive, period, before, after, dated)
               \/ \E z \in Zones : AskThis(at, z, period, before, after, FALSE)
          \/ \E z \in {Naive} \cup Zones, dated \in BOOLEAN :
               /\ dated => z = Naive
               /\ \/ \E n \in 1..MaxSpan :
                       \/ AskRelative(at, "future", dated, z, Soonest, n)
                       \/ AskRelative(at, "past", dated, z, -n, Latest)
                  \/ \E low, high \in (-MaxSpan)..MaxSpan :
                       AskRelative(at, "between", dated, z, low, high)
          \/ \E z \in {Naive} \cup Zones : \E low, high \in DateBounds(z) :
               \E ahead \in IF z = Naive THEN {0} ELSE Locals :
                 AskBounds(at, "dates", FALSE, z, ahead, low, high)
          \/ \E high \in (-MaxSpan)..MaxSpan : AskRelative(at, "delta", FALSE, Naive, 0, high)
          \/ \E start \in Starts, high \in (-MaxSpan)..MaxSpan : AskUntil(at, start, high)
  \/ ReadLow \/ ReadHigh \/ Tick
  \/ \E t \in (from..(from + Margin)) \cup ((to - Margin)..to) : DrawTime(t)
  \/ GotDate

DateSpec == DateInit /\ [][DateNext]_dateVars

-----------------------------------------------------------------------------
(* Properties                                                              *)

\* Whole years from d to e, as chrono's years_since counts them.
YearsSince(e, d) ==
  e.year - d.year -
    (IF e.month < d.month \/ (e.month = d.month /\ e.day < d.day) THEN 1 ELSE 0)

\* "Date of birth for someone aged minimum_age to maximum_age today", on every
\* day of the year, 29 February too, and in a year that has one or not; today is
\* the day in the zone.
AgeInRange ==
  dating = "done" /\ inquiry.op = "birth" =>
    YearsSince(DateAt(Wall(inquiry.zone, inquiry.at)), DateAt(answer))
      \in inquiry.minimum..inquiry.maximum

\* The zone's clock is not set across midnight of d: it shows it, or is set on
\* to or back to just then.
Shown(z, d) ==
  \/ Midnight(d) <= z.turn + z.old /\ Midnight(d) <= z.turn + z.new
  \/ Midnight(d) >= z.turn + z.old /\ Midnight(d) >= z.turn + z.new

\* A date or time of "this" century, decade, year or month is in the same one
\* as today by the clock of the zone, whatever its offset is at the boundaries
\* and now, and on the side of now that was asked for; it is an error only in
\* the last year or in a period that starts with the first year or before.
WithinPeriod ==
  inquiry.op = "this" =>
    LET z == inquiry.zone
        today == DateAt(Wall(z, inquiry.at))
        start == PeriodStart(inquiry.period, today)
        end == PeriodEnd(inquiry.period, today, inquiry.dated)
        now == IF inquiry.dated THEN Midnight(today) ELSE inquiry.at
    IN Shown(z, start) /\ Shown(z, end) =>
         /\ dating = "done" =>
              /\ PeriodStart(inquiry.period, DateAt(Wall(z, answer))) = start
              /\ ~inquiry.after => answer <= now
              /\ ~inquiry.before => answer >= (IF inquiry.dated THEN now ELSE FloorSecond(now))
         /\ dating = "failed" => today.year >= MaxYear \/ start.year <= 1

\* However long the call takes and wherever the reads of the clock fall, with a
\* tzinfo or without: a future date or time is after the one the call was made
\* at, a past one before that of its return, any other is between its bounds,
\* to the second, and a time_delta to now is no longer than the call.  Only
\* bounds in the wrong order and the ends of the calendar are errors.  A bound is
\* where the clock that reads it says: with a tzinfo, date_time_between_dates
\* takes a bound that is given by the local clock and an absent one by UTC, so
\* that what is drawn from one hour ago to now may be from hours before, and is
\* an error where the local clock is ahead.
FuturePast ==
  LET lower == BoundAt(inquiry, inquiry.low, inquiry.at)
      upper == BoundAt(inquiry, inquiry.high, clock)
      ordered == BoundAt(inquiry, inquiry.low, clock) <= upper
      reach == (MaxSpan + 2) * DayTicks
  IN
    /\ dating = "done" /\ inquiry.op = "future" => answer > inquiry.at
    /\ dating = "done" /\ inquiry.op = "past" =>
         answer < IF inquiry.dated THEN Midnight(DateAt(clock)) ELSE clock
    /\ dating = "done" /\ inquiry.op \in {"between", "dates", "until"} =>
         /\ lower <= answer
         /\ \/ answer <= upper
            \/ inquiry.op = "between" /\ ~inquiry.dated
                 /\ (ordered => answer <= upper + Ticks)
    /\ dating = "done" /\ inquiry.op = "delta" /\ inquiry.high.n = 0 =>
         0 <= answer /\ answer < FloorSecond(clock) - FloorSecond(inquiry.at) + 1
    /\ dating = "failed" /\ inquiry.op \in {"future", "past", "between", "dates", "delta", "until"} =>
         \/ inquiry.op \in {"between", "dates", "until"} /\ ~ordered
         \/ DateAt(clock + reach).year > MaxYear
         \/ DateAt(inquiry.at - reach).year < 1
=============================================================================

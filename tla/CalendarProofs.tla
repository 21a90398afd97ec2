---------------------------- MODULE CalendarProofs ----------------------------
(***************************************************************************)
(* Dates of birth have the age asked for, what is drawn between two moments   *)
(* is between them, and what is drawn in this period is in it: for every day   *)
(* of the calendar, every clock that is set once and every length of a second.  *)
(***************************************************************************)
EXTENDS Calendar, TLAPS

-----------------------------------------------------------------------------
(* The calendar                                                            *)

\* A year has 365 days or 366, and later ones come later.
LEMMA YearLength ==
  ASSUME NEW y \in Int
  PROVE  /\ DaysBefore(y) \in Int
         /\ DaysBefore(y + 1) = DaysBefore(y) + (IF Leap(y) THEN 366 ELSE 365)
BY DEF DaysBefore, Leap

\* A year has at least 365 days.
LEMMA YearsGrow ==
  ASSUME NEW y \in Int, NEW z \in Int, y < z
  PROVE  DaysBefore(y) + 365 * (z - y) <= DaysBefore(z)
BY DEF DaysBefore

\* The days of year y that are before month m.
MonthDays(y, m) ==
  (367 * m - 362) \div 12 - (IF m <= 2 THEN 0 ELSE IF Leap(y) THEN 1 ELSE 2)

\* The days before a month are a number.
LEMMA MonthDaysType ==
  ASSUME NEW y \in Int, NEW m \in Int
  PROVE  MonthDays(y, m) \in Int
BY DEF MonthDays

\* The number of a date is that of the days before its year and month, and its day.
LEMMA OrdinalSum ==
  ASSUME NEW y \in Int, NEW m \in Int, NEW d \in Int
  PROVE  Ordinal(Ymd(y, m, d)) = DaysBefore(y) + MonthDays(y, m) + d
<1>1. Ordinal(Ymd(y, m, d)) =
        DaysBefore(y) + (367 * m - 362) \div 12 + d - (IF m <= 2 THEN 0 ELSE IF Leap(y) THEN 1 ELSE 2)
  BY DEF Ordinal, Ymd
<1>2. DaysBefore(y) \in Int
  BY YearLength
<1> QED
  BY <1>1, <1>2 DEF MonthDays

\* Years and months as DateOf finds them, and the only ones.
YearOf(n, y) == y \in Int /\ DaysBefore(y) < n /\ n <= DaysBefore(y + 1)
MonthOf(n, y, m) ==
  /\ m \in 1..12 /\ DaysBefore(y) + MonthDays(y, m) + 1 <= n
  /\ m < 12 => n < DaysBefore(y) + MonthDays(y, m + 1) + 1

\* The range DateOf looks in has the year of day n.
LEMMA YearFound ==
  ASSUME NEW n \in Int
  PROVE  \E y \in ((400 * n) \div 146097)..((400 * n) \div 146097 + 2) :
           DaysBefore(y) < n /\ n <= DaysBefore(y + 1)
<1> DEFINE near == (400 * n) \div 146097
           found == \E y \in near..(near + 2) : DaysBefore(y) < n /\ n <= DaysBefore(y + 1)
<1>1. near \in Int /\ DaysBefore(near) < n /\ n <= DaysBefore(near + 3)
  BY DEF DaysBefore
<1> HIDE DEF near
<1>2. near + 1 \in Int /\ near + 2 \in Int /\ near + 1 + 1 = near + 2 /\ near + 2 + 1 = near + 3
  BY <1>1
<1>3. DaysBefore(near + 1) \in Int /\ DaysBefore(near + 2) \in Int
  BY <1>2, YearLength
<1>4. n <= DaysBefore(near + 1) => found
  BY <1>1
<1>5. DaysBefore(near + 1) < n /\ n <= DaysBefore(near + 2) => found
  BY <1>1, <1>2
<1>6. DaysBefore(near + 2) < n => found
  BY <1>1, <1>2
<1>7. found
  BY <1>3, <1>4, <1>5, <1>6
<1> QED
  BY <1>7 DEF near

\* A day is in one year ...
LEMMA YearUnique ==
  ASSUME NEW n \in Int, NEW y \in Int, NEW z \in Int, YearOf(n, y), YearOf(n, z)
  PROVE  y = z
<1>1. y \in Int /\ z \in Int /\ y + 1 \in Int /\ z + 1 \in Int
  BY DEF YearOf
<1>2. /\ DaysBefore(y) \in Int /\ DaysBefore(z) \in Int
      /\ DaysBefore(y + 1) \in Int /\ DaysBefore(z + 1) \in Int
  BY <1>1, YearLength
<1>3. ~(y + 1 <= z)
  <2> SUFFICES ASSUME y + 1 <= z PROVE FALSE
    OBVIOUS
  <2>1. DaysBefore(y + 1) <= DaysBefore(z)
    <3>1. CASE y + 1 = z
      BY <1>2, <3>1
    <3>2. CASE y + 1 < z
      BY <1>1, <1>2, <3>2, YearsGrow
    <3> QED
      BY <1>1, <3>1, <3>2
  <2> QED
    BY <1>2, <2>1 DEF YearOf
<1>4. ~(z + 1 <= y)
  <2> SUFFICES ASSUME z + 1 <= y PROVE FALSE
    OBVIOUS
  <2>1. DaysBefore(z + 1) <= DaysBefore(y)
    <3>1. CASE z + 1 = y
      BY <1>2, <3>1
    <3>2. CASE z + 1 < y
      BY <1>1, <1>2, <3>2, YearsGrow
    <3> QED
      BY <1>1, <3>1, <3>2
  <2> QED
    BY <1>2, <2>1 DEF YearOf
<1> QED
  BY <1>1, <1>3, <1>4

\* ... in a month of it ...
LEMMA MonthFound ==
  ASSUME NEW n \in Int, NEW y \in Int, YearOf(n, y)
  PROVE  \E m \in 1..12 : MonthOf(n, y, m)
<1>1. y \in Int /\ DaysBefore(y) \in Int /\ DaysBefore(y) < n
  BY YearLength DEF YearOf
<1>2. PICK k \in Int : k = n - DaysBefore(y) - 1
  BY <1>1
<1>3. k \in Nat
  BY <1>1, <1>2
<1>4. \E m \in 1..12 : MonthDays(y, m) <= k /\ (m < 12 => k < MonthDays(y, m + 1))
  <2>1. CASE MonthDays(y, 12) <= k
    BY <2>1
  <2>2. CASE k < MonthDays(y, 12)
    BY <1>3, <2>2 DEF MonthDays
  <2>3. MonthDays(y, 12) \in Int
    BY <1>1 DEF MonthDays
  <2> QED
    BY <1>3, <2>1, <2>2, <2>3
<1>5. PICK m \in 1..12 : MonthDays(y, m) <= k /\ (m < 12 => k < MonthDays(y, m + 1))
  BY <1>4
<1>6. MonthDays(y, m) \in Int /\ MonthDays(y, m + 1) \in Int
  BY <1>1 DEF MonthDays
<1> QED
  BY <1>1, <1>2, <1>5, <1>6 DEF MonthOf

\* ... and in one only.
LEMMA MonthUnique ==
  ASSUME NEW n \in Int, NEW y \in Int, NEW m \in 1..12, NEW k \in 1..12, MonthOf(n, y, m), MonthOf(n, y, k)
  PROVE  m = k
<1>1. m \in 1..12 /\ k \in 1..12 /\ DaysBefore(y) \in Int
  BY YearLength DEF MonthOf
<1> QED
  BY <1>1 DEF MonthOf, MonthDays

\* DateOf, put without CHOOSE.
LEMMA DateOfIs ==
  ASSUME NEW n \in Int, NEW y \in Int, NEW m \in 1..12, YearOf(n, y), MonthOf(n, y, m)
  PROVE  DateOf(n) = Ymd(y, m, n - (DaysBefore(y) + MonthDays(y, m)))
<1> DEFINE near == (400 * n) \div 146097
           yy == CHOOSE u \in near..(near + 2) : DaysBefore(u) < n /\ n <= DaysBefore(u + 1)
           fits(u) == Ordinal(Ymd(yy, u, 1)) <= n /\ (u < 12 => n < Ordinal(Ymd(yy, u + 1, 1)))
           mm == CHOOSE u \in 1..12 : fits(u)
<1>1. near \in Int /\ yy \in near..(near + 2) /\ DaysBefore(yy) < n /\ n <= DaysBefore(yy + 1)
  <2>1. near \in Int
    OBVIOUS
  <2>2. \E u \in near..(near + 2) : DaysBefore(u) < n /\ n <= DaysBefore(u + 1)
    BY YearFound
  <2> HIDE DEF near
  <2> QED
    BY <2>1, <2>2
<1>2. yy = y
  BY <1>1, YearUnique DEF YearOf
<1> HIDE DEF yy
<1>3. y \in Int /\ DaysBefore(y) \in Int
  BY YearLength DEF YearOf
<1>4. ASSUME NEW u \in 1..12
      PROVE  fits(u) <=> MonthOf(n, y, u)
  <2>1. Ordinal(Ymd(y, u, 1)) = DaysBefore(y) + MonthDays(y, u) + 1
    BY OrdinalSum
  <2>2. ASSUME u < 12
        PROVE  Ordinal(Ymd(y, u + 1, 1)) = DaysBefore(y) + MonthDays(y, u + 1) + 1
    BY OrdinalSum
  <2> QED
    BY <1>2, <2>1, <2>2 DEF MonthOf
<1>5. m \in 1..12
  BY DEF MonthOf
<1>6. mm \in 1..12 /\ MonthOf(n, y, mm)
  <2>1. fits(m)
    BY <1>4
  <2> HIDE DEF fits
  <2> QED
    BY <1>4, <2>1
<1>7. mm = m
  BY <1>3, <1>6, MonthUnique
<1>8. Ordinal(Ymd(y, m, 1)) = DaysBefore(y) + MonthDays(y, m) + 1
  BY OrdinalSum
<1>9. MonthDays(y, m) \in Int
  BY MonthDaysType
<1>10. DateOf(n) = Ymd(yy, mm, n - Ordinal(Ymd(yy, mm, 1)) + 1)
  BY DEF DateOf, yy
<1> HIDE DEF mm
<1> QED
  BY <1>2, <1>3, <1>7, <1>8, <1>9, <1>10

\* Every day has a date, which is the one DateOf gives.
LEMMA DateIs ==
  ASSUME NEW n \in Int
  PROVE  \E y \in Int, m \in 1..12 :
           /\ YearOf(n, y) /\ MonthOf(n, y, m)
           /\ DateOf(n) = Ymd(y, m, n - (DaysBefore(y) + MonthDays(y, m)))
<1>1. PICK y \in Int : YearOf(n, y)
  <2>1. (400 * n) \div 146097 \in Int
    OBVIOUS
  <2> QED
    BY <2>1, YearFound DEF YearOf
<1>2. PICK m \in 1..12 : MonthOf(n, y, m)
  BY <1>1, MonthFound
<1>3. DateOf(n) = Ymd(y, m, n - (DaysBefore(y) + MonthDays(y, m)))
  BY <1>1, <1>2, DateOfIs
<1> QED
  BY <1>1, <1>2, <1>3

\* The parts of a date.
LEMMA DateShape ==
  ASSUME NEW n \in Int
  PROVE  DateOf(n) \in [year : Int, month : 1..12, day : Int]
<1>1. PICK y \in Int, m \in 1..12 :
        DateOf(n) = Ymd(y, m, n - (DaysBefore(y) + MonthDays(y, m)))
  BY DateIs
<1>2. DaysBefore(y) \in Int /\ MonthDays(y, m) \in Int
  BY YearLength, MonthDaysType
<1> QED
  BY <1>1, <1>2 DEF Ymd

\* Ordinal undoes DateOf.
LEMMA OrdinalOfDate ==
  ASSUME NEW n \in Int
  PROVE  Ordinal(DateOf(n)) = n
<1>1. PICK y \in Int, m \in 1..12 :
        DateOf(n) = Ymd(y, m, n - (DaysBefore(y) + MonthDays(y, m)))
  BY DateIs
<1>2. PICK k \in Int : k = DaysBefore(y) + MonthDays(y, m)
  BY YearLength, MonthDaysType
<1>3. Ordinal(Ymd(y, m, n - k)) = DaysBefore(y) + MonthDays(y, m) + (n - k)
  BY OrdinalSum
<1> QED
  BY <1>1, <1>2, <1>3, YearLength, MonthDaysType

\* The first day of a year tells what is in it or after it.
LEMMA YearFrom ==
  ASSUME NEW n \in Int, NEW y \in Int
  PROVE  DaysBefore(y) < n <=> y <= DateOf(n).year
<1>1. PICK z \in Int, m \in 1..12 :
        YearOf(n, z) /\ DateOf(n) = Ymd(z, m, n - (DaysBefore(z) + MonthDays(z, m)))
  BY DateIs
<1>2. DateOf(n).year = z
  BY <1>1 DEF Ymd
<1>3. DaysBefore(y) \in Int /\ DaysBefore(z) \in Int /\ DaysBefore(z + 1) \in Int
  BY YearLength
<1>4. y <= z => DaysBefore(y) <= DaysBefore(z)
  BY DEF DaysBefore
<1>5. z + 1 <= y => DaysBefore(z + 1) <= DaysBefore(y)
  BY DEF DaysBefore
<1> QED
  BY <1>1, <1>2, <1>3, <1>4, <1>5 DEF YearOf

\* Later days have later dates.
LEMMA Lexicographic ==
  ASSUME NEW i \in Int, NEW j \in Int, i < j,
         NEW a, a = DateOf(i), NEW b, b = DateOf(j)
  PROVE  \/ a.year < b.year
         \/ a.year = b.year /\ a.month < b.month
         \/ a.year = b.year /\ a.month = b.month /\ a.day < b.day
<1>1. PICK y \in Int, m \in 1..12 :
        /\ YearOf(i, y) /\ MonthOf(i, y, m)
        /\ a = Ymd(y, m, i - (DaysBefore(y) + MonthDays(y, m)))
  BY DateIs
<1>2. PICK z \in Int, k \in 1..12 :
        /\ YearOf(j, z) /\ MonthOf(j, z, k)
        /\ b = Ymd(z, k, j - (DaysBefore(z) + MonthDays(z, k)))
  BY DateIs
<1>3. /\ DaysBefore(y) \in Int /\ DaysBefore(z) \in Int /\ DaysBefore(z + 1) \in Int
      /\ MonthDays(y, m) \in Int /\ MonthDays(z, k) \in Int
  BY DEF DaysBefore, MonthDays
<1>4. /\ a.year = y /\ a.month = m /\ a.day = i - (DaysBefore(y) + MonthDays(y, m))
      /\ b.year = z /\ b.month = k /\ b.day = j - (DaysBefore(z) + MonthDays(z, k))
  BY <1>1, <1>2 DEF Ymd
<1>5. z + 1 <= y => DaysBefore(z + 1) <= DaysBefore(y)
  BY DEF DaysBefore
<1>6. y <= z
  BY <1>1, <1>2, <1>3, <1>5 DEF YearOf
<1>7. y = z => m <= k
  <2> SUFFICES ASSUME y = z, k < m PROVE FALSE
    OBVIOUS
  <2>1. j < DaysBefore(y) + MonthDays(y, k + 1) + 1 /\ DaysBefore(y) + MonthDays(y, m) + 1 <= i
    BY <1>1, <1>2 DEF MonthOf
  <2>2. MonthDays(y, k + 1) <= MonthDays(y, m) /\ MonthDays(y, k + 1) \in Int
    BY DEF MonthDays
  <2> QED
    BY <1>3, <2>1, <2>2
<1> QED
  BY <1>3, <1>4, <1>6, <1>7

\* The length of month m of year y.
Length(y, m) == IF m = 12 THEN 31 ELSE MonthDays(y, m + 1) - MonthDays(y, m)

\* A day is valid from the first to the last of its month.
LEMMA ValidParts ==
  ASSUME NEW y \in Int, NEW m \in 1..12, NEW d \in Int
  PROVE  ValidDay(Ymd(y, m, d)) <=> 1 <= d /\ d <= Length(y, m)
<1>1. PICK n \in Int : n = DaysBefore(y) + MonthDays(y, m) + d
  <2>1. DaysBefore(y) \in Int /\ MonthDays(y, m) \in Int
    BY DEF DaysBefore, MonthDays
  <2> QED
    BY <2>1
<1>2. Ordinal(Ymd(y, m, d)) = n
  BY <1>1, OrdinalSum
<1>3. PICK k \in Int : k = MonthDays(y, m)
  BY MonthDaysType
<1>4. DaysBefore(y) \in Int
  BY YearLength
<1>5. DaysBefore(y + 1) = DaysBefore(y) + (IF Leap(y) THEN 366 ELSE 365)
  BY YearLength
<1>6. /\ 0 <= k /\ k <= 335
      /\ m < 12 => k + 28 <= MonthDays(y, m + 1) /\ MonthDays(y, m + 1) <= 335
      /\ m = 12 => k + 31 = IF Leap(y) THEN 366 ELSE 365
  BY <1>3 DEF MonthDays
<1>7. m < 12 => MonthDays(y, m + 1) \in Int
  BY DEF MonthDays
<1>8. ASSUME 1 <= d, d <= Length(y, m)
      PROVE  ValidDay(Ymd(y, m, d))
  <2>1. YearOf(n, y)
    BY <1>1, <1>3, <1>4, <1>5, <1>6, <1>7, <1>8 DEF YearOf, Length
  <2>2. MonthOf(n, y, m)
    BY <1>1, <1>3, <1>4, <1>7, <1>8 DEF MonthOf, Length
  <2>3. DateOf(n) = Ymd(y, m, n - (DaysBefore(y) + MonthDays(y, m)))
    BY <2>1, <2>2, DateOfIs
  <2>4. n - (DaysBefore(y) + MonthDays(y, m)) = d
    BY <1>1, <1>3, <1>4
  <2> QED
    BY <1>2, <2>3, <2>4 DEF ValidDay
<1>9. ASSUME ValidDay(Ymd(y, m, d))
      PROVE  1 <= d /\ d <= Length(y, m)
  <2>1. PICK z \in Int, l \in 1..12 :
          /\ YearOf(n, z) /\ MonthOf(n, z, l)
          /\ DateOf(n) = Ymd(z, l, n - (DaysBefore(z) + MonthDays(z, l)))
    BY DateIs
  <2>2. z = y /\ l = m
    BY <1>2, <1>9, <2>1 DEF ValidDay, Ymd
  <2>3. YearOf(n, y) /\ MonthOf(n, y, m)
    BY <2>1, <2>2
  <2> QED
    BY <1>1, <1>3, <1>4, <1>5, <1>6, <1>7, <2>3 DEF YearOf, MonthOf, Length
<1> QED
  BY <1>8, <1>9

-----------------------------------------------------------------------------
(* Days and seconds                                                        *)

\* A second and a day take time.
LEMMA Positive == Ticks \in Nat \ {0} /\ DayTicks \in Nat \ {0}
BY CalendarAssumption DEF DayTicks

\* Quotient and remainder.
LEMMA Rounding ==
  ASSUME NEW t \in Int, NEW k \in Nat \ {0}
  PROVE  /\ t \div k \in Int
         /\ (t \div k) * k <= t
         /\ t < (t \div k) * k + k
         /\ t % k = t - (t \div k) * k
<1>1. /\ t \div k \in Int
      /\ k * (t \div k) <= t
      /\ t < k * (t \div k) + k
      /\ t % k = t - k * (t \div k)
  OBVIOUS
<1>2. k * (t \div k) = (t \div k) * k
  BY <1>1
<1> QED
  BY <1>1, <1>2

\* Multiples are in the order of their factors.
LEMMA Scaling ==
  ASSUME NEW a \in Int, NEW b \in Int, NEW k \in Nat \ {0}
  PROVE  a <= b <=> a * k <= b * k
OBVIOUS

\* Rounding down is to the last multiple that is not after.
LEMMA LastMultiple ==
  ASSUME NEW t \in Int, NEW n \in Int, NEW k \in Nat \ {0}
  PROVE  n * k <= t <=> n <= t \div k
<1>1. PICK q \in Int : q = t \div k /\ q * k <= t /\ t < (q + 1) * k
  <2>1. PICK q \in Int : q = t \div k /\ q * k <= t /\ t < q * k + k
    BY Rounding
  <2>2. q * k + k = (q + 1) * k
    OBVIOUS
  <2> QED
    BY <2>1, <2>2
<1>2. n <= q <=> n * k <= q * k
  BY Scaling
<1>3. q + 1 <= n <=> (q + 1) * k <= n * k
  BY Scaling
<1> QED
  BY <1>1, <1>2, <1>3

\* The day of a moment: the last one whose midnight is not after it.
LEMMA DayOf ==
  ASSUME NEW t \in Int
  PROVE  /\ t \div DayTicks \in Int
         /\ \A n \in Int : n * DayTicks <= t <=> n <= t \div DayTicks
BY Positive, Rounding, LastMultiple

\* The n-th midnight is on the n-th day.
LEMMA MidnightDay ==
  ASSUME NEW n \in Int
  PROVE  n * DayTicks \in Int /\ (n * DayTicks) \div DayTicks = n
<1>1. n * DayTicks \in Int
  BY Positive
<1>2. PICK q \in Int : q = (n * DayTicks) \div DayTicks
  BY <1>1, DayOf
<1>3. n <= q
  BY <1>1, <1>2, DayOf
<1>4. q * DayTicks <= n * DayTicks
  BY <1>1, <1>2, DayOf
<1>5. q <= n
  BY <1>4, Positive, Scaling
<1> QED
  BY <1>1, <1>2, <1>3, <1>5

\* Midnight of the n-th day is the n-th midnight.
LEMMA MidnightOf ==
  ASSUME NEW n \in Int
  PROVE  Midnight(DateOf(n)) = n * DayTicks
BY OrdinalOfDate DEF Midnight

-----------------------------------------------------------------------------
(* Dates of birth                                                          *)

\* DateOf gives valid dates.
LEMMA AlwaysValid ==
  ASSUME NEW n \in Int
  PROVE  ValidDay(DateOf(n))
BY OrdinalOfDate DEF ValidDay

\* The same day of another year; 29 February is the only one that some lack.
SameDay(today, c, diff) ==
  /\ c \in [year : Int, month : 1..12, day : Int]
  /\ c = DateOf(Ordinal(c)) /\ c = Ymd(c.year, c.month, c.day)
  /\ c.year = today.year + diff
  /\ \/ c.month = today.month /\ c.day = today.day
     \/ /\ c.month = 3 /\ c.day = 1 /\ today.month = 2 /\ today.day = 29
        /\ Length(c.year, 2) = 28

\* change_year gives the same day diff years later, or 1 March for 29 February in a common year.
LEMMA Changed ==
  ASSUME NEW n \in Int, NEW diff \in Int
  PROVE  SameDay(DateOf(n), ChangeYear(DateOf(n), diff), diff)
<1> DEFINE today == DateOf(n)
           c == ChangeYear(today, diff)
<1>1. today \in [year : Int, month : 1..12, day : Int] /\ ValidDay(today)
  BY DateShape, AlwaysValid
<1> HIDE DEF today
<1>2. PICK y \in Int, m \in 1..12, d \in Int : today = Ymd(y, m, d)
  BY <1>1 DEF Ymd
<1>3. [today EXCEPT !.year = @ + diff] = Ymd(y + diff, m, d)
  BY <1>2 DEF Ymd
<1>4. 1 <= d /\ d <= Length(y, m)
  BY <1>1, <1>2, ValidParts
<1>5. ASSUME ValidDay(Ymd(y + diff, m, d))
      PROVE  SameDay(today, c, diff)
  <2>1. c = Ymd(y + diff, m, d)
    BY <1>3, <1>5 DEF ChangeYear
  <2> QED
    BY <1>2, <1>5, <2>1 DEF SameDay, ValidDay, Ymd
<1>6. ASSUME ~ValidDay(Ymd(y + diff, m, d))
      PROVE  SameDay(today, c, diff)
  <2>1. c = Ymd(y + diff, 3, 1)
    BY <1>3, <1>6 DEF ChangeYear, Ymd
  <2>2. ~(1 <= d /\ d <= Length(y + diff, m))
    BY <1>6, ValidParts
  <2>3. m = 2 /\ d = 29 /\ Length(y + diff, 2) = 28
    BY <1>4, <2>2 DEF Length, MonthDays
  <2>4. Length(y + diff, 3) = 31
    BY DEF Length, MonthDays
  <2>5. ValidDay(Ymd(y + diff, 3, 1))
    BY <2>4, ValidParts
  <2> QED
    BY <1>2, <2>1, <2>3, <2>5 DEF SameDay, ValidDay, Ymd
<1> QED
  BY <1>5, <1>6 DEF today

\* Who was born after the day on which one turned maximum + 1 and before the one
\* on which one turned minimum is of that age, and there is such a day.
LEMMA AgeBetween ==
  ASSUME NEW n \in Int, NEW today, today = DateOf(n),
         NEW minimum \in Nat, NEW maximum \in Nat, minimum <= maximum,
         NEW f, f = Ordinal(ChangeYear(today, -(maximum + 1))),
         NEW g, g = Ordinal(ChangeYear(today, -minimum))
  PROVE  /\ f \in Int /\ g \in Int /\ f + 1 < g
         /\ \A k \in Int : f < k /\ k < g => YearsSince(today, DateOf(k)) \in minimum..maximum
<1>1. PICK a : a = ChangeYear(today, -(maximum + 1))
  OBVIOUS
<1>2. PICK b : b = ChangeYear(today, -minimum)
  OBVIOUS
<1>3. today \in [year : Int, month : 1..12, day : Int] /\ ValidDay(today)
  BY DateShape, AlwaysValid
<1>4. /\ a \in [year : Int, month : 1..12, day : Int]
      /\ a = DateOf(f) /\ a = Ymd(a.year, a.month, a.day)
      /\ a.year = today.year - (maximum + 1)
      /\ \/ a.month = today.month /\ a.day = today.day
         \/ a.month = 3 /\ a.day = 1 /\ today.month = 2 /\ today.day = 29
  <2>1. PICK diff \in Int : diff = -(maximum + 1)
    OBVIOUS
  <2>2. SameDay(today, a, diff)
    BY <1>1, <2>1, Changed
  <2> QED
    BY <1>1, <1>3, <2>1, <2>2 DEF SameDay
<1>5. /\ b \in [year : Int, month : 1..12, day : Int]
      /\ b = DateOf(g) /\ b = Ymd(b.year, b.month, b.day)
      /\ b.year = today.year - minimum
      /\ \/ b.month = today.month /\ b.day = today.day
         \/ /\ b.month = 3 /\ b.day = 1 /\ today.month = 2 /\ today.day = 29
            /\ Length(b.year, 2) = 28
  <2>1. PICK diff \in Int : diff = -minimum
    OBVIOUS
  <2>2. SameDay(today, b, diff)
    BY <1>2, <2>1, Changed
  <2> QED
    BY <1>2, <1>3, <2>1, <2>2 DEF SameDay
<1>6. /\ f = DaysBefore(a.year) + MonthDays(a.year, a.month) + a.day
      /\ g = DaysBefore(b.year) + MonthDays(b.year, b.month) + b.day
  <2>1. a.year \in Int /\ a.month \in Int /\ a.day \in Int
    BY <1>4
  <2>2. b.year \in Int /\ b.month \in Int /\ b.day \in Int
    BY <1>5
  <2>3. Ordinal(Ymd(a.year, a.month, a.day)) = DaysBefore(a.year) + MonthDays(a.year, a.month) + a.day
    BY <2>1, OrdinalSum
  <2>4. Ordinal(Ymd(b.year, b.month, b.day)) = DaysBefore(b.year) + MonthDays(b.year, b.month) + b.day
    BY <2>2, OrdinalSum
  <2> QED
    BY <1>1, <1>2, <1>4, <1>5, <2>3, <2>4
<1>7. f \in Int /\ g \in Int /\ f + 1 < g
  <2>1. PICK y \in Int, m \in 1..12, d \in Int : y = a.year /\ m = a.month /\ d = a.day
    BY <1>4
  <2>2. PICK z \in Int, l \in 1..12, e \in Int : z = b.year /\ l = b.month /\ e = b.day
    BY <1>5
  <2>3. y < z
    BY <1>3, <1>4, <1>5, <2>1, <2>2
  <2>4. \/ l = m /\ e = d
        \/ l = 2 /\ e = 29 /\ m = 3 /\ d = 1
        \/ l = 3 /\ e = 1 /\ m = 2 /\ d = 29
    BY <1>4, <1>5, <2>1, <2>2
  <2>5. DaysBefore(y) + 365 <= DaysBefore(z) /\ DaysBefore(y) \in Int /\ DaysBefore(z) \in Int
    BY <2>3 DEF DaysBefore
  <2>6. MonthDays(y, m) + d <= MonthDays(z, l) + e + 1 /\ MonthDays(y, m) \in Int /\ MonthDays(z, l) \in Int
    BY <2>4 DEF MonthDays
  <2>7. f = DaysBefore(y) + MonthDays(y, m) + d /\ g = DaysBefore(z) + MonthDays(z, l) + e
    BY <1>6, <2>1, <2>2
  <2> QED
    BY <2>5, <2>6, <2>7
<1>8. ASSUME NEW k \in Int, f < k, k < g
      PROVE  YearsSince(today, DateOf(k)) \in minimum..maximum
  <2>1. PICK e : e = DateOf(k)
    OBVIOUS
  <2>2. e \in [year : Int, month : 1..12, day : Int] /\ ValidDay(e)
    BY <2>1, DateShape, AlwaysValid
  <2>3. \/ a.year < e.year
        \/ a.year = e.year /\ a.month < e.month
        \/ a.year = e.year /\ a.month = e.month /\ a.day < e.day
    BY <1>4, <1>7, <1>8, <2>1, Lexicographic
  <2>4. \/ e.year < b.year
        \/ e.year = b.year /\ e.month < b.month
        \/ e.year = b.year /\ e.month = b.month /\ e.day < b.day
    BY <1>5, <1>7, <1>8, <2>1, Lexicographic
  <2>5. 1 <= e.day /\ (e.month = 2 => e.day <= Length(e.year, 2))
    <3>1. e = Ymd(e.year, e.month, e.day)
      BY <2>2 DEF Ymd
    <3>2. e.year \in Int /\ e.month \in 1..12 /\ e.day \in Int
      BY <2>2
    <3>3. 1 <= e.day /\ e.day <= Length(e.year, e.month)
      BY <2>2, <3>1, <3>2, ValidParts
    <3> QED
      BY <3>3
  <2>6. PICK s : s = IF today.month < e.month \/ (today.month = e.month /\ today.day < e.day) THEN 1 ELSE 0
    OBVIOUS
  <2>7. YearsSince(today, e) = today.year - e.year - s
    BY <2>6 DEF YearsSince
  <2>8. today.year - e.year - s <= maximum
    BY <1>3, <1>4, <2>2, <2>3, <2>6
  <2>9. today.year - e.year - s >= minimum
    <3>1. CASE e.year < b.year
      BY <1>3, <1>5, <2>2, <2>6, <3>1
    <3>2. CASE e.year = b.year /\ b.month = today.month /\ b.day = today.day
      BY <1>3, <1>5, <2>2, <2>4, <2>6, <3>2
    <3>3. CASE e.year = b.year /\ ~(b.month = today.month /\ b.day = today.day)
      <4>1. b.month = 3 /\ b.day = 1 /\ today.month = 2 /\ today.day = 29 /\ Length(e.year, 2) = 28
        BY <1>5, <3>3
      <4>2. e.month = 2 => e.day <= 28
        BY <2>5, <4>1
      <4>3. e.month <= 2
        BY <1>5, <2>2, <2>4, <2>5, <3>3, <4>1
      <4>4. s = 0
        BY <2>2, <2>6, <4>1, <4>2, <4>3
      <4> QED
        BY <1>3, <1>5, <2>2, <3>3, <4>4
    <3> QED
      BY <1>5, <2>2, <2>4, <3>1, <3>2, <3>3
  <2> QED
    BY <1>3, <2>1, <2>2, <2>6, <2>7, <2>8, <2>9
<1> QED
  BY <1>7, <1>8

\* What a call for a date of birth draws between.
BirthDraw ==
  LET today == DateAt(Wall(inquiry.zone, inquiry.at))
  IN  /\ Wall(inquiry.zone, inquiry.at) \in Int
      /\ inquiry.minimum \in Nat /\ inquiry.maximum \in Nat /\ inquiry.minimum <= inquiry.maximum
      /\ from = Midnight(ChangeYear(today, -(inquiry.maximum + 1)))
      /\ to = Midnight(ChangeYear(today, -inquiry.minimum))

BirthInv ==
  /\ inquiry.op = "birth" => dating \in {"drawing", "done", "failed"}
  /\ inquiry.op = "birth" /\ dating = "drawing" => BirthDraw
  /\ AgeInRange

\* A call of date_of_birth reads the clock and bounds the draw.
LEMMA BirthAsked ==
  ASSUME NEW at \in Int, NEW z \in [turn : Int, old : Int, new : Int],
         NEW minimum \in Int, NEW maximum \in Int, AskBirth(at, z, minimum, maximum)
  PROVE  BirthInv'
<1>1. /\ inquiry'.op = "birth" /\ inquiry'.at = at /\ inquiry'.zone = z
      /\ inquiry'.minimum = minimum /\ inquiry'.maximum = maximum
  BY DEF AskBirth, Called
<1>2. dating' \in {"drawing", "failed"}
  BY DEF AskBirth, Failed, Bounded
<1>3. ASSUME dating' = "drawing" PROVE BirthDraw'
  <2>1. /\ ~BadAges(DateAt(Wall(z, at)), minimum, maximum)
        /\ from' = Midnight(ChangeYear(DateAt(Wall(z, at)), -(maximum + 1)))
        /\ to' = Midnight(ChangeYear(DateAt(Wall(z, at)), -minimum))
    BY <1>3 DEF AskBirth, Failed, Bounded
  <2>2. Wall(z, at) \in Int
    BY DEF Wall, OffsetAt
  <2>3. minimum \in Nat /\ maximum \in Nat /\ minimum <= maximum
    BY <2>1 DEF BadAges
  <2> QED
    BY <1>1, <2>1, <2>2, <2>3 DEF BirthDraw
<1> QED
  BY <1>2, <1>3 DEF BirthInv, AgeInRange

\* What is drawn between those bounds has the age.
LEMMA BirthDrawn ==
  ASSUME BirthInv, inquiry.op = "birth", NEW t \in Int, DrawTime(t)
  PROVE  BirthInv'
<1>1. BirthDraw /\ inquiry' = inquiry
  BY DEF BirthInv, DrawTime
<1>2. CASE dating' = "failed"
  BY <1>1, <1>2 DEF BirthInv, AgeInRange
<1>3. CASE dating' = "done" /\ answer' = Midnight(Birthday(DateAt(t)))
  <2>1. PICK w \in Int : w = Wall(inquiry.zone, inquiry.at)
    BY <1>1 DEF BirthDraw
  <2>2. PICK n \in Int : n = w \div DayTicks
    BY DayOf
  <2>3. PICK minimum \in Nat, maximum \in Nat :
          minimum = inquiry.minimum /\ maximum = inquiry.maximum /\ minimum <= maximum
    BY <1>1 DEF BirthDraw
  <2>4. PICK f : f = Ordinal(ChangeYear(DateOf(n), -(maximum + 1)))
    OBVIOUS
  <2>5. PICK g : g = Ordinal(ChangeYear(DateOf(n), -minimum))
    OBVIOUS
  <2>6. from = f * DayTicks /\ to = g * DayTicks
    BY <1>1, <2>1, <2>2, <2>3, <2>4, <2>5 DEF BirthDraw, Midnight, DateAt
  <2>7. f \in Int /\ g \in Int /\ f + 1 < g
    BY <2>3, <2>4, <2>5, AgeBetween
  <2>8. ASSUME NEW k \in Int, f < k, k < g
        PROVE  YearsSince(DateOf(n), DateOf(k)) \in minimum..maximum
    BY <2>3, <2>4, <2>5, <2>8, AgeBetween
  <2>9. PICK i \in Int : i = t \div DayTicks
    BY DayOf
  <2>10. f <= i /\ i < g
    <3>1. from \in Int /\ to \in Int /\ from < to
      <4>1. f * DayTicks <= g * DayTicks /\ ~(g * DayTicks <= f * DayTicks)
        BY <2>7, Positive, Scaling
      <4>2. f * DayTicks \in Int /\ g * DayTicks \in Int
        BY <2>7, Positive
      <4> QED
        BY <2>6, <4>1, <4>2
    <3>2. from <= t /\ ~(to <= t)
      BY <3>1 DEF DrawTime
    <3> QED
      BY <2>6, <2>7, <2>9, <3>2, DayOf
  <2>11. PICK k \in Int : k = IF i = f THEN i + 1 ELSE i
    OBVIOUS
  <2>12. Birthday(DateAt(t)) = DateOf(k)
    <3>1. Midnight(DateOf(i)) = from <=> i = f
      <4>1. i * DayTicks = f * DayTicks => i <= f /\ f <= i
        BY <2>7, Positive, Scaling
      <4> QED
        BY <2>6, <2>7, <4>1, MidnightOf
    <3>2. Ordinal(DateOf(i)) = i
      BY OrdinalOfDate
    <3> QED
      BY <2>9, <2>11, <3>1, <3>2 DEF Birthday, DateAt
  <2>13. DateAt(answer') = DateOf(k)
    BY <1>3, <2>12, MidnightOf, MidnightDay DEF DateAt
  <2>14. f < k /\ k < g
    BY <2>7, <2>10, <2>11
  <2>15. YearsSince(DateOf(n), DateOf(k)) \in minimum..maximum
    BY <2>8, <2>14
  <2> QED
    BY <1>1, <1>3, <2>1, <2>2, <2>3, <2>13, <2>15 DEF BirthInv, AgeInRange, DateAt
<1> QED
  BY <1>2, <1>3 DEF DrawTime, Failed

\* A clock that is set to the second and on one, as that of every zone.
Whole(t) == t % Ticks = 0
Clock(z) ==
  /\ z \in [turn : Int, old : Int, new : Int] /\ Whole(z.turn) /\ Whole(z.old) /\ Whole(z.new)
  /\ z.old \in ZoneOffsets /\ z.new \in ZoneOffsets

\* Zones are clocks, and so is that of naive times.
LEMMA Clocks ==
  /\ \A z \in Zones : Clock(z)
  /\ Clock(Naive)
<1>1. 0 % Ticks = 0 /\ 0 \in ZoneOffsets /\ ZoneOffsets \subseteq Int
  BY Positive DEF ZoneOffsets
<1>2. Clock(Naive)
  BY <1>1 DEF Clock, Whole, Naive
<1>3. ASSUME NEW z \in Zones
      PROVE  Clock(z)
  BY <1>1, TimeAssumption DEF Clock, Whole
<1> QED
  BY <1>2, <1>3

\* A call is made on a day of datetime's.
LEMMA Moments ==
  ASSUME NEW d \in Today, NEW tick \in TimesOfDay
  PROVE  /\ Midnight(d) + tick \in Int
         /\ DateAt(Midnight(d) + tick).year \in 1..MaxYear
<1>1. d \in [year : 1..MaxYear, month : 1..12, day : 1..31] /\ ValidDay(d)
  BY TimeAssumption
<1>2. PICK n \in Int : n = Ordinal(d) /\ d = DateOf(n)
  <2>1. d = Ymd(d.year, d.month, d.day)
    BY <1>1 DEF Ymd
  <2>2. d.year \in Int /\ d.month \in Int /\ d.day \in Int
    BY <1>1, CalendarAssumption
  <2>3. Ordinal(Ymd(d.year, d.month, d.day)) = DaysBefore(d.year) + MonthDays(d.year, d.month) + d.day
    BY <2>2, OrdinalSum
  <2>4. DaysBefore(d.year) \in Int /\ MonthDays(d.year, d.month) \in Int
    BY <2>2 DEF DaysBefore, MonthDays
  <2> QED
    BY <1>1, <2>1, <2>2, <2>3, <2>4 DEF ValidDay
<1>3. tick \in Int /\ 0 <= tick /\ tick < DayTicks
  BY TimeAssumption, Positive
<1>4. PICK t \in Int : t = n * DayTicks + tick
  BY <1>3, Positive
<1>5. n <= t \div DayTicks
  BY <1>3, <1>4, Positive, DayOf
<1>6. ~(n + 1 <= t \div DayTicks)
  <2>1. (n + 1) * DayTicks = n * DayTicks + DayTicks /\ n * DayTicks \in Int
    BY Positive
  <2> QED
    BY <1>3, <1>4, <2>1, Positive, DayOf
<1>7. t \div DayTicks = n
  BY <1>5, <1>6, DayOf
<1> QED
  BY <1>1, <1>2, <1>4, <1>7 DEF Midnight, DateAt

\* BirthInv is inductive.
LEMMA BirthNext == BirthInv /\ [DateNext]_dateVars => BirthInv'
<1> SUFFICES ASSUME BirthInv, [DateNext]_dateVars PROVE BirthInv'
  OBVIOUS
<1>1. ASSUME NEW d \in Today, NEW tick \in TimesOfDay, NEW at \in {Midnight(d) + tick},
             \/ \E minimum, maximum \in (-1)..MaxAge : AskBirth(at, Naive, minimum, maximum)
             \/ \E z \in Zones, age \in 0..MaxAge : AskBirth(at, z, age, age)
      PROVE  BirthInv'
  BY <1>1, Moments, Clocks, BirthAsked DEF Clock
<1>2. ASSUME inquiry'.op # "birth"
      PROVE  BirthInv'
  BY <1>2 DEF BirthInv, AgeInRange
<1>3. ASSUME NEW at, NEW z, NEW period, NEW before, NEW after, NEW dated,
             AskThis(at, z, period, before, after, dated)
      PROVE  inquiry'.op # "birth"
  BY <1>3 DEF AskThis, Called
<1>4. ASSUME NEW at, NEW op \in {"future", "past", "between", "delta"}, NEW dated, NEW z,
             NEW low, NEW high, AskRelative(at, op, dated, z, low, high)
      PROVE  inquiry'.op # "birth"
  BY <1>4 DEF AskRelative, AskBounds, Called
<1>5. ASSUME NEW at, NEW z, NEW ahead, NEW low, NEW high,
             \/ AskBounds(at, "dates", FALSE, z, ahead, low, high)
             \/ AskUntil(at, z, high)
      PROVE  inquiry'.op # "birth"
  BY <1>5 DEF AskUntil, AskBounds, Called
<1>6. ASSUME ReadLow \/ ReadHigh \/ Tick
      PROVE  BirthInv'
  <2>1. inquiry.op # "birth" /\ inquiry' = inquiry
    BY <1>6 DEF ReadLow, ReadHigh, Tick, BirthInv
  <2> QED
    BY <1>2, <2>1
<1>7. ASSUME NEW t \in (from..(from + Margin)) \cup ((to - Margin)..to), DrawTime(t)
      PROVE  BirthInv'
  <2>1. t \in Int
    OBVIOUS
  <2>2. CASE inquiry.op = "birth"
    BY <1>7, <2>1, <2>2, BirthDrawn
  <2>3. CASE inquiry.op # "birth"
    BY <1>2, <1>7, <2>3 DEF DrawTime
  <2> QED
    BY <2>2, <2>3
<1>8. CASE GotDate
  BY <1>2, <1>8 DEF GotDate, NoInquiry
<1>9. CASE UNCHANGED dateVars
  BY <1>9 DEF dateVars, BirthInv, AgeInRange, BirthDraw
<1> QED
  BY <1>1, <1>2, <1>3, <1>4, <1>5, <1>6, <1>7, <1>8, <1>9 DEF DateNext

\* Whoever asks for somebody of an age from minimum to maximum gets one, on any
\* day of any year, in any zone and for any ages (date_time.rs:553-602, lib.rs:1364-1394).
THEOREM AgeTheorem == DateSpec => []AgeInRange
<1>1. DateInit => BirthInv
  BY DEF DateInit, BirthInv, AgeInRange, NoInquiry
<1>2. BirthInv => AgeInRange
  BY DEF BirthInv
<1> QED
  BY <1>1, <1>2, BirthNext, PTL DEF DateSpec

-----------------------------------------------------------------------------
(* This century, decade, year and month                                    *)

Periods == {"century", "decade", "year", "month"}

\* Days s to x of what a period of day n is asked for, of all the days s to e of
\* the period itself: only one that the last year cuts off ends before it is over.
Spans(n, period, dated, s, x, e) ==
  LET today == DateOf(n)
      start == PeriodStart(period, today)
      end == PeriodEnd(period, today, dated)
  IN  /\ start \in [year : Int, month : 1..12, day : Int]
      /\ s = Ordinal(start) /\ x = Ordinal(end)
      /\ s \in Int /\ x \in Int /\ e \in Int
      /\ s <= n /\ n < e /\ x <= e
      /\ \A k \in Int : s <= k /\ k < e => PeriodStart(period, DateOf(k)) = start
      /\ \A k \in Int : s <= k => start.year <= DateOf(k).year
      /\ today.year <= MaxYear =>
           /\ \A k \in Int : k < e => DateOf(k).year <= MaxYear
           /\ x <= n =>
                /\ today.year = MaxYear
                /\ \A k \in Int : DateOf(k).year <= MaxYear => k < e
           /\ ~dated /\ end.year > MaxYear => today.year = MaxYear
           /\ ~dated /\ today.year < MaxYear => \A k \in Int : k < x => DateOf(k).year < MaxYear

\* The first of January comes after the days of the years before.
LEMMA FirstDay ==
  ASSUME NEW y \in Int
  PROVE  Ordinal(Ymd(y, 1, 1)) = DaysBefore(y) + 1
<1>1. Ordinal(Ymd(y, 1, 1)) = DaysBefore(y) + MonthDays(y, 1) + 1
  BY OrdinalSum
<1>2. MonthDays(y, 1) = 0
  BY DEF MonthDays
<1> QED
  BY <1>1, <1>2, YearLength

\* The days of the years from y on, and those before.
LEMMA YearSpan ==
  ASSUME NEW y \in Int, NEW k \in Int
  PROVE  DaysBefore(y) + 1 <= k <=> y <= DateOf(k).year
<1>1. PICK b \in Int : b = DaysBefore(y)
  BY YearLength
<1> QED
  BY <1>1, YearFrom

\* The year of a day is a number.
LEMMA DateYear ==
  ASSUME NEW n \in Int
  PROVE  DateOf(n).year \in Int
BY DateShape

\* Years a to b - 1, or those before c that are asked for.
YearsAsked(n, period, dated, a, b, c) ==
  /\ PeriodStart(period, DateOf(n)) = Ymd(a, 1, 1)
  /\ PeriodEnd(period, DateOf(n), dated) = Ymd(c, 1, 1)
  /\ c = b \/ (c = MaxYear /\ MaxYear < b)
  /\ a <= DateOf(n).year /\ DateOf(n).year < b
  /\ \A k \in Int : a <= DateOf(k).year /\ DateOf(k).year < b =>
       PeriodStart(period, DateOf(k)) = Ymd(a, 1, 1)
  /\ DateOf(n).year <= MaxYear =>
       b <= MaxYear + 1 /\ (~dated /\ c > MaxYear => DateOf(n).year = MaxYear)

\* A century, decade or year is the days from its first to before the next.
LEMMA YearsSpan ==
  ASSUME NEW n \in Int, NEW period, NEW dated \in BOOLEAN,
         NEW a \in Int, NEW b \in Int, NEW c \in Int, YearsAsked(n, period, dated, a, b, c)
  PROVE  \E s, x, e \in Int : Spans(n, period, dated, s, x, e)
<1> USE DEF YearsAsked
<1>1. PICK s \in Int, x \in Int, e \in Int :
        s = DaysBefore(a) + 1 /\ x = DaysBefore(c) + 1 /\ e = DaysBefore(b) + 1
  <2>1. DaysBefore(a) \in Int /\ DaysBefore(b) \in Int /\ DaysBefore(c) \in Int
    BY DEF DaysBefore
  <2> QED
    BY <2>1
<1>2. s = Ordinal(Ymd(a, 1, 1)) /\ x = Ordinal(Ymd(c, 1, 1))
  BY <1>1, FirstDay
<1>3. Ymd(a, 1, 1) \in [year : Int, month : 1..12, day : Int] /\ Ymd(a, 1, 1).year = a
  BY DEF Ymd
<1>4. MaxYear \in Int
  BY CalendarAssumption
<1>5. \A k \in Int : /\ DateOf(k).year \in Int
                     /\ s <= k <=> a <= DateOf(k).year
                     /\ k < e <=> DateOf(k).year < b
                     /\ k < x <=> DateOf(k).year < c
  <2> SUFFICES ASSUME NEW k \in Int
               PROVE  /\ DateOf(k).year \in Int
                      /\ s <= k <=> a <= DateOf(k).year
                      /\ k < e <=> DateOf(k).year < b
                      /\ k < x <=> DateOf(k).year < c
    OBVIOUS
  <2>1. DateOf(k).year \in Int
    BY DateYear
  <2>2. s <= k <=> a <= DateOf(k).year
    BY <1>1, YearSpan
  <2>3. e <= k <=> b <= DateOf(k).year
    BY <1>1, YearSpan
  <2>4. x <= k <=> c <= DateOf(k).year
    BY <1>1, YearSpan
  <2> QED
    BY <2>1, <2>2, <2>3, <2>4
<1>6. x <= e
  BY <1>1, <1>4 DEF DaysBefore
<1>7. s <= n /\ n < e
  BY <1>5
<1>8. \A k \in Int : s <= k /\ k < e => PeriodStart(period, DateOf(k)) = Ymd(a, 1, 1)
  BY <1>5
<1>9. ASSUME DateOf(n).year <= MaxYear
      PROVE  /\ \A k \in Int : k < e => DateOf(k).year <= MaxYear
             /\ x <= n =>
                  /\ DateOf(n).year = MaxYear
                  /\ \A k \in Int : DateOf(k).year <= MaxYear => k < e
             /\ ~dated /\ Ymd(c, 1, 1).year > MaxYear => DateOf(n).year = MaxYear
             /\ ~dated /\ DateOf(n).year < MaxYear =>
                  \A k \in Int : k < x => DateOf(k).year < MaxYear
  <2>1. ASSUME NEW k \in Int, k < e
        PROVE  DateOf(k).year <= MaxYear
    BY <1>4, <1>5, <1>9, <2>1
  <2>2. ASSUME x <= n
        PROVE  /\ DateOf(n).year = MaxYear
               /\ \A k \in Int : DateOf(k).year <= MaxYear => k < e
    <3>1. c <= DateOf(n).year /\ DateOf(n).year \in Int
      BY <1>5, <2>2
    <3>2. c = MaxYear /\ MaxYear < b /\ DateOf(n).year = MaxYear
      BY <1>4, <1>9, <3>1
    <3>3. ASSUME NEW k \in Int, DateOf(k).year <= MaxYear
          PROVE  k < e
      BY <1>4, <1>5, <3>2, <3>3
    <3> QED
      BY <3>2, <3>3
  <2>3. Ymd(c, 1, 1).year = c
    BY DEF Ymd
  <2>4. ASSUME ~dated, DateOf(n).year < MaxYear, NEW k \in Int, k < x
        PROVE  DateOf(k).year < MaxYear
    <3>1. c <= MaxYear /\ DateOf(k).year < c /\ DateOf(k).year \in Int
      BY <1>4, <1>5, <1>9, <2>4
    <3> QED
      BY <1>4, <3>1
  <2> QED
    BY <1>9, <2>1, <2>2, <2>3, <2>4
<1>10. \A k \in Int : s <= k => a <= DateOf(k).year
  BY <1>5
<1> QED
  BY <1>2, <1>3, <1>6, <1>7, <1>8, <1>9, <1>10 DEF Spans

\* So is a month.
LEMMA MonthSpan ==
  ASSUME NEW n \in Int, NEW dated \in BOOLEAN
  PROVE  \E s, x, e \in Int : Spans(n, "month", dated, s, x, e)
<1>1. PICK y \in Int, m \in 1..12 :
        /\ YearOf(n, y) /\ MonthOf(n, y, m)
        /\ DateOf(n) = Ymd(y, m, n - (DaysBefore(y) + MonthDays(y, m)))
  BY DateIs
<1>2. DateOf(n).year = y /\ DateOf(n).month = m
  BY <1>1 DEF Ymd
<1>3. PICK s \in Int : s = DaysBefore(y) + MonthDays(y, m) + 1
  <2>1. DaysBefore(y) \in Int /\ MonthDays(y, m) \in Int
    BY DEF DaysBefore, MonthDays
  <2> QED
    BY <2>1
<1>4. PICK e \in Int :
        e = IF m = 12 THEN DaysBefore(y + 1) + 1 ELSE DaysBefore(y) + MonthDays(y, m + 1) + 1
  <2>1. DaysBefore(y) \in Int /\ DaysBefore(y + 1) \in Int /\ MonthDays(y, m + 1) \in Int
    BY DEF DaysBefore, MonthDays
  <2> QED
    BY <2>1
<1>5. PeriodStart("month", DateOf(n)) = Ymd(y, m, 1)
  BY <1>2 DEF PeriodStart
<1>6. PeriodEnd("month", DateOf(n), dated) =
        IF m = 12 THEN Ymd(y + 1, 1, 1) ELSE Ymd(y, m + 1, 1)
  BY <1>5 DEF PeriodEnd, NextMonthStart, Ymd
<1>7. s = Ordinal(Ymd(y, m, 1))
  BY <1>3, OrdinalSum
<1>8. e = Ordinal(PeriodEnd("month", DateOf(n), dated))
  <2>1. CASE m = 12
    BY <1>4, <1>6, <2>1, FirstDay
  <2>2. CASE m # 12
    BY <1>4, <1>6, <2>2, OrdinalSum
  <2> QED
    BY <2>1, <2>2
<1>9. /\ DaysBefore(y) \in Int /\ DaysBefore(y + 1) \in Int
      /\ 0 <= MonthDays(y, m) /\ MonthDays(y, m) \in Int
      /\ DaysBefore(y) + 365 <= DaysBefore(y + 1)
      /\ m # 12 => MonthDays(y, m + 1) <= 365 /\ MonthDays(y, m + 1) \in Int
  BY DEF DaysBefore, MonthDays
<1>10. s <= n /\ n < e
  BY <1>1, <1>3, <1>4, <1>9 DEF YearOf, MonthOf
<1>11. ASSUME NEW k \in Int, s <= k, k < e
       PROVE  PeriodStart("month", DateOf(k)) = Ymd(y, m, 1)
  <2>1. YearOf(k, y) /\ MonthOf(k, y, m)
    BY <1>3, <1>4, <1>9, <1>11 DEF YearOf, MonthOf
  <2>2. DateOf(k) = Ymd(y, m, k - (DaysBefore(y) + MonthDays(y, m)))
    BY <2>1, DateOfIs
  <2> QED
    BY <2>2 DEF PeriodStart, Ymd
<1>12. ASSUME NEW k \in Int
       PROVE  /\ s <= k => y <= DateOf(k).year
              /\ k < e => DateOf(k).year <= y
  <2>1. DaysBefore(y) + 1 <= k <=> y <= DateOf(k).year
    BY YearSpan
  <2>2. DaysBefore(y + 1) + 1 <= k <=> y + 1 <= DateOf(k).year
    BY YearSpan
  <2>3. DateOf(k).year \in Int
    BY DateYear
  <2> QED
    BY <1>3, <1>4, <1>9, <2>1, <2>2, <2>3
<1>13. PeriodEnd("month", DateOf(n), dated).year \in {y, y + 1}
  BY <1>6 DEF Ymd
<1>14. Ymd(y, m, 1) \in [year : Int, month : 1..12, day : Int] /\ Ymd(y, m, 1).year = y
  BY DEF Ymd
<1>15. MaxYear \in Int
  BY CalendarAssumption
<1>16. ASSUME y <= MaxYear
       PROVE  /\ \A k \in Int : k < e => DateOf(k).year <= MaxYear
              /\ PeriodEnd("month", DateOf(n), dated).year > MaxYear => y = MaxYear
              /\ y < MaxYear => \A k \in Int : k < e => DateOf(k).year < MaxYear
  <2>1. \A k \in Int : DateOf(k).year \in Int
    BY DateYear
  <2> QED
    BY <1>12, <1>13, <1>15, <1>16, <2>1
<1>17. Spans(n, "month", dated, s, e, e)
  BY <1>2, <1>5, <1>7, <1>8, <1>10, <1>11, <1>12, <1>14, <1>16 DEF Spans
<1> QED
  BY <1>17

\* So is every period.
LEMMA PeriodSpan ==
  ASSUME NEW n \in Int, NEW period \in Periods, NEW dated \in BOOLEAN
  PROVE  \E s, x, e \in Int : Spans(n, period, dated, s, x, e)
<1>1. PICK y \in Int : y = DateOf(n).year
  BY DateYear
<1>2. MaxYear \in Int /\ MaxYear % 100 = 99
  BY CalendarAssumption
<1>3. \A k \in Int : DateOf(k).year \in Int
  BY DateYear
<1>4. CASE period = "century"
  <2>1. PICK a \in Int : a = y - (y % 100)
    OBVIOUS
  <2>2. PICK c \in Int : c = IF dated THEN a + 100 ELSE Earlier(a + 100, MaxYear)
    BY <1>2 DEF Earlier
  <2>3. PeriodStart(period, DateOf(n)) = Ymd(a, 1, 1)
    BY <1>1, <1>4, <2>1 DEF PeriodStart
  <2>4. PeriodEnd(period, DateOf(n), dated) = Ymd(c, 1, 1)
    BY <1>4, <2>2, <2>3 DEF PeriodEnd, Ymd
  <2>5. a <= y /\ y < a + 100 /\ (y <= MaxYear => a + 100 <= MaxYear + 1)
    BY <1>2, <2>1
  <2>6. c = a + 100 \/ (c = MaxYear /\ MaxYear < a + 100)
    BY <1>2, <2>2 DEF Earlier
  <2>7. ~dated => c <= MaxYear
    BY <1>2, <2>2 DEF Earlier
  <2>8. ASSUME NEW k \in Int, a <= DateOf(k).year, DateOf(k).year < a + 100
        PROVE  PeriodStart(period, DateOf(k)) = Ymd(a, 1, 1)
    <3>1. PICK z \in Int : z = DateOf(k).year
      BY <1>3
    <3>2. z - (z % 100) = a
      BY <2>1, <2>8, <3>1
    <3> QED
      BY <1>4, <3>1, <3>2 DEF PeriodStart
  <2>9. YearsAsked(n, period, dated, a, a + 100, c)
    BY <1>1, <1>2, <2>2, <2>3, <2>4, <2>5, <2>6, <2>7, <2>8 DEF YearsAsked
  <2> QED
    BY <2>9, YearsSpan
<1>5. CASE period = "decade"
  <2>1. PICK a \in Int : a = y - (y % 10)
    OBVIOUS
  <2>2. PICK c \in Int : c = IF dated THEN a + 10 ELSE Earlier(a + 10, MaxYear)
    BY <1>2 DEF Earlier
  <2>3. PeriodStart(period, DateOf(n)) = Ymd(a, 1, 1)
    BY <1>1, <1>5, <2>1 DEF PeriodStart
  <2>4. PeriodEnd(period, DateOf(n), dated) = Ymd(c, 1, 1)
    BY <1>5, <2>2, <2>3 DEF PeriodEnd, Ymd
  <2>5. a <= y /\ y < a + 10 /\ (y <= MaxYear => a + 10 <= MaxYear + 1)
    BY <1>2, <2>1
  <2>6. c = a + 10 \/ (c = MaxYear /\ MaxYear < a + 10)
    BY <1>2, <2>2 DEF Earlier
  <2>7. ~dated => c <= MaxYear
    BY <1>2, <2>2 DEF Earlier
  <2>8. ASSUME NEW k \in Int, a <= DateOf(k).year, DateOf(k).year < a + 10
        PROVE  PeriodStart(period, DateOf(k)) = Ymd(a, 1, 1)
    <3>1. PICK z \in Int : z = DateOf(k).year
      BY <1>3
    <3>2. z - (z % 10) = a
      BY <2>1, <2>8, <3>1
    <3> QED
      BY <1>5, <3>1, <3>2 DEF PeriodStart
  <2>9. YearsAsked(n, period, dated, a, a + 10, c)
    BY <1>1, <1>2, <2>2, <2>3, <2>4, <2>5, <2>6, <2>7, <2>8 DEF YearsAsked
  <2> QED
    BY <2>9, YearsSpan
<1>6. CASE period = "year"
  <2>1. PeriodStart(period, DateOf(n)) = Ymd(y, 1, 1)
    BY <1>1, <1>6 DEF PeriodStart
  <2>2. PeriodEnd(period, DateOf(n), dated) = Ymd(y + 1, 1, 1)
    BY <1>1, <1>6 DEF PeriodEnd
  <2>3. ASSUME NEW k \in Int, y <= DateOf(k).year, DateOf(k).year < y + 1
        PROVE  PeriodStart(period, DateOf(k)) = Ymd(y, 1, 1)
    <3>1. PICK z \in Int : z = DateOf(k).year
      BY <1>3
    <3>2. z = y
      BY <2>3, <3>1
    <3> QED
      BY <1>6, <3>1, <3>2 DEF PeriodStart
  <2>4. YearsAsked(n, period, dated, y, y + 1, y + 1)
    BY <1>1, <1>2, <2>1, <2>2, <2>3 DEF YearsAsked
  <2> QED
    BY <2>4, YearsSpan
<1>7. CASE period = "month"
  BY <1>7, MonthSpan
<1> QED
  BY <1>4, <1>5, <1>6, <1>7 DEF Periods

-----------------------------------------------------------------------------
(* Seconds, and clocks that are set                                        *)

\* A full second is a multiple of one.
LEMMA WholeIs ==
  ASSUME NEW t \in Int
  PROVE  Whole(t) <=> \E q \in Int : t = q * Ticks
<1>1. ASSUME NEW q \in Int, t = q * Ticks PROVE Whole(t)
  <2>1. (q * Ticks) % Ticks = 0
    BY Positive
  <2> QED
    BY <1>1, <2>1 DEF Whole
<1>2. ASSUME Whole(t) PROVE \E q \in Int : t = q * Ticks
  <2>1. t % Ticks = t - (t \div Ticks) * Ticks /\ t \div Ticks \in Int
    BY Positive, Rounding
  <2>2. PICK q \in Int : q = t \div Ticks
    BY <2>1
  <2>3. q * Ticks \in Int
    BY Positive
  <2>4. t = q * Ticks
    BY <1>2, <2>1, <2>2, <2>3 DEF Whole
  <2> QED
    BY <2>4
<1> QED
  BY <1>1, <1>2

\* Between full seconds are full seconds.
LEMMA WholeDifference ==
  ASSUME NEW s \in Int, NEW t \in Int, Whole(s), Whole(t)
  PROVE  Whole(s - t)
<1>1. PICK p \in Int : s = p * Ticks
  BY WholeIs
<1>2. PICK q \in Int : t = q * Ticks
  BY WholeIs
<1>3. s - t = (p - q) * Ticks
  BY <1>1, <1>2, Positive
<1>4. p - q \in Int /\ s - t \in Int
  OBVIOUS
<1> QED
  BY <1>3, <1>4, WholeIs

\* Midnight is on a second.
LEMMA WholeMidnight ==
  ASSUME NEW n \in Int
  PROVE  Whole(n * DayTicks)
<1>1. n * DayTicks \in Int /\ n * DaySeconds \in Int
  BY CalendarAssumption, Positive
<1>2. n * DayTicks = (n * DaySeconds) * Ticks
  <2>1. n * (Ticks * DaySeconds) = (n * DaySeconds) * Ticks
    BY CalendarAssumption
  <2> QED
    BY <2>1 DEF DayTicks
<1> QED
  BY <1>1, <1>2, WholeIs

\* The last full second that is not after t.
LEMMA FloorSecondIs ==
  ASSUME NEW t \in Int
  PROVE  /\ FloorSecond(t) \in Int /\ Whole(FloorSecond(t))
         /\ FloorSecond(t) <= t /\ t < FloorSecond(t) + Ticks
         /\ \A s \in Int : Whole(s) /\ s <= t => s <= FloorSecond(t)
<1>1. PICK q \in Int : q = t \div Ticks
  BY Positive, Rounding
<1>2. q * Ticks \in Int /\ q * Ticks <= t /\ t < q * Ticks + Ticks /\ t % Ticks = t - q * Ticks
  BY <1>1, Positive, Rounding
<1>3. FloorSecond(t) = q * Ticks
  BY <1>2 DEF FloorSecond
<1>4. ASSUME NEW s \in Int, Whole(s), s <= t
      PROVE  s <= FloorSecond(t)
  <2>1. PICK p \in Int : s = p * Ticks
    BY <1>4, WholeIs
  <2>2. p <= q
    BY <1>1, <1>4, <2>1, Positive, LastMultiple
  <2> QED
    BY <1>3, <2>1, <2>2, Positive, Scaling
<1> QED
  BY <1>2, <1>3, <1>4, WholeIs

\* A time that the clock shows once, or is set on or back to just then, counts at
\* the first instant from which on the clock shows it or a later one.
LEMMA InstantIs ==
  ASSUME NEW z, Clock(z), NEW w \in Int
  PROVE  /\ Instant(z, w) \in Int
         /\ Whole(w) => Whole(Instant(z, w))
<1>1. PICK off \in Int : Whole(off) /\ Instant(z, w) = w - off
  <2>1. z.old \in Int /\ z.new \in Int /\ Whole(z.old) /\ Whole(z.new)
    BY DEF Clock
  <2>2. Instant(z, w) = w - z.old \/ Instant(z, w) = w - z.new
    BY DEF Instant
  <2> QED
    BY <2>1, <2>2
<1>2. Whole(w) => Whole(w - off)
  BY <1>1, WholeDifference
<1> QED
  BY <1>1, <1>2

\* Such a time is not after what the clock shows at t exactly if its instant is not after t.
LEMMA InstantWall ==
  ASSUME NEW z, Clock(z), NEW w \in Int, NEW t \in Int,
         \/ w <= z.turn + z.old /\ w <= z.turn + z.new
         \/ w >= z.turn + z.old /\ w >= z.turn + z.new
  PROVE  Instant(z, w) <= t <=> w <= Wall(z, t)
<1>1. PICK u \in Int, a \in Int, b \in Int : u = z.turn /\ a = z.old /\ b = z.new
  BY DEF Clock
<1> QED
  BY <1>1 DEF Instant, Wall, OffsetAt

\* A clock shows a number ...
LEMMA WallType ==
  ASSUME NEW z, Clock(z), NEW t \in Int
  PROVE  Wall(z, t) \in Int
BY DEF Clock, Wall, OffsetAt

\* ... and that of naive times the time.
LEMMA NaiveWall ==
  ASSUME NEW t \in Int
  PROVE  Wall(Naive, t) = t
BY DEF Wall, OffsetAt, Naive

\* Later days are not in earlier years.
LEMMA YearsInOrder ==
  ASSUME NEW i \in Int, NEW j \in Int, i <= j
  PROVE  DateOf(i).year <= DateOf(j).year
<1>1. PICK y \in Int, z \in Int : y = DateOf(i).year /\ z = DateOf(j).year
  BY DateYear
<1>2. PICK b \in Int : b = DaysBefore(y)
  BY YearLength
<1>3. b + 1 <= i
  BY <1>1, <1>2, YearSpan
<1>4. b + 1 <= j
  BY <1>3
<1> QED
  BY <1>1, <1>2, <1>4, YearSpan

\* Later moments are not on earlier days.
LEMMA DaysInOrder ==
  ASSUME NEW s \in Int, NEW t \in Int, s <= t
  PROVE  s \div DayTicks <= t \div DayTicks
<1>1. PICK p \in Int : p = s \div DayTicks
  BY DayOf
<1>2. p * DayTicks <= s /\ p * DayTicks \in Int
  BY <1>1, DayOf, MidnightDay
<1> QED
  BY <1>1, <1>2, DayOf

\* Whole days on from a moment are as many days on.
LEMMA ShiftedDay ==
  ASSUME NEW t \in Int, NEW k \in Int
  PROVE  t + k * DayTicks \in Int /\ (t + k * DayTicks) \div DayTicks = t \div DayTicks + k
<1>1. PICK q \in Int : q = t \div DayTicks
  BY DayOf
<1>2. q * DayTicks <= t /\ ~((q + 1) * DayTicks <= t)
  BY <1>1, DayOf
<1>3. /\ q * DayTicks \in Int /\ (q + 1) * DayTicks \in Int /\ k * DayTicks \in Int
      /\ (q + k) * DayTicks = q * DayTicks + k * DayTicks
      /\ (q + k + 1) * DayTicks = (q + 1) * DayTicks + k * DayTicks
  BY Positive
<1>4. PICK s \in Int : s = t + k * DayTicks
  BY <1>3
<1>5. (q + k) * DayTicks <= s /\ ~((q + k + 1) * DayTicks <= s)
  BY <1>2, <1>3, <1>4
<1>6. q + k <= s \div DayTicks /\ ~(q + k + 1 <= s \div DayTicks) /\ s \div DayTicks \in Int
  BY <1>5, DayOf
<1> QED
  BY <1>1, <1>4, <1>6

\* Less than a day away is the same day or a day next to it.
LEMMA NearDay ==
  ASSUME NEW t \in Int, NEW off \in ZoneOffsets
  PROVE  /\ t + off \in Int
         /\ t \div DayTicks - 1 <= (t + off) \div DayTicks
         /\ (t + off) \div DayTicks <= t \div DayTicks + 1
<1>1. off \in Int /\ -DayTicks <= off /\ off <= DayTicks
  BY Positive DEF ZoneOffsets
<1>2. PICK a \in Int, b \in Int :
        /\ a = t - DayTicks /\ b = t + DayTicks
        /\ a \div DayTicks = t \div DayTicks - 1 /\ b \div DayTicks = t \div DayTicks + 1
  <2>1. PICK k \in Int : k = -1
    OBVIOUS
  <2>2. (t + k * DayTicks) \div DayTicks = t \div DayTicks + k
    BY ShiftedDay
  <2>3. (t + 1 * DayTicks) \div DayTicks = t \div DayTicks + 1
    BY ShiftedDay
  <2>4. t + k * DayTicks = t - DayTicks /\ t + 1 * DayTicks = t + DayTicks
    BY <2>1, Positive
  <2>5. t \div DayTicks + k = t \div DayTicks - 1
    BY <2>1, DayOf
  <2> QED
    BY <2>2, <2>3, <2>4, <2>5, Positive
<1>3. PICK x \in Int : x = t + off /\ a <= x /\ x <= b
  BY <1>1, <1>2, Positive
<1>4. a \div DayTicks <= x \div DayTicks /\ x \div DayTicks <= b \div DayTicks
  BY <1>2, <1>3, DaysInOrder
<1> QED
  BY <1>2, <1>3, <1>4

\* So a clock shows what is less than a day away.
LEMMA WallNear ==
  ASSUME NEW z, Clock(z), NEW t \in Int
  PROVE  /\ Wall(z, t) \in Int
         /\ t \div DayTicks - 1 <= Wall(z, t) \div DayTicks
         /\ Wall(z, t) \div DayTicks <= t \div DayTicks + 1
<1>1. PICK off \in ZoneOffsets : Wall(z, t) = t + off
  BY DEF Clock, Wall, OffsetAt
<1> QED
  BY <1>1, NearDay

\* The instants that bound what of a period may be drawn, and where now is.
PeriodBounds(at, z, period, dated, n, s, x, first, last, now) ==
  /\ first \in Int /\ last \in Int /\ now \in Int
  /\ first <= now /\ now <= at
  /\ first = Boundary(z, PeriodStart(period, DateOf(n)), at)
  /\ last = Boundary(z, PeriodEnd(period, DateOf(n), dated), at)
  /\ now = IF dated THEN Midnight(DateOf(n)) ELSE FloorSecond(at)
  /\ n < x => at < last
  /\ \A t \in Int : /\ first <= t <=> s <= Wall(z, t) \div DayTicks
                    /\ last <= t <=> x <= Wall(z, t) \div DayTicks

\* The bounds drawn between are those of the period, cut at now on the side asked for.
LEMMA BoundsOf ==
  ASSUME NEW at \in Int, NEW z, Clock(z), NEW period \in Periods, NEW dated \in BOOLEAN,
         dated => z = Naive, NEW n \in Int, n = Wall(z, at) \div DayTicks,
         NEW s \in Int, NEW x \in Int, NEW e \in Int, Spans(n, period, dated, s, x, e),
         Shown(z, PeriodStart(period, DateOf(n))), Shown(z, PeriodEnd(period, DateOf(n), dated))
  PROVE  \E first, last, now \in Int :
           PeriodBounds(at, z, period, dated, n, s, x, first, last, now)
<1>1. PICK first \in Int : first = Instant(z, s * DayTicks)
  BY Positive, InstantIs
<1>2. PICK last \in Int : last = Instant(z, x * DayTicks)
  BY Positive, InstantIs
<1>3. /\ s * DayTicks = Midnight(PeriodStart(period, DateOf(n)))
      /\ x * DayTicks = Midnight(PeriodEnd(period, DateOf(n), dated))
  BY DEF Spans, Midnight
<1>4. s * DayTicks \in Int /\ x * DayTicks \in Int
  BY Positive
<1>5. ASSUME NEW t \in Int
      PROVE  /\ first <= t <=> s <= Wall(z, t) \div DayTicks
             /\ last <= t <=> x <= Wall(z, t) \div DayTicks
  <2>1. Wall(z, t) \in Int
    BY WallType
  <2>2. first <= t <=> s * DayTicks <= Wall(z, t)
    BY <1>1, <1>3, <1>4, InstantWall DEF Shown
  <2>3. last <= t <=> x * DayTicks <= Wall(z, t)
    BY <1>2, <1>3, <1>4, InstantWall DEF Shown
  <2> QED
    BY <2>1, <2>2, <2>3, DayOf
<1>6. s <= n
  BY DEF Spans
<1>7. first <= at /\ (n < x => at < last)
  BY <1>5, <1>6
<1>8. PICK now \in Int : now = IF dated THEN n * DayTicks ELSE FloorSecond(at)
  BY Positive, FloorSecondIs
<1>9. first <= now /\ now <= at
  <2>1. CASE dated
    <3>1. Wall(z, at) = at /\ Wall(z, now) = now
      BY <2>1, NaiveWall
    <3>2. now <= at
      BY <1>8, <2>1, <3>1, DayOf
    <3>3. now \div DayTicks = n
      BY <1>8, <2>1, MidnightDay
    <3> QED
      BY <1>5, <1>6, <3>1, <3>2, <3>3
  <2>2. CASE ~dated
    <3>1. Whole(first)
      BY <1>1, <1>4, WholeMidnight, InstantIs
    <3> QED
      BY <1>7, <1>8, <2>2, <3>1, FloorSecondIs
  <2> QED
    BY <2>1, <2>2
<1>10. PeriodBounds(at, z, period, dated, n, s, x, first, last, now)
  BY <1>1, <1>2, <1>3, <1>5, <1>7, <1>8, <1>9, MidnightOf DEF PeriodBounds, Boundary
<1> QED
  BY <1>10

\* A call for this period, and what it draws between.
ThisCall ==
  /\ inquiry.at \in Int /\ Clock(inquiry.zone) /\ inquiry.period \in Periods
  /\ inquiry.before \in BOOLEAN /\ inquiry.after \in BOOLEAN
  /\ inquiry.dated \in BOOLEAN /\ (inquiry.dated => inquiry.zone = Naive)

ThisDraw ==
  LET z == inquiry.zone
      today == DateAt(Wall(z, inquiry.at))
      now == IF inquiry.dated THEN Midnight(today) ELSE FloorSecond(inquiry.at)
      start == PeriodStart(inquiry.period, today)
      end == PeriodEnd(inquiry.period, today, inquiry.dated)
  IN  /\ today.year \in 1..MaxYear /\ (inquiry.before \/ inquiry.after)
      /\ from = IF inquiry.before THEN Boundary(z, start, inquiry.at) ELSE now
      /\ to = IF inquiry.after THEN Boundary(z, end, inquiry.at) ELSE now
      /\ from <= to

ThisInv ==
  /\ inquiry.op = "this" => dating \in {"drawing", "done", "failed"} /\ ThisCall
  /\ inquiry.op = "this" /\ dating = "drawing" => ThisDraw
  /\ WithinPeriod

\* What WithinPeriod says of an answer, of an error.
AnswerWithin(at, z, period, before, after, dated, n, a) ==
  LET now == IF dated THEN Midnight(DateOf(n)) ELSE at
  IN  /\ PeriodStart(period, DateAt(Wall(z, a))) = PeriodStart(period, DateOf(n))
      /\ ~after => a <= now
      /\ ~before => a >= (IF dated THEN now ELSE FloorSecond(now))

AtTheEdge(period, n) ==
  DateOf(n).year >= MaxYear \/ PeriodStart(period, DateOf(n)).year <= 1

\* What is drawn between them is in the period.
LEMMA ThisDrawn ==
  ASSUME ThisInv, inquiry.op = "this", NEW draw \in Int, DrawTime(draw)
  PROVE  ThisInv'
<1>1. ThisCall /\ ThisDraw /\ inquiry' = inquiry
  BY DEF ThisInv, DrawTime
<1>2. PICK at \in Int, z \in {inquiry.zone}, period \in Periods,
           before \in BOOLEAN, after \in BOOLEAN, dated \in BOOLEAN :
        /\ at = inquiry.at /\ z = inquiry.zone /\ period = inquiry.period
        /\ before = inquiry.before /\ after = inquiry.after /\ dated = inquiry.dated
  BY <1>1, Zenon DEF ThisCall
<1>3. Clock(z) /\ (dated => z = Naive) /\ (before \/ after)
  BY <1>1, <1>2 DEF ThisCall, ThisDraw
<1>4. PICK n \in Int : n = Wall(z, at) \div DayTicks
  BY <1>3, WallType, DayOf
<1>5. DateAt(Wall(z, at)) = DateOf(n) /\ DateOf(n).year \in 1..MaxYear
  BY <1>1, <1>2, <1>4 DEF ThisDraw, DateAt
<1>6. PICK start, end :
        start = PeriodStart(period, DateOf(n)) /\ end = PeriodEnd(period, DateOf(n), dated)
  OBVIOUS
<1>7. ASSUME Shown(z, start), Shown(z, end)
      PROVE  /\ dating' = "done" => AnswerWithin(at, z, period, before, after, dated, n, answer')
             /\ dating' = "failed" => AtTheEdge(period, n)
  <2>1. PICK s \in Int, x \in Int, e \in Int : Spans(n, period, dated, s, x, e)
    BY PeriodSpan
  <2>2. PICK first \in Int, last \in Int, now \in Int :
          PeriodBounds(at, z, period, dated, n, s, x, first, last, now)
    BY <1>3, <1>4, <1>6, <1>7, <2>1, BoundsOf
  <2>3. /\ first <= now /\ now <= at
        /\ now = IF dated THEN Midnight(DateOf(n)) ELSE FloorSecond(at)
        /\ n < x => at < last
        /\ \A t \in Int : /\ first <= t <=> s <= Wall(z, t) \div DayTicks
                          /\ last <= t <=> x <= Wall(z, t) \div DayTicks
    BY <2>2 DEF PeriodBounds
  <2>4. /\ from = IF before THEN first ELSE now
        /\ to = IF after THEN last ELSE now
        /\ from <= to
    BY <1>1, <1>2, <1>5, <2>2 DEF ThisDraw, PeriodBounds
  <2>5. first <= draw /\ (~before => now <= draw) /\ (~after => draw <= now)
    BY <2>3, <2>4 DEF DrawTime
  <2>6. n < x => draw < last
    BY <1>3, <2>3, <2>4, <2>5 DEF DrawTime
  <2>7. PICK k \in Int : k = Wall(z, draw) \div DayTicks
    BY <1>3, WallType, DayOf
  <2>8. s <= k /\ (n < x => k < x)
    BY <2>3, <2>5, <2>6, <2>7
  <2>9. CASE dating' = "failed"
    <3>1. PICK j \in Int : j = draw \div DayTicks /\ j - 1 <= k /\ k <= j + 1
      BY <1>3, <2>7, WallNear, DayOf
    <3>2. DateOf(k).year \notin 1..MaxYear \/ DateOf(j).year \notin 1..MaxYear
      <4>1. inquiry.op # "birth" /\ Wall(inquiry.zone, draw) = Wall(z, draw)
        BY <1>2
      <4> QED
        BY <2>7, <2>9, <3>1, <4>1 DEF DrawTime, BadYear, DateAt
    <3>3. /\ DateOf(k).year \in Int /\ DateOf(j).year \in Int /\ DateOf(n).year \in Int
          /\ MaxYear \in Int /\ PeriodStart(period, DateOf(n)).year \in Int
      BY <2>1, DateYear, CalendarAssumption DEF Spans
    <3>4. CASE DateOf(j).year < 1
      <4>1. DaysBefore(1) + 1 = 1 /\ DaysBefore(2) + 1 = 366
        BY DEF DaysBefore
      <4>2. ~(1 <= j)
        BY <3>3, <3>4, <4>1, YearSpan
      <4>3. ~(2 <= DateOf(k).year)
        BY <3>1, <4>1, <4>2, YearSpan
      <4>4. PeriodStart(period, DateOf(n)).year <= DateOf(k).year
        BY <2>1, <2>8 DEF Spans
      <4> QED
        BY <2>9, <3>3, <4>3, <4>4 DEF AtTheEdge
    <3>5. CASE DateOf(j).year > MaxYear
      <4>1. PICK a \in Int, b \in Int :
              a = DaysBefore(MaxYear) /\ b = DaysBefore(MaxYear + 1) /\ a + 365 <= b
        <5>1. /\ DaysBefore(MaxYear) \in Int
              /\ DaysBefore(MaxYear + 1) =
                   DaysBefore(MaxYear) + (IF Leap(MaxYear) THEN 366 ELSE 365)
          BY <3>3, YearLength
        <5> QED
          BY <5>1
      <4>2. b + 1 <= j
        BY <3>3, <3>5, <4>1, YearSpan
      <4>3. a + 1 <= k
        BY <3>1, <4>1, <4>2
      <4>4. MaxYear <= DateOf(k).year
        BY <3>3, <4>1, <4>3, YearSpan
      <4>5. CASE dated
        <5>1. k = j
          BY <1>3, <2>7, <3>1, <4>5, NaiveWall
        <5>2. ~(k < e)
          BY <1>5, <2>1, <3>3, <3>5, <5>1 DEF Spans
        <5>3. x <= n
          BY <2>1, <2>8, <5>2 DEF Spans
        <5>4. DateOf(n).year = MaxYear
          BY <1>5, <2>1, <5>3 DEF Spans
        <5> QED
          BY <2>9, <3>3, <5>4 DEF AtTheEdge
      <4>6. CASE ~dated
        <5>1. ASSUME DateOf(n).year < MaxYear PROVE FALSE
          <6>1. ~(x <= n)
            BY <1>5, <2>1, <3>3, <5>1 DEF Spans
          <6>2. k < x
            BY <2>1, <2>8, <6>1 DEF Spans
          <6>3. DateOf(k).year < MaxYear
            BY <1>5, <2>1, <4>6, <5>1, <6>2 DEF Spans
          <6> QED
            BY <3>3, <4>4, <6>3
        <5> QED
          BY <2>9, <3>3, <5>1 DEF AtTheEdge
      <4> QED
        BY <4>5, <4>6
    <3>6. CASE DateOf(k).year < 1
      <4>1. PeriodStart(period, DateOf(n)).year <= DateOf(k).year
        BY <2>1, <2>8 DEF Spans
      <4> QED
        BY <2>9, <3>3, <3>6, <4>1 DEF AtTheEdge
    <3>7. CASE DateOf(k).year > MaxYear
      <4>1. ~(k < e)
        BY <1>5, <2>1, <3>3, <3>7 DEF Spans
      <4>2. x <= n
        BY <2>1, <2>8, <4>1 DEF Spans
      <4>3. DateOf(n).year = MaxYear
        BY <1>5, <2>1, <4>2 DEF Spans
      <4> QED
        BY <2>9, <3>3, <4>3 DEF AtTheEdge
    <3> QED
      BY <3>2, <3>3, <3>4, <3>5, <3>6, <3>7
  <2>10. CASE dating' = "done"
    <3>1. /\ DateOf(k).year \in 1..MaxYear
          /\ answer' = IF dated THEN Midnight(DateAt(draw)) ELSE draw
      <4>1. inquiry.op # "birth" /\ inquiry.op # "delta" /\ Wall(inquiry.zone, draw) = Wall(z, draw)
        BY <1>2
      <4> QED
        BY <1>2, <2>7, <2>10, <4>1 DEF DrawTime, BadYear, DateAt, Failed
    <3>2. k < e
      <4>1. CASE n < x
        BY <2>1, <2>8, <4>1 DEF Spans
      <4>2. CASE x <= n
        BY <1>5, <2>1, <3>1, <4>2 DEF Spans
      <4> QED
        BY <4>1, <4>2
    <3>3. PeriodStart(period, DateOf(k)) = PeriodStart(period, DateOf(n))
      BY <2>1, <2>8, <3>2 DEF Spans
    <3>4. CASE dated
      <4>1. z = Naive /\ k = draw \div DayTicks
        BY <1>3, <2>7, <3>4, NaiveWall
      <4>2. answer' = k * DayTicks
        BY <3>1, <3>4, <4>1, MidnightOf DEF DateAt
      <4>3. answer' \in Int /\ answer' \div DayTicks = k /\ answer' <= draw
        BY <4>1, <4>2, MidnightDay, DayOf
      <4>4. DateAt(Wall(z, answer')) = DateOf(k)
        BY <4>1, <4>3, NaiveWall DEF DateAt
      <4>5. now = n * DayTicks
        BY <2>3, <3>4, MidnightOf
      <4>6. ~before => now <= answer'
        <5>1. ~before => n <= k
          BY <2>5, <4>1, <4>5, DayOf
        <5>2. n <= k => n * DayTicks <= k * DayTicks
          BY Positive, Scaling
        <5> QED
          BY <4>2, <4>5, <5>1, <5>2
      <4> QED
        BY <2>3, <2>5, <2>10, <3>3, <3>4, <4>3, <4>4, <4>6 DEF AnswerWithin
    <3>5. CASE ~dated
      <4>1. answer' = draw /\ DateAt(Wall(z, draw)) = DateOf(k)
        BY <2>7, <3>1, <3>5 DEF DateAt
      <4> QED
        BY <2>3, <2>5, <2>10, <3>3, <3>5, <4>1 DEF AnswerWithin
    <3> QED
      BY <3>4, <3>5
  <2> QED
    BY <2>9, <2>10
<1>8. dating' \in {"done", "failed"}
  BY DEF DrawTime, Failed
<1> QED
  BY <1>1, <1>2, <1>5, <1>6, <1>7, <1>8 DEF ThisInv, ThisCall, WithinPeriod, AnswerWithin, AtTheEdge

\* A call of a *_this_* method bounds the draw so.
LEMMA ThisAsked ==
  ASSUME NEW at \in Int, DateAt(at).year \in 1..MaxYear, NEW z \in {Naive} \cup Zones,
         NEW period \in Periods, NEW before \in BOOLEAN, NEW after \in BOOLEAN,
         NEW dated \in BOOLEAN, dated => z = Naive, AskThis(at, z, period, before, after, dated)
  PROVE  ThisInv'
<1>1. /\ inquiry'.op = "this" /\ inquiry'.at = at /\ inquiry'.zone = z
      /\ inquiry'.period = period /\ inquiry'.before = before /\ inquiry'.after = after
      /\ inquiry'.dated = dated
  BY DEF AskThis, Called
<1>2. Clock(z)
  BY Clocks
<1>3. ThisCall'
  BY <1>1, <1>2, Zenon DEF ThisCall
<1>4. PICK n \in Int : n = Wall(z, at) \div DayTicks
  BY <1>2, WallType, DayOf
<1>5. DateAt(Wall(z, at)) = DateOf(n)
  BY <1>4 DEF DateAt
<1>6. PICK start, end :
        start = PeriodStart(period, DateOf(n)) /\ end = PeriodEnd(period, DateOf(n), dated)
  OBVIOUS
<1>7. PICK now : now = IF dated THEN Midnight(DateOf(n)) ELSE FloorSecond(at)
  OBVIOUS
<1>8. PICK s \in Int, x \in Int, e \in Int : Spans(n, period, dated, s, x, e)
  BY PeriodSpan
<1>9. DateOf(n).year \in Int /\ MaxYear \in Int /\ start.year \in Int /\ start.year <= DateOf(n).year
  BY <1>6, <1>8, DateYear, CalendarAssumption DEF Spans
<1>10. ASSUME z = Naive \/ ~BadYear(Wall(z, at))
       PROVE  DateOf(n).year \in 1..MaxYear
  <2>1. CASE z = Naive
    BY <1>5, <2>1, NaiveWall
  <2>2. CASE ~BadYear(Wall(z, at))
    BY <1>5, <2>2 DEF BadYear
  <2> QED
    BY <1>10, <2>1, <2>2
<1>11. CASE /\ z # Naive
            /\ BadYear(Wall(z, at)) \/ (before /\ start.year < 1) \/ (after /\ end.year > MaxYear)
  <2>1. dating' = "failed"
    BY <1>5, <1>6, <1>11 DEF AskThis, Failed
  <2>2. AtTheEdge(period, n)
    <3>1. CASE BadYear(Wall(z, at))
      BY <1>5, <1>6, <1>9, <3>1 DEF BadYear, AtTheEdge
    <3>2. CASE start.year < 1
      BY <1>6, <1>9, <3>2 DEF AtTheEdge
    <3>3. CASE end.year > MaxYear
      <4>1. ~dated
        BY <1>11
      <4>2. DateOf(n).year <= MaxYear => DateOf(n).year = MaxYear
        BY <1>6, <1>8, <3>3, <4>1 DEF Spans
      <4> QED
        BY <1>9, <4>2 DEF AtTheEdge
    <3> QED
      BY <1>11, <3>1, <3>2, <3>3
  <2> QED
    BY <1>1, <1>3, <1>5, <2>1, <2>2 DEF ThisInv, WithinPeriod, AtTheEdge
<1>12. CASE /\ ~(/\ z # Naive
                 /\ BadYear(Wall(z, at)) \/ (before /\ start.year < 1) \/ (after /\ end.year > MaxYear))
            /\ before \/ after
  <2>1. PICK a, b : /\ a = IF before THEN Boundary(z, start, at) ELSE now
                    /\ b = IF after THEN Boundary(z, end, at) ELSE now
    OBVIOUS
  <2>2. Bounded(a, b)
    BY <1>5, <1>6, <1>7, <1>12, <2>1 DEF AskThis
  <2>3. DateOf(n).year \in 1..MaxYear
    BY <1>10, <1>12
  <2>4. ASSUME Shown(z, start), Shown(z, end), a > b
        PROVE  AtTheEdge(period, n)
    <3>1. PICK first \in Int, last \in Int, nw \in Int :
            PeriodBounds(at, z, period, dated, n, s, x, first, last, nw)
      BY <1>2, <1>4, <1>6, <1>8, <2>4, BoundsOf
    <3>2. /\ nw = now /\ first <= now /\ now <= at /\ (n < x => at < last)
          /\ first = Boundary(z, start, at) /\ last = Boundary(z, end, at)
      BY <1>6, <1>7, <3>1 DEF PeriodBounds
    <3>3. ~(n < x)
      BY <2>1, <2>4, <3>2
    <3>4. DateOf(n).year = MaxYear
      BY <1>8, <2>3, <3>3 DEF Spans
    <3> QED
      BY <1>9, <3>4 DEF AtTheEdge
  <2>5. CASE a > b
    <3>1. dating' = "failed"
      BY <2>2, <2>5 DEF Bounded, Failed
    <3> QED
      BY <1>1, <1>3, <1>5, <1>6, <2>4, <2>5, <3>1 DEF ThisInv, WithinPeriod, AtTheEdge
  <2>6. CASE ~(a > b)
    <3>1. dating' = "drawing" /\ from' = a /\ to' = b
      BY <2>2, <2>6 DEF Bounded
    <3>2. a \in Int /\ b \in Int
      <4>1. Midnight(start) \in Int /\ Midnight(end) \in Int
        BY <1>6, <1>8, Positive DEF Spans, Midnight
      <4>2. Boundary(z, start, at) \in Int /\ Boundary(z, end, at) \in Int
        BY <1>2, <4>1, InstantIs DEF Boundary
      <4>3. now \in Int
        BY <1>7, MidnightOf, MidnightDay, FloorSecondIs
      <4> QED
        BY <2>1, <4>2, <4>3
    <3>3. ThisDraw'
      BY <1>1, <1>5, <1>6, <1>7, <1>12, <2>1, <2>3, <2>6, <3>1, <3>2 DEF ThisDraw
    <3> QED
      BY <1>1, <1>3, <3>1, <3>3 DEF ThisInv, WithinPeriod
  <2> QED
    BY <2>5, <2>6
<1>13. CASE /\ ~(/\ z # Naive
                 /\ BadYear(Wall(z, at)) \/ (before /\ start.year < 1) \/ (after /\ end.year > MaxYear))
            /\ ~before /\ ~after
  <2>1. dating' = "done" /\ answer' = IF dated THEN Midnight(DateOf(n)) ELSE at
    BY <1>5, <1>6, <1>13 DEF AskThis
  <2>2. AnswerWithin(at, z, period, before, after, dated, n, answer')
    <3>1. CASE dated
      <4>1. answer' = n * DayTicks /\ z = Naive
        BY <2>1, <3>1, MidnightOf
      <4>2. answer' \in Int /\ answer' \div DayTicks = n
        BY <4>1, MidnightDay
      <4>3. DateAt(Wall(z, answer')) = DateOf(n)
        BY <4>1, <4>2, NaiveWall DEF DateAt
      <4> QED
        BY <2>1, <3>1, <4>2, <4>3 DEF AnswerWithin
    <3>2. CASE ~dated
      BY <1>5, <2>1, <3>2, FloorSecondIs DEF AnswerWithin
    <3> QED
      BY <3>1, <3>2
  <2> QED
    BY <1>1, <1>3, <1>5, <2>1, <2>2 DEF ThisInv, WithinPeriod, AnswerWithin
<1> QED
  BY <1>11, <1>12, <1>13

\* The calls of each kind.
BirthCalls(at) ==
  \/ \E minimum, maximum \in (-1)..MaxAge : AskBirth(at, Naive, minimum, maximum)
  \/ \E z \in Zones, age \in 0..MaxAge : AskBirth(at, z, age, age)
ThisCalls(at) ==
  \E period \in {"century", "decade", "year", "month"}, before, after \in BOOLEAN :
    \/ \E dated \in BOOLEAN : AskThis(at, Naive, period, before, after, dated)
    \/ \E z \in Zones : AskThis(at, z, period, before, after, FALSE)
RelativeCalls(at) ==
  \/ \E z \in {Naive} \cup Zones, dated \in BOOLEAN :
       /\ dated => z = Naive
       /\ \/ \E n \in 1..MaxSpan :
               \/ AskRelative(at, "future", dated, z, Soonest, n)
               \/ AskRelative(at, "past", dated, z, -n, Latest)
          \/ \E low, high \in (-MaxSpan)..MaxSpan :
               AskRelative(at, "between", dated, z, low, high)
  \/ \E z \in {Naive} \cup Zones : \E low, high \in DateBounds(z) :
       \E ahead \in IF z = Naive THEN {0} ELSE Locals :
         AskBounds(at, "dates", FALSE, z, ahead, low, high)
  \/ \E high \in (-MaxSpan)..MaxSpan : AskRelative(at, "delta", FALSE, Naive, 0, high)
  \/ \E start \in Starts, high \in (-MaxSpan)..MaxSpan : AskUntil(at, start, high)

\* The steps, with the calls of each kind of method apart.
LEMMA DateSteps ==
  DateNext <=>
    \/ /\ dating = "idle"
       /\ \E d \in Today, tick \in TimesOfDay : \E at \in {Midnight(d) + tick} :
            BirthCalls(at) \/ ThisCalls(at) \/ RelativeCalls(at)
    \/ ReadLow \/ ReadHigh \/ Tick
    \/ \E t \in (from..(from + Margin)) \cup ((to - Margin)..to) : DrawTime(t)
    \/ GotDate
BY Zenon DEF DateNext, BirthCalls, ThisCalls, RelativeCalls

\* ThisInv is inductive.
LEMMA ThisNext == ThisInv /\ [DateNext]_dateVars => ThisInv'
<1> SUFFICES ASSUME ThisInv, [DateNext]_dateVars PROVE ThisInv'
  OBVIOUS
<1>1. ASSUME NEW d \in Today, NEW tick \in TimesOfDay, NEW at \in {Midnight(d) + tick},
             ThisCalls(at)
      PROVE  ThisInv'
  <2>1. at \in Int /\ DateAt(at).year \in 1..MaxYear
    BY Moments
  <2>2. ASSUME NEW period \in Periods, NEW before \in BOOLEAN, NEW after \in BOOLEAN,
               NEW dated \in BOOLEAN, AskThis(at, Naive, period, before, after, dated)
        PROVE  ThisInv'
    BY <2>1, <2>2, ThisAsked
  <2>3. ASSUME NEW period \in Periods, NEW before \in BOOLEAN, NEW after \in BOOLEAN,
               NEW z \in Zones, AskThis(at, z, period, before, after, FALSE)
        PROVE  ThisInv'
    BY <2>1, <2>3, ThisAsked
  <2> QED
    BY <1>1, <2>2, <2>3 DEF ThisCalls, Periods
<1>2. ASSUME inquiry'.op # "this"
      PROVE  ThisInv'
  BY <1>2 DEF ThisInv, WithinPeriod
<1>3. ASSUME NEW at, BirthCalls(at)
      PROVE  inquiry'.op # "this"
  BY <1>3 DEF BirthCalls, AskBirth, Called
<1>4. ASSUME NEW at, RelativeCalls(at)
      PROVE  inquiry'.op # "this"
  BY <1>4 DEF RelativeCalls, AskUntil, AskRelative, AskBounds, Called
<1>5. ASSUME ReadLow \/ ReadHigh \/ Tick
      PROVE  ThisInv'
  <2>1. inquiry.op # "this" /\ inquiry' = inquiry
    BY <1>5 DEF ReadLow, ReadHigh, Tick, ThisInv
  <2> QED
    BY <1>2, <2>1
<1>6. ASSUME NEW t \in (from..(from + Margin)) \cup ((to - Margin)..to), DrawTime(t)
      PROVE  ThisInv'
  <2>1. t \in Int
    OBVIOUS
  <2>2. CASE inquiry.op = "this"
    BY <1>6, <2>1, <2>2, ThisDrawn
  <2>3. CASE inquiry.op # "this"
    BY <1>2, <1>6, <2>3 DEF DrawTime
  <2> QED
    BY <2>2, <2>3
<1>7. CASE GotDate
  BY <1>2, <1>7 DEF GotDate, NoInquiry
<1>8. CASE UNCHANGED dateVars
  BY <1>8 DEF dateVars, ThisInv, WithinPeriod, ThisCall, ThisDraw
<1> QED
  BY <1>1, <1>2, <1>3, <1>4, <1>5, <1>6, <1>7, <1>8, DateSteps

\* A date or time of this century, decade, year or month is one of the period
\* that today is in by the zone's clock, on the side of now that was asked for, on
\* every day of the calendar and for every clock that is set once
\* (date_time.rs:322-477, lib.rs:1137-1208).
THEOREM PeriodTheorem == DateSpec => []WithinPeriod
<1>1. DateInit => ThisInv
  BY DEF DateInit, ThisInv, WithinPeriod, NoInquiry
<1>2. ThisInv => WithinPeriod
  BY DEF ThisInv
<1> QED
  BY <1>1, <1>2, ThisNext, PTL DEF DateSpec

-----------------------------------------------------------------------------
(* Between two moments                                                     *)

\* A bound is resolved to no earlier moment later on, or when it is greater.
LEMMA ResolvedType ==
  ASSUME NEW dated \in BOOLEAN, NEW n \in Int, NEW now \in Int
  PROVE  /\ Resolved(dated, n, now) \in Int
         /\ dated => Resolved(dated, n, now) = (now \div DayTicks + n) * DayTicks
         /\ ~dated => Whole(Resolved(dated, n, now))
<1>1. now + n * Ticks \in Int /\ now \div DayTicks + n \in Int
  BY Positive, DayOf
<1>2. (now \div DayTicks + n) * DayTicks \in Int
  BY <1>1, MidnightDay
<1> QED
  BY <1>1, <1>2, FloorSecondIs DEF Resolved

\* Later moments are not in earlier seconds.
LEMMA SecondsInOrder ==
  ASSUME NEW s \in Int, NEW t \in Int, s <= t
  PROVE  FloorSecond(s) <= FloorSecond(t)
<1>1. FloorSecond(s) \in Int /\ Whole(FloorSecond(s)) /\ FloorSecond(s) <= s
  BY FloorSecondIs
<1> QED
  BY <1>1, FloorSecondIs

\* The greater bound, or the later read, gives no earlier moment.
LEMMA ResolvedGrows ==
  ASSUME NEW dated \in BOOLEAN, NEW n \in Int, NEW m \in Int, n <= m,
         NEW s \in Int, NEW t \in Int, s <= t
  PROVE  Resolved(dated, n, s) <= Resolved(dated, m, t)
<1>1. CASE dated
  <2>1. PICK p \in Int, q \in Int : p = s \div DayTicks /\ q = t \div DayTicks /\ p <= q
    BY DayOf, DaysInOrder
  <2>2. (p + n) * DayTicks <= (q + m) * DayTicks
    BY <2>1, Positive, Scaling
  <2> QED
    BY <1>1, <2>1, <2>2 DEF Resolved
<1>2. CASE ~dated
  <2>1. n * Ticks <= m * Ticks /\ n * Ticks \in Int /\ m * Ticks \in Int
    BY Positive, Scaling
  <2>2. s + n * Ticks \in Int /\ t + m * Ticks \in Int /\ s + n * Ticks <= t + m * Ticks
    BY <2>1
  <2> QED
    BY <1>2, <2>2, SecondsInOrder DEF Resolved
<1> QED
  BY <1>1, <1>2

\* A full second is all on one day.
LEMMA SecondOfDay ==
  ASSUME NEW t \in Int, NEW f \in Int, Whole(f), f <= t, t < f + Ticks
  PROVE  t \div DayTicks = f \div DayTicks
<1>1. PICK p \in Int, q \in Int : p = f \div DayTicks /\ q = t \div DayTicks /\ p <= q
  BY DayOf, DaysInOrder
<1>2. q * DayTicks \in Int /\ Whole(q * DayTicks) /\ q * DayTicks <= t
  BY <1>1, WholeMidnight, MidnightDay, DayOf
<1>3. q * DayTicks <= f
  <2>1. PICK a \in Int, b \in Int : q * DayTicks = a * Ticks /\ f = b * Ticks
    BY <1>2, WholeIs
  <2>2. (b + 1) * Ticks = b * Ticks + Ticks /\ a * Ticks \in Int /\ b * Ticks \in Int
    BY Positive
  <2>3. ~((b + 1) * Ticks <= a * Ticks)
    BY <1>2, <2>1, <2>2, Positive
  <2>4. ~(b + 1 <= a)
    BY <2>3, Positive, Scaling
  <2>5. a * Ticks <= b * Ticks
    BY <2>4, Positive, Scaling
  <2> QED
    BY <2>1, <2>5
<1> QED
  BY <1>1, <1>3, DayOf

\* A relative bound is within MaxSpan days of the moment that it is relative to.
LEMMA ResolvedNear ==
  ASSUME NEW s \in Int, NEW dated \in BOOLEAN, NEW n \in (-MaxSpan)..MaxSpan
  PROVE  /\ s \div DayTicks - MaxSpan <= Resolved(dated, n, s) \div DayTicks
         /\ Resolved(dated, n, s) \div DayTicks <= s \div DayTicks + MaxSpan
<1>1. MaxSpan \in Int /\ n \in Int /\ -MaxSpan <= n /\ n <= MaxSpan
  BY CalendarAssumption
<1>2. PICK r \in Int : r = Resolved(dated, n, s)
  BY <1>1, ResolvedType
<1>3. PICK q \in Int : q = s \div DayTicks
  BY DayOf
<1>4. CASE dated
  <2>1. q + n \in Int /\ r = (q + n) * DayTicks
    BY <1>1, <1>2, <1>3, <1>4 DEF Resolved
  <2>2. r \div DayTicks = q + n
    BY <2>1, MidnightDay
  <2> QED
    BY <1>1, <1>2, <1>3, <2>2
<1>5. CASE ~dated
  <2>1. PICK x \in Int : x = s + n * Ticks
    BY <1>1, Positive
  <2>2. r \div DayTicks = x \div DayTicks
    BY <1>2, <1>5, <2>1, FloorSecondIs, SecondOfDay DEF Resolved
  <2>3. Ticks \in Int /\ DayTicks \in Int /\ 1 <= Ticks /\ Ticks <= DayTicks
    <3>1. Ticks * 1 <= Ticks * DaySeconds
      BY CalendarAssumption
    <3> QED
      BY Positive, <3>1 DEF DayTicks
  <2>4. n * Ticks <= MaxSpan * DayTicks /\ (-MaxSpan) * DayTicks <= n * Ticks
    <3>1. n * Ticks <= MaxSpan * Ticks /\ (-MaxSpan) * Ticks <= n * Ticks
      BY <1>1, Positive, Scaling
    <3>2. MaxSpan * Ticks <= MaxSpan * DayTicks
      BY <2>3, CalendarAssumption
    <3>3. /\ (-MaxSpan) * Ticks = -(MaxSpan * Ticks)
          /\ (-MaxSpan) * DayTicks = -(MaxSpan * DayTicks)
          /\ MaxSpan * Ticks \in Int /\ MaxSpan * DayTicks \in Int /\ n * Ticks \in Int
      BY <1>1, <2>3
    <3> QED
      BY <3>1, <3>2, <3>3
  <2>5. PICK a \in Int, b \in Int :
          /\ a = s + (-MaxSpan) * DayTicks /\ b = s + MaxSpan * DayTicks
          /\ a \div DayTicks = q - MaxSpan /\ b \div DayTicks = q + MaxSpan
    <3>1. PICK k \in Int : k = -MaxSpan
      BY <1>1
    <3>2. /\ s + k * DayTicks \in Int /\ (s + k * DayTicks) \div DayTicks = q + k
          /\ s + MaxSpan * DayTicks \in Int /\ (s + MaxSpan * DayTicks) \div DayTicks = q + MaxSpan
      BY <1>1, <1>3, ShiftedDay
    <3>3. q + k = q - MaxSpan
      BY <1>1, <3>1
    <3> QED
      BY <3>1, <3>2, <3>3
  <2>6. n * Ticks \in Int /\ MaxSpan * DayTicks \in Int /\ (-MaxSpan) * DayTicks \in Int
    BY <1>1, Positive
  <2>7. a <= x /\ x <= b
    BY <2>1, <2>4, <2>5, <2>6
  <2>8. a \div DayTicks <= x \div DayTicks /\ x \div DayTicks <= b \div DayTicks
    BY <2>1, <2>5, <2>7, DaysInOrder
  <2> QED
    BY <1>2, <1>3, <2>2, <2>5, <2>8
<1> QED
  BY <1>4, <1>5

\* The days that a bound of a call made at `at` and read until c may fall on, by
\* whatever clock, and the calls that may leave the calendar.
Reached(at, c, r) ==
  r \in Int /\ at \div DayTicks - (MaxSpan + 1) <= r \div DayTicks
            /\ r \div DayTicks <= c \div DayTicks + (MaxSpan + 1)
Edge(at, c) ==
  \/ DateAt(c + (MaxSpan + 2) * DayTicks).year > MaxYear
  \/ DateAt(at - (MaxSpan + 2) * DayTicks).year < 1

\* A moment that is so near, and out of the calendar by UTC or by a zone's clock,
\* shows the call to be at its edge.
LEMMA BeyondEdge ==
  ASSUME NEW at \in Int, NEW c \in Int, NEW r, Reached(at, c, r), NEW z, Clock(z),
         BadYear(r) \/ BadYear(Wall(z, r))
  PROVE  Edge(at, c)
<1>1. PICK w \in Int :
        /\ BadYear(w)
        /\ r \div DayTicks - 1 <= w \div DayTicks /\ w \div DayTicks <= r \div DayTicks + 1
  <2>1. r \in Int /\ r \div DayTicks \in Int
    BY DayOf DEF Reached
  <2>2. CASE BadYear(r)
    <3>1. r \div DayTicks - 1 <= r \div DayTicks /\ r \div DayTicks <= r \div DayTicks + 1
      BY <2>1
    <3> QED
      BY <2>1, <2>2, <3>1
  <2>3. CASE BadYear(Wall(z, r))
    BY <2>1, <2>3, WallNear
  <2> QED
    BY <2>2, <2>3
<1>2. PICK p \in Int, q \in Int, k \in Int :
        /\ p = at \div DayTicks /\ q = c \div DayTicks /\ k = w \div DayTicks
  BY DayOf
<1>3. PICK far \in Int : far = MaxSpan + 2 /\ far = (MaxSpan + 1) + 1 /\ MaxYear \in Int
  BY CalendarAssumption
<1>4. p - far <= k /\ k <= q + far
  <2>1. PICK j \in Int : j = r \div DayTicks
    BY DayOf DEF Reached
  <2>2. MaxSpan \in Int
    BY CalendarAssumption
  <2>3. p - (MaxSpan + 1) <= j /\ j <= q + (MaxSpan + 1) /\ j - 1 <= k /\ k <= j + 1
    BY <1>1, <1>2, <2>1 DEF Reached
  <2> QED
    BY <1>3, <2>2, <2>3
<1>5. (c + far * DayTicks) \div DayTicks = q + far
  BY <1>2, <1>3, ShiftedDay
<1>6. (at - far * DayTicks) \div DayTicks = p - far
  <2>1. PICK m \in Int : m = -far
    BY <1>3
  <2>2. (at + m * DayTicks) \div DayTicks = p + m
    BY <1>2, ShiftedDay
  <2>3. at + m * DayTicks = at - far * DayTicks
    BY <1>3, <2>1, Positive
  <2> QED
    BY <1>2, <1>3, <2>1, <2>2, <2>3
<1>7. DateOf(k).year \notin 1..MaxYear
  BY <1>1, <1>2 DEF BadYear, DateAt
<1>8. p - far \in Int /\ q + far \in Int
  BY <1>2, <1>3
<1>9. /\ DateOf(p - far).year <= DateOf(k).year
      /\ DateOf(k).year <= DateOf(q + far).year
      /\ DateOf(p - far).year \in Int /\ DateOf(k).year \in Int
      /\ DateOf(q + far).year \in Int
  BY <1>4, <1>8, YearsInOrder, DateYear
<1>10. DateOf(p - far).year < 1 \/ DateOf(q + far).year > MaxYear
  BY <1>3, <1>7, <1>9
<1> QED
  BY <1>3, <1>5, <1>6, <1>10 DEF Edge, DateAt

\* A call for what is between two moments, its first bound f when it has been
\* read, the bounds f to t it draws between, what it answers and when it is an error.
RelativeOps == {"future", "past", "between", "dates", "delta", "until"}

Relative(bound) == bound.by \in {"NaiveLocal", "Utc"} /\ bound.n \in (-MaxSpan)..MaxSpan

RelativeCall(call) ==
  /\ call.op \in RelativeOps /\ call.dated \in BOOLEAN /\ Clock(call.zone)
  /\ call.at \in Int /\ call.ahead \in ZoneOffsets /\ Relative(call.high)
  /\ call.op # "until" => Relative(call.low)
  /\ call.op \in {"dates", "delta", "until"} => ~call.dated
  /\ call.op # "dates" => call.ahead = 0
  /\ call.op = "until" =>
       /\ call.zone = Naive
       /\ call.low.by = "fixed" /\ call.low.n \in Int
       /\ ~BadYear(call.low.n) /\ Whole(call.low.n)
  /\ call.op = "future" => call.low.n = 1 /\ call.low.n <= call.high.n
  /\ call.op = "past" => call.high.n = -1 /\ call.low.n <= call.high.n
  /\ call.op = "delta" => call.low.n = 0

Started(call, c, f) ==
  /\ f \in Int
  /\ call.op = "until" => f = call.low.n
  /\ call.op # "until" => Reached(call.at, c, f)
  /\ BoundAt(call, call.low, call.at) <= f
  /\ f <= BoundAt(call, call.low, c)
  /\ call.dated => f = (f \div DayTicks) * DayTicks
  /\ ~call.dated => Whole(f)

Drawing(call, c, f, t) ==
  LET top == BoundAt(call, call.high, c)
  IN  /\ f \in Int /\ t \in Int /\ f <= t
      /\ call.op = "delta" /\ call.high.n = 0 => f = 0 /\ t <= FloorSecond(c) - FloorSecond(call.at)
      /\ call.op # "delta" =>
           /\ Started(call, c, f)
           /\ \/ t = top
              \/ /\ call.op \in {"future", "past", "between"} /\ ~call.dated
                 /\ t = f + Ticks

BoundsOrdered(call, c) == BoundAt(call, call.low, c) <= BoundAt(call, call.high, c)

Answered(call, c, a) ==
  LET top == BoundAt(call, call.high, c)
  IN  /\ call.op = "future" => a > call.at
      /\ call.op = "past" => a < IF call.dated THEN Midnight(DateAt(c)) ELSE c
      /\ call.op \in {"between", "dates", "until"} =>
           /\ BoundAt(call, call.low, call.at) <= a
           /\ \/ a <= top
              \/ call.op = "between" /\ ~call.dated /\ (BoundsOrdered(call, c) => a <= top + Ticks)
      /\ call.op = "delta" /\ call.high.n = 0 =>
           0 <= a /\ a < FloorSecond(c) - FloorSecond(call.at) + 1

Failing(call, c) ==
  \/ call.op \in {"between", "dates", "until"} /\ ~BoundsOrdered(call, c)
  \/ Edge(call.at, c)

FutureInv ==
  inquiry.op \in RelativeOps =>
    /\ RelativeCall(inquiry) /\ clock \in Int /\ inquiry.at <= clock
    /\ dating \in {"asked", "begun", "drawing", "done", "failed"}
    /\ dating = "begun" => Started(inquiry, clock, from)
    /\ dating = "drawing" => Drawing(inquiry, clock, from, to)
    /\ dating = "done" => Answered(inquiry, clock, answer)
    /\ dating = "failed" => Failing(inquiry, clock)

\* FutureInv says what FuturePast does.
LEMMA FutureInvSafe == FutureInv => FuturePast
BY DEF FutureInv, RelativeOps, FuturePast, Answered, Failing, Edge, BoundsOrdered

\* The bounds that are relative to now, and the clock that one is read by.
NowBounds(call) == {call.high} \cup {b \in {call.low} : call.op # "until"}

LEMMA BoundReads ==
  ASSUME NEW call, RelativeCall(call), NEW bound \in NowBounds(call)
  PROVE  /\ bound.n \in (-MaxSpan)..MaxSpan
         /\ \E lead \in ZoneOffsets :
              /\ call.op # "dates" => lead = 0
              /\ \A c : BoundAt(call, bound, c) = Resolved(call.dated, bound.n, c + lead)
<1>1. Relative(bound)
  BY DEF RelativeCall, NowBounds
<1>2. PICK lead : lead = IF bound.by = "NaiveLocal" THEN call.ahead ELSE 0
  OBVIOUS
<1>3. lead \in ZoneOffsets /\ (call.op # "dates" => lead = 0)
  BY <1>2, Positive DEF RelativeCall, ZoneOffsets
<1>4. ASSUME NEW c
      PROVE  BoundAt(call, bound, c) = Resolved(call.dated, bound.n, c + lead)
  BY <1>1, <1>2 DEF BoundAt, Relative
<1> QED
  BY <1>1, <1>3, <1>4 DEF Relative

\* A bound that is read later is no earlier, and near to the call in any case.
LEMMA BoundGrows ==
  ASSUME NEW call, RelativeCall(call), NEW bound \in NowBounds(call),
         NEW c \in Int, NEW d \in Int, c <= d
  PROVE  /\ BoundAt(call, bound, c) \in Int
         /\ BoundAt(call, bound, c) <= BoundAt(call, bound, d)
         /\ call.dated =>
              BoundAt(call, bound, c) = (BoundAt(call, bound, c) \div DayTicks) * DayTicks
         /\ ~call.dated => Whole(BoundAt(call, bound, c))
         /\ Reached(c, d, BoundAt(call, bound, d))
<1>1. PICK n \in (-MaxSpan)..MaxSpan, lead \in ZoneOffsets :
        /\ n = bound.n
        /\ \A x : BoundAt(call, bound, x) = Resolved(call.dated, n, x + lead)
  BY BoundReads
<1>2. n \in Int /\ lead \in Int /\ MaxSpan \in Int
  BY CalendarAssumption, Positive DEF ZoneOffsets
<1>3. PICK s \in Int, t \in Int : s = c + lead /\ t = d + lead /\ s <= t
  BY <1>2
<1>4. PICK dated \in BOOLEAN : dated = call.dated
  BY DEF RelativeCall
<1>5. /\ BoundAt(call, bound, c) = Resolved(dated, n, s)
      /\ BoundAt(call, bound, d) = Resolved(dated, n, t)
  BY <1>1, <1>3, <1>4
<1>6. /\ Resolved(dated, n, s) \in Int /\ Resolved(dated, n, t) \in Int
      /\ ~dated => Whole(Resolved(dated, n, s))
      /\ dated => Resolved(dated, n, s) = (s \div DayTicks + n) * DayTicks
  BY <1>2, ResolvedType
<1>7. dated => Resolved(dated, n, s) = (Resolved(dated, n, s) \div DayTicks) * DayTicks
  <2>1. PICK k \in Int : k = s \div DayTicks + n
    BY <1>2, DayOf
  <2> QED
    BY <1>6, <2>1, MidnightDay
<1>8. Resolved(dated, n, s) <= Resolved(dated, n, t)
  BY <1>2, <1>3, ResolvedGrows
<1>9. Reached(c, d, Resolved(dated, n, t))
  <2>1. PICK i \in Int, j \in Int, k \in Int, r \in Int :
          /\ i = c \div DayTicks /\ j = d \div DayTicks /\ k = t \div DayTicks
          /\ r = Resolved(dated, n, t) \div DayTicks
    BY <1>6, DayOf
  <2>2. i <= j
    BY <2>1, DaysInOrder
  <2>3. j - 1 <= k /\ k <= j + 1
    BY <1>3, <2>1, NearDay
  <2>4. k - MaxSpan <= r /\ r <= k + MaxSpan
    BY <2>1, ResolvedNear
  <2>5. i - (MaxSpan + 1) <= r /\ r <= j + (MaxSpan + 1)
    BY <1>2, <2>2, <2>3, <2>4
  <2> QED
    BY <1>6, <2>1, <2>5 DEF Reached
<1> QED
  BY <1>4, <1>5, <1>6, <1>7, <1>8, <1>9

\* But for date_time_between_dates, a bound is read by the call's clock.
LEMMA BoundPlain ==
  ASSUME NEW call, RelativeCall(call), NEW bound \in NowBounds(call), call.op # "dates",
         NEW c \in Int
  PROVE  BoundAt(call, bound, c) = Resolved(call.dated, bound.n, c)
<1>1. PICK lead \in {0} : BoundAt(call, bound, c) = Resolved(call.dated, bound.n, c + lead)
  BY BoundReads
<1>2. c + lead = c
  BY <1>1
<1> QED
  BY <1>1, <1>2

\* The first bound is a number, and no earlier when it is read later.
LEMMA LowGrows ==
  ASSUME NEW call, RelativeCall(call), NEW c \in Int, NEW d \in Int, c <= d
  PROVE  /\ BoundAt(call, call.low, c) \in Int
         /\ BoundAt(call, call.low, c) <= BoundAt(call, call.low, d)
<1>1. CASE call.op # "until"
  BY <1>1, BoundGrows DEF NowBounds
<1>2. CASE call.op = "until"
  <2>1. /\ BoundAt(call, call.low, c) = call.low.n /\ BoundAt(call, call.low, d) = call.low.n
        /\ call.low.n \in Int
    BY <1>2 DEF BoundAt, RelativeCall
  <2> QED
    BY <2>1
<1> QED
  BY <1>1, <1>2

\* What holds of the first bound goes on holding as the clock goes on.
LEMMA StartedLater ==
  ASSUME NEW call, RelativeCall(call), NEW c \in Int, call.at <= c,
         NEW d \in Int, c <= d, NEW f, Started(call, c, f)
  PROVE  Started(call, d, f)
<1>1. PICK at \in Int : at = call.at
  BY DEF RelativeCall
<1>2. f <= BoundAt(call, call.low, d)
  <2>1. PICK a \in Int, b \in Int :
          a = BoundAt(call, call.low, c) /\ b = BoundAt(call, call.low, d) /\ a <= b
    BY LowGrows
  <2> QED
    BY <2>1 DEF Started
<1>3. Reached(at, c, f) => Reached(at, d, f)
  <2>1. ASSUME Reached(at, c, f)
        PROVE  Reached(at, d, f)
    <3>1. f \in Int
      BY <2>1 DEF Reached
    <3>2. c \div DayTicks \in Int /\ d \div DayTicks \in Int /\ f \div DayTicks \in Int
      BY <3>1, DayOf
    <3>3. c \div DayTicks <= d \div DayTicks
      BY DaysInOrder
    <3> QED
      BY <2>1, <3>2, <3>3, CalendarAssumption DEF Reached
  <2> QED
    BY <2>1
<1> QED
  BY <1>1, <1>2, <1>3 DEF Started

\* The first bound, read at c.
LEMMA FirstBound ==
  ASSUME NEW call, RelativeCall(call), NEW c \in Int, call.at <= c,
         NEW f, f = BoundAt(call, call.low, c)
  PROVE  /\ Overflows(call, call.low, c) => Failing(call, c)
         /\ Started(call, c, f)
<1>1. PICK at \in Int : at = call.at /\ at <= c
  BY DEF RelativeCall
<1>2. f \in Int /\ BoundAt(call, call.low, at) <= f
  BY <1>1, LowGrows
<1>3. CASE call.op # "until"
  <2>1. call.low \in NowBounds(call)
    BY <1>3 DEF NowBounds
  <2>2. /\ Reached(at, c, f)
        /\ call.dated => f = (f \div DayTicks) * DayTicks
        /\ ~call.dated => Whole(f)
    BY <1>1, <2>1, BoundGrows
  <2>3. Overflows(call, call.low, c) => Edge(at, c)
    BY <2>2, Clocks, BeyondEdge DEF Overflows
  <2> QED
    BY <1>1, <1>2, <1>3, <2>2, <2>3 DEF Started, Failing
<1>4. CASE call.op = "until"
  <2>1. f = call.low.n /\ ~Overflows(call, call.low, c) /\ Whole(f) /\ ~call.dated
    BY <1>4 DEF RelativeCall, BoundAt, Overflows
  <2> QED
    BY <1>1, <1>2, <1>4, <2>1 DEF Started
<1> QED
  BY <1>3, <1>4

\* The second, read at c too.
LEMMA SecondBound ==
  ASSUME NEW call, RelativeCall(call), NEW c \in Int, call.at <= c,
         NEW f, Started(call, c, f),
         NEW top, top = BoundAt(call, call.high, c)
  PROVE  /\ top \in Int /\ f \in Int
         /\ Overflows(call, call.high, c) => Failing(call, c)
         /\ call.op = "delta" =>
              Drawing(call, c, IF top - f < 0 THEN top - f ELSE 0, IF top - f < 0 THEN 0 ELSE top - f)
         /\ call.op \in {"future", "past", "between"} /\ ~call.dated => Drawing(call, c, f, f + Ticks)
         /\ ~(call.op \in {"future", "past", "between"} /\ ~call.dated /\ top - f <= Ticks)
              /\ call.op # "delta" /\ f > top => Failing(call, c)
         /\ call.op # "delta" /\ f <= top => Drawing(call, c, f, top)
<1>1. PICK at \in Int : at = call.at /\ at <= c
  BY DEF RelativeCall
<1>2. call.high \in NowBounds(call)
  BY DEF NowBounds
<1>3. top \in Int /\ f \in Int /\ Reached(at, c, top)
  BY <1>1, <1>2, BoundGrows DEF Started
<1>4. Overflows(call, call.high, c) => Failing(call, c)
  BY <1>1, <1>3, Clocks, BeyondEdge DEF Overflows, Failing
<1>5. ASSUME call.op = "delta"
      PROVE  Drawing(call, c, IF top - f < 0 THEN top - f ELSE 0, IF top - f < 0 THEN 0 ELSE top - f)
  <2>1. ASSUME call.high.n = 0
        PROVE  ~(top - f < 0) /\ top - f <= FloorSecond(c) - FloorSecond(at)
    <3>1. at + 0 * Ticks = at /\ c + 0 * Ticks = c
      BY Positive
    <3>2. call.low \in NowBounds(call) /\ call.low.n = 0 /\ ~call.dated
      BY <1>5 DEF NowBounds, RelativeCall
    <3>3. /\ top = FloorSecond(c)
          /\ BoundAt(call, call.low, at) = FloorSecond(at)
          /\ BoundAt(call, call.low, c) = FloorSecond(c)
      <4>1. ASSUME NEW bound \in NowBounds(call), bound.n = 0, NEW x \in Int
            PROVE  BoundAt(call, bound, x) = FloorSecond(x)
        <5>1. BoundAt(call, bound, x) = Resolved(call.dated, 0, x)
          BY <1>5, <4>1, BoundPlain
        <5>2. x + 0 * Ticks = x
          BY Positive
        <5> QED
          BY <3>2, <5>1, <5>2 DEF Resolved
      <4> QED
        BY <1>2, <2>1, <3>2, <4>1
    <3>4. f <= FloorSecond(c) /\ FloorSecond(at) <= f
      BY <1>1, <3>3 DEF Started
    <3>5. FloorSecond(c) \in Int /\ FloorSecond(at) \in Int
      BY FloorSecondIs
    <3> QED
      BY <1>3, <3>3, <3>4, <3>5
  <2> QED
    BY <1>1, <1>3, <1>5, <2>1 DEF Drawing
<1>6. ASSUME call.op \in {"future", "past", "between"}, ~call.dated
      PROVE  Drawing(call, c, f, f + Ticks)
  BY <1>3, <1>6, Positive DEF Drawing
<1>7. BoundsOrdered(call, c) => f <= top
  <2>1. BoundAt(call, call.low, c) \in Int
    BY LowGrows
  <2> QED
    BY <1>3, <2>1 DEF BoundsOrdered, Started
<1>8. ASSUME ~(call.op \in {"future", "past", "between"} /\ ~call.dated /\ top - f <= Ticks),
             call.op # "delta", f > top
      PROVE  Failing(call, c)
  <2>1. ~BoundsOrdered(call, c)
    BY <1>3, <1>7, <1>8
  <2>2. call.op \notin {"future", "past"}
    <3>1. ASSUME call.op \in {"future", "past"}
          PROVE  BoundsOrdered(call, c)
      <4>1. call.low \in NowBounds(call) /\ call.op # "dates" /\ call.low.n <= call.high.n
        BY <3>1 DEF NowBounds, RelativeCall
      <4>2. PICK m \in Int, n \in Int, dated \in BOOLEAN :
              m = call.low.n /\ n = call.high.n /\ dated = call.dated /\ m <= n
        BY <4>1, CalendarAssumption DEF RelativeCall, Relative, NowBounds
      <4>3. Resolved(dated, m, c) <= Resolved(dated, n, c)
        BY <4>2, ResolvedGrows
      <4>4. BoundAt(call, call.low, c) = Resolved(dated, m, c)
        BY <4>1, <4>2, BoundPlain
      <4>5. BoundAt(call, call.high, c) = Resolved(dated, n, c)
        BY <1>2, <4>1, <4>2, BoundPlain
      <4> QED
        BY <4>3, <4>4, <4>5 DEF BoundsOrdered
    <3> QED
      BY <2>1, <3>1
  <2>3. call.op \in RelativeOps
    BY DEF RelativeCall
  <2> QED
    BY <1>8, <2>1, <2>2, <2>3 DEF Failing, RelativeOps
<1>9. ASSUME call.op # "delta", f <= top
      PROVE  Drawing(call, c, f, top)
  BY <1>3, <1>9 DEF Drawing
<1> QED
  BY <1>3, <1>4, <1>5, <1>6, <1>8, <1>9

\* What is drawn from f to t.
LEMMA DrawnYear ==
  ASSUME NEW call, RelativeCall(call), NEW c \in Int, call.at <= c,
         NEW f, NEW t, Drawing(call, c, f, t), call.op # "delta",
         NEW x \in Int, x = f \/ (f < x /\ x < t), BadYear(x) \/ BadYear(Wall(call.zone, x))
  PROVE  Failing(call, c)
<1>1. PICK at \in Int : at = call.at /\ at <= c
  BY DEF RelativeCall
<1>2. f \in Int /\ t \in Int /\ f <= t /\ Started(call, c, f)
  BY DEF Drawing
<1>3. PICK top \in Int : top = BoundAt(call, call.high, c) /\ Reached(at, c, top)
  BY <1>1, BoundGrows DEF NowBounds
<1>4. PICK i \in Int, j \in Int, k \in Int :
        /\ i = f \div DayTicks /\ j = x \div DayTicks /\ k = top \div DayTicks /\ i <= j
  BY <1>2, <1>3, DayOf, DaysInOrder
<1>5. t = top => j <= k
  BY <1>2, <1>3, <1>4, DaysInOrder
<1>6. t = top \/ (t = f + Ticks /\ ~call.dated /\ call.op # "until")
  BY <1>3 DEF Drawing
<1>7. CASE call.op # "until"
  <2>1. Reached(at, c, f)
    BY <1>1, <1>2, <1>7 DEF Started
  <2>2. PICK p \in Int, q \in Int, m \in Int :
          p = at \div DayTicks /\ q = c \div DayTicks /\ m = MaxSpan + 1
    BY DayOf, CalendarAssumption
  <2>3. p - m <= i /\ i <= q + m /\ k <= q + m
    BY <1>3, <1>4, <2>1, <2>2 DEF Reached
  <2>4. p - m <= j /\ j <= q + m
    <3>1. CASE t = top
      BY <1>4, <1>5, <2>2, <2>3, <3>1
    <3>2. CASE t = f + Ticks /\ ~call.dated
      <4>1. Whole(f) /\ f <= x /\ x < f + Ticks
        BY <1>2, <3>2, Positive DEF Started
      <4>2. i = j
        BY <1>2, <1>4, <4>1, SecondOfDay
      <4> QED
        BY <2>3, <4>2
    <3> QED
      BY <1>6, <3>1, <3>2
  <2>5. Reached(at, c, x)
    BY <1>4, <2>2, <2>4 DEF Reached
  <2> QED
    BY <1>1, <2>5, BeyondEdge DEF Failing, RelativeCall
<1>8. CASE call.op = "until"
  <2>1. BadYear(x) /\ ~BadYear(f) /\ t = top
    BY <1>2, <1>6, <1>8, NaiveWall DEF RelativeCall, Started
  <2>2. DateOf(i).year \in 1..MaxYear /\ DateOf(j).year \notin 1..MaxYear
    BY <1>4, <2>1 DEF BadYear, DateAt
  <2>3. /\ DateOf(i).year <= DateOf(j).year /\ DateOf(j).year <= DateOf(k).year
        /\ DateOf(i).year \in Int /\ DateOf(j).year \in Int /\ DateOf(k).year \in Int
    BY <1>4, <1>5, <2>1, YearsInOrder, DateYear
  <2>4. BadYear(top)
    BY <1>4, <2>2, <2>3, CalendarAssumption DEF BadYear, DateAt
  <2> QED
    BY <1>1, <1>3, <2>4, Clocks, BeyondEdge DEF Failing
<1> QED
  BY <1>7, <1>8

\* The second after the present one is in the future ...
LEMMA SoonestLater ==
  ASSUME NEW dated \in BOOLEAN, NEW at \in Int
  PROVE  Resolved(dated, 1, at) > at
<1>1. CASE dated
  <2>1. PICK q \in Int : q = at \div DayTicks /\ ~(q + 1 <= q)
    BY DayOf
  <2>2. ~((q + 1) * DayTicks <= at)
    BY <2>1, DayOf
  <2>3. (q + 1) * DayTicks \in Int
    BY Positive
  <2> QED
    BY <1>1, <2>1, <2>2, <2>3 DEF Resolved
<1>2. CASE ~dated
  <2>1. PICK x \in Int : x = at + 1 * Ticks /\ x = at + Ticks
    BY Positive
  <2>2. FloorSecond(x) \in Int /\ x < FloorSecond(x) + Ticks
    BY FloorSecondIs
  <2> QED
    BY <1>2, <2>1, <2>2, Positive DEF Resolved
<1> QED
  BY <1>1, <1>2

\* ... and the second before it wholly in the past.
LEMMA LatestEarlier ==
  ASSUME NEW dated \in BOOLEAN, NEW c \in Int
  PROVE  /\ dated => Resolved(dated, -1, c) < Midnight(DateAt(c))
         /\ ~dated => Resolved(dated, -1, c) + Ticks <= c
<1>1. ASSUME dated PROVE Resolved(dated, -1, c) < Midnight(DateAt(c))
  <2>1. PICK q \in Int : q = c \div DayTicks
    BY DayOf
  <2>2. Midnight(DateAt(c)) = q * DayTicks
    BY <2>1, MidnightOf DEF DateAt
  <2>3. (q + -1) * DayTicks = q * DayTicks - DayTicks /\ q * DayTicks \in Int
    BY Positive
  <2> QED
    BY <1>1, <2>1, <2>2, <2>3, Positive DEF Resolved
<1>2. ASSUME ~dated PROVE Resolved(dated, -1, c) + Ticks <= c
  <2>1. PICK x \in Int : x = c + (-1) * Ticks /\ x = c - Ticks
    BY Positive
  <2>2. FloorSecond(x) \in Int /\ FloorSecond(x) <= x
    BY FloorSecondIs
  <2> QED
    BY <1>2, <2>1, <2>2, Positive DEF Resolved
<1> QED
  BY <1>1, <1>2

\* What is drawn is what was asked for.
LEMMA DrawnAnswer ==
  ASSUME NEW call, RelativeCall(call), NEW c \in Int, call.at <= c,
         NEW f, NEW t, Drawing(call, c, f, t),
         NEW x \in Int, x = f \/ (f < x /\ x < t),
         NEW a, a = IF call.dated THEN Midnight(DateAt(x)) ELSE x
  PROVE  Answered(call, c, a)
<1>1. PICK at \in Int, dated \in BOOLEAN : at = call.at /\ dated = call.dated /\ at <= c
  BY DEF RelativeCall
<1>2. f \in Int /\ t \in Int /\ f <= t
  BY DEF Drawing
<1>3. CASE call.op = "delta"
  <2>1. a = x /\ (call.high.n = 0 => f = 0 /\ t <= FloorSecond(c) - FloorSecond(at))
    BY <1>1, <1>3 DEF RelativeCall, Drawing
  <2>2. FloorSecond(c) \in Int /\ FloorSecond(at) \in Int
    BY FloorSecondIs
  <2>3. call.high.n = 0 => 0 <= a /\ a < FloorSecond(c) - FloorSecond(at) + 1
    BY <1>2, <2>1, <2>2
  <2> QED
    BY <1>1, <1>3, <2>3 DEF Answered
<1>4. CASE call.op # "delta"
  <2>1. Started(call, c, f)
    BY <1>4 DEF Drawing
  <2>2. PICK top \in Int : top = BoundAt(call, call.high, c)
    BY BoundGrows DEF NowBounds
  <2>3. \/ t = top
        \/ call.op \in {"future", "past", "between"} /\ ~dated /\ t = f + Ticks
    BY <1>1, <1>4, <2>2 DEF Drawing
  <2>4. a \in Int /\ f <= a /\ a <= x /\ (~dated => a = x)
    <3>1. CASE dated
      <4>1. PICK i \in Int, j \in Int : i = f \div DayTicks /\ j = x \div DayTicks /\ i <= j
        BY <1>2, DayOf, DaysInOrder
      <4>2. f = i * DayTicks /\ a = j * DayTicks
        BY <1>1, <2>1, <3>1, <4>1, MidnightOf DEF Started, DateAt
      <4>3. i * DayTicks <= j * DayTicks /\ j * DayTicks <= x /\ j * DayTicks \in Int
        BY <4>1, Positive, Scaling, DayOf
      <4> QED
        BY <3>1, <4>2, <4>3
    <3>2. CASE ~dated
      BY <1>1, <1>2, <3>2
    <3> QED
      BY <3>1, <3>2
  <2>5. x <= t /\ (t = f + Ticks => x < f + Ticks)
    BY <1>2, Positive
  <2>6. PICK lowest \in Int, latest \in Int :
          /\ lowest = BoundAt(call, call.low, at) /\ lowest <= f
          /\ latest = BoundAt(call, call.low, c) /\ f <= latest
    BY <1>1, <2>1, LowGrows DEF Started
  <2>7. ASSUME call.op = "future" PROVE a > at
    <3>1. lowest = Resolved(dated, 1, at)
      BY <1>1, <2>6, <2>7, BoundPlain DEF RelativeCall, NowBounds
    <3>2. Resolved(dated, 1, at) > at
      BY SoonestLater
    <3> QED
      BY <1>2, <2>4, <2>6, <3>1, <3>2
  <2>8. ASSUME call.op = "past" PROVE a < IF dated THEN Midnight(DateAt(c)) ELSE c
    <3>1. top = Resolved(dated, -1, c)
      BY <1>1, <2>2, <2>8, BoundPlain DEF RelativeCall, NowBounds
    <3>2. f <= top
      <4>1. PICK m \in Int : m = call.low.n /\ m <= -1
        BY <2>8, CalendarAssumption DEF RelativeCall, Relative
      <4>2. latest = Resolved(dated, m, c)
        BY <1>1, <2>6, <2>8, <4>1, BoundPlain DEF NowBounds
      <4>3. PICK last \in Int : last = -1
        OBVIOUS
      <4>4. Resolved(dated, m, c) <= Resolved(dated, last, c)
        BY <4>1, <4>3, ResolvedGrows
      <4> QED
        BY <1>2, <2>2, <2>6, <3>1, <4>2, <4>3, <4>4
    <3>3. CASE dated
      <4>1. PICK m \in Int : m = Midnight(DateAt(c))
        BY DayOf, MidnightOf, MidnightDay DEF DateAt
      <4>2. top < m
        BY <3>1, <3>3, <4>1, LatestEarlier
      <4>3. a <= top
        BY <2>3, <2>4, <2>5, <3>3
      <4>4. a < m
        BY <2>4, <4>2, <4>3
      <4> QED
        BY <3>3, <4>1, <4>4
    <3>4. CASE ~dated
      <4>1. top + Ticks <= c
        BY <3>1, <3>4, LatestEarlier
      <4>2. a < c
        BY <1>2, <2>3, <2>4, <2>5, <3>2, <4>1, Positive
      <4> QED
        BY <3>4, <4>2
    <3> QED
      BY <3>3, <3>4
  <2>9. ASSUME call.op \in {"between", "dates", "until"}
        PROVE  /\ lowest <= a
               /\ \/ a <= top
                  \/ call.op = "between" /\ ~dated /\ (BoundsOrdered(call, c) => a <= top + Ticks)
    <3>1. lowest <= a
      BY <1>2, <2>4, <2>6
    <3>2. CASE t = top
      BY <1>2, <2>4, <2>5, <3>1, <3>2
    <3>3. CASE call.op = "between" /\ ~dated /\ t = f + Ticks
      <4>1. BoundsOrdered(call, c) => f <= top
        BY <1>2, <2>2, <2>6 DEF BoundsOrdered
      <4>2. BoundsOrdered(call, c) => a <= top + Ticks
        BY <1>2, <2>2, <2>4, <2>5, <3>3, <4>1, Positive
      <4> QED
        BY <3>1, <3>3, <4>2
    <3> QED
      BY <2>3, <2>9, <3>2, <3>3
  <2> QED
    BY <1>1, <1>4, <2>2, <2>6, <2>7, <2>8, <2>9 DEF Answered
<1> QED
  BY <1>3, <1>4

\* The start of a date_time_until is a moment of the calendar.
LEMMA StartMoments ==
  ASSUME NEW d \in Starts
  PROVE  Midnight(d) \in Int /\ ~BadYear(Midnight(d)) /\ Whole(Midnight(d))
<1>1. d \in [year : 1..MaxYear, month : 1..12, day : 1..31] /\ ValidDay(d)
  BY TimeAssumption
<1>2. PICK n \in Int : n = Ordinal(d) /\ d = DateOf(n)
  <2>1. d = Ymd(d.year, d.month, d.day)
    BY <1>1 DEF Ymd
  <2>2. d.year \in Int /\ d.month \in Int /\ d.day \in Int
    BY <1>1, CalendarAssumption
  <2>3. Ordinal(Ymd(d.year, d.month, d.day)) = DaysBefore(d.year) + MonthDays(d.year, d.month) + d.day
    BY <2>2, OrdinalSum
  <2>4. DaysBefore(d.year) \in Int /\ MonthDays(d.year, d.month) \in Int
    BY <2>2 DEF DaysBefore, MonthDays
  <2> QED
    BY <1>1, <2>1, <2>2, <2>3, <2>4 DEF ValidDay
<1>3. Midnight(d) = n * DayTicks
  BY <1>2 DEF Midnight
<1>4. DateAt(n * DayTicks) = d
  BY <1>2, MidnightDay DEF DateAt
<1> QED
  BY <1>1, <1>3, <1>4, MidnightDay, WholeMidnight DEF BadYear

\* A call between two bounds starts with its first read of the clock ...
LEMMA BoundsAsked ==
  ASSUME NEW at \in Int, NEW op, NEW dated, NEW z, NEW ahead, NEW low, NEW high,
         AskBounds(at, op, dated, z, ahead, low, high),
         RelativeCall([op |-> op, dated |-> dated, at |-> at, zone |-> z, ahead |-> ahead,
                       low |-> low, high |-> high])
  PROVE  FutureInv'
<1>1. PICK call : call = [op |-> op, dated |-> dated, at |-> at, zone |-> z, ahead |-> ahead,
                          low |-> low, high |-> high]
  OBVIOUS
<1>2. inquiry' = call /\ clock' = at /\ dating' = "asked" /\ call.at = at
  BY <1>1 DEF AskBounds, Called
<1> QED
  BY <1>1, <1>2 DEF FutureInv

LEMMA BoundIs ==
  ASSUME NEW by, NEW n
  PROVE  /\ Bound(by, n).by = by /\ Bound(by, n).n = n
         /\ by \in {"NaiveLocal", "Utc"} /\ n \in (-MaxSpan)..MaxSpan => Relative(Bound(by, n))
BY DEF Bound, Relative

\* ... with both by the call's own clock ...
LEMMA RelativeAsked ==
  ASSUME NEW at \in Int, NEW op \in {"future", "past", "between", "delta"}, NEW dated \in BOOLEAN,
         NEW z \in {Naive} \cup Zones,
         NEW low \in (-MaxSpan)..MaxSpan, NEW high \in (-MaxSpan)..MaxSpan,
         AskRelative(at, op, dated, z, low, high),
         op = "delta" => ~dated /\ low = 0,
         op = "future" => low = 1 /\ low <= high,
         op = "past" => high = -1 /\ low <= high
  PROVE  FutureInv'
<1>1. PICK first, last :
        /\ first = Bound(ClockOf(z), low) /\ last = Bound(ClockOf(z), high)
        /\ first.n = low /\ last.n = high /\ Relative(first) /\ Relative(last)
  <2>1. ClockOf(z) \in {"NaiveLocal", "Utc"}
    BY DEF ClockOf
  <2> QED
    BY <2>1, BoundIs
<1>2. AskBounds(at, op, dated, z, 0, first, last)
  BY <1>1 DEF AskRelative
<1>3. Clock(z) /\ 0 \in ZoneOffsets
  BY Clocks, Positive DEF ZoneOffsets
<1>4. RelativeCall([op |-> op, dated |-> dated, at |-> at, zone |-> z, ahead |-> 0,
                    low |-> first, high |-> last])
  BY <1>1, <1>3 DEF RelativeCall, RelativeOps
<1> QED
  BY <1>2, <1>4, BoundsAsked

\* ... or not, whichever method it is.
LEMMA RelativeAsks ==
  ASSUME NEW at \in Int, RelativeCalls(at)
  PROVE  FutureInv'
<1>1. MaxSpan \in Nat
  BY CalendarAssumption
<1>2. ASSUME NEW z \in {Naive} \cup Zones, NEW n \in 1..MaxSpan, NEW dated \in BOOLEAN,
             \/ AskRelative(at, "future", dated, z, Soonest, n)
             \/ AskRelative(at, "past", dated, z, -n, Latest)
      PROVE  FutureInv'
  <2>1. CASE AskRelative(at, "future", dated, z, Soonest, n)
    <3>1. AskRelative(at, "future", dated, z, 1, n) /\ 1 \in (-MaxSpan)..MaxSpan
          /\ n \in (-MaxSpan)..MaxSpan /\ 1 <= n
      BY <1>1, <2>1 DEF Soonest
    <3> QED
      BY <3>1, RelativeAsked
  <2>2. CASE AskRelative(at, "past", dated, z, -n, Latest)
    <3>1. PICK m \in Int, last \in Int : m = -n /\ last = -1
      OBVIOUS
    <3>2. /\ AskRelative(at, "past", dated, z, m, last) /\ last \in (-MaxSpan)..MaxSpan
          /\ m \in (-MaxSpan)..MaxSpan /\ m <= last
      BY <1>1, <2>2, <3>1 DEF Latest
    <3> QED
      BY <3>1, <3>2, RelativeAsked
  <2> QED
    BY <1>2, <2>1, <2>2
<1>3. ASSUME NEW z \in {Naive} \cup Zones, NEW dated \in BOOLEAN,
             NEW low \in (-MaxSpan)..MaxSpan, NEW high \in (-MaxSpan)..MaxSpan,
             AskRelative(at, "between", dated, z, low, high)
      PROVE  FutureInv'
  BY <1>3, RelativeAsked
<1>4. ASSUME NEW high \in (-MaxSpan)..MaxSpan, AskRelative(at, "delta", FALSE, Naive, 0, high)
      PROVE  FutureInv'
  <2>1. PICK zero \in (-MaxSpan)..MaxSpan : zero = 0
    BY <1>1
  <2>2. AskRelative(at, "delta", FALSE, Naive, zero, high)
    BY <1>4, <2>1
  <2> QED
    BY <2>1, <2>2, RelativeAsked
<1>5. ASSUME NEW z \in {Naive} \cup Zones, NEW low \in DateBounds(z), NEW high \in DateBounds(z),
             NEW ahead \in IF z = Naive THEN {0} ELSE Locals,
             AskBounds(at, "dates", FALSE, z, ahead, low, high)
      PROVE  FutureInv'
  <2>1. Clock(z) /\ ahead \in ZoneOffsets
    BY <1>5, Clocks, TimeAssumption, Positive DEF ZoneOffsets
  <2>2. \A bound \in DateBounds(z) : Relative(bound)
    BY <1>1 DEF DateBounds, Bound, ClockOf, Relative
  <2>3. RelativeCall([op |-> "dates", dated |-> FALSE, at |-> at, zone |-> z, ahead |-> ahead,
                      low |-> low, high |-> high])
    BY <2>1, <2>2 DEF RelativeCall, RelativeOps
  <2> QED
    BY <1>5, <2>3, BoundsAsked
<1>6. ASSUME NEW start \in Starts, NEW high \in (-MaxSpan)..MaxSpan, AskUntil(at, start, high)
      PROVE  FutureInv'
  <2>1. PICK first, last :
          /\ first = Bound("fixed", Midnight(start)) /\ last = Bound("NaiveLocal", high)
          /\ first.by = "fixed" /\ first.n = Midnight(start) /\ Relative(last)
    BY BoundIs
  <2>2. first.n \in Int /\ ~BadYear(first.n) /\ Whole(first.n)
    BY <2>1, StartMoments
  <2>3. Clock(Naive) /\ 0 \in ZoneOffsets
    BY Clocks, Positive DEF ZoneOffsets
  <2>4. AskBounds(at, "until", FALSE, Naive, 0, first, last)
    BY <1>6, <2>1 DEF AskUntil
  <2>5. RelativeCall([op |-> "until", dated |-> FALSE, at |-> at, zone |-> Naive, ahead |-> 0,
                      low |-> first, high |-> last])
    BY <2>1, <2>2, <2>3 DEF RelativeCall, RelativeOps
  <2> QED
    BY <2>4, <2>5, BoundsAsked
<1> QED
  BY <1>2, <1>3, <1>4, <1>5, <1>6 DEF RelativeCalls

\* Reading the clock for the first bound, ...
LEMMA LowRead ==
  ASSUME FutureInv, inquiry.op \in RelativeOps, ReadLow
  PROVE  FutureInv'
<1>1. RelativeCall(inquiry) /\ clock \in Int /\ inquiry.at <= clock
  BY DEF FutureInv
<1>2. inquiry' = inquiry /\ clock' = clock
  BY DEF ReadLow
<1>3. PICK f : f = BoundAt(inquiry, inquiry.low, clock)
  OBVIOUS
<1>4. /\ Overflows(inquiry, inquiry.low, clock) => Failing(inquiry, clock)
      /\ Started(inquiry, clock, f)
  BY <1>1, <1>3, FirstBound
<1>5. CASE Overflows(inquiry, inquiry.low, clock)
  <2>1. dating' = "failed"
    BY <1>5 DEF ReadLow, Failed
  <2> QED
    BY <1>1, <1>2, <1>4, <1>5, <2>1 DEF FutureInv
<1>6. CASE ~Overflows(inquiry, inquiry.low, clock)
  <2>1. dating' = "begun" /\ from' = f
    BY <1>3, <1>6 DEF ReadLow
  <2> QED
    BY <1>1, <1>2, <1>4, <1>6, <2>1 DEF FutureInv
<1> QED
  BY <1>5, <1>6

\* ... for the second, ...
LEMMA HighRead ==
  ASSUME FutureInv, inquiry.op \in RelativeOps, ReadHigh
  PROVE  FutureInv'
<1>1. RelativeCall(inquiry) /\ clock \in Int /\ inquiry.at <= clock /\ Started(inquiry, clock, from)
  BY DEF FutureInv, ReadHigh
<1>2. inquiry' = inquiry /\ clock' = clock
  BY DEF ReadHigh
<1>3. PICK top : top = BoundAt(inquiry, inquiry.high, clock)
  OBVIOUS
<1>4. PICK f : f = from
  OBVIOUS
<1>5. Started(inquiry, clock, f)
  BY <1>1, <1>4
<1>6. /\ top \in Int /\ f \in Int
      /\ Overflows(inquiry, inquiry.high, clock) => Failing(inquiry, clock)
      /\ inquiry.op = "delta" =>
           Drawing(inquiry, clock, IF top - f < 0 THEN top - f ELSE 0, IF top - f < 0 THEN 0 ELSE top - f)
      /\ inquiry.op \in {"future", "past", "between"} /\ ~inquiry.dated =>
           Drawing(inquiry, clock, f, f + Ticks)
      /\ ~(inquiry.op \in {"future", "past", "between"} /\ ~inquiry.dated /\ top - f <= Ticks)
           /\ inquiry.op # "delta" /\ f > top => Failing(inquiry, clock)
      /\ inquiry.op # "delta" /\ f <= top => Drawing(inquiry, clock, f, top)
  BY <1>1, <1>3, <1>5, SecondBound
<1>7. ASSUME dating' = "failed", Failing(inquiry, clock)
      PROVE  FutureInv'
  BY <1>1, <1>2, <1>7 DEF FutureInv
<1>8. ASSUME NEW a, NEW b, dating' = "drawing", from' = a, to' = b, Drawing(inquiry, clock, a, b)
      PROVE  FutureInv'
  BY <1>1, <1>2, <1>8 DEF FutureInv
<1>9. CASE Overflows(inquiry, inquiry.high, clock)
  <2>1. dating' = "failed"
    BY <1>3, <1>9 DEF ReadHigh, Failed
  <2> QED
    BY <1>6, <1>7, <1>9, <2>1
<1>10. CASE ~Overflows(inquiry, inquiry.high, clock) /\ inquiry.op = "delta"
  <2>1. PICK a, b : /\ a = IF top - f < 0 THEN top - f ELSE 0
                    /\ b = IF top - f < 0 THEN 0 ELSE top - f
    OBVIOUS
  <2>2. Bounded(a, b)
    BY <1>3, <1>4, <1>10, <2>1 DEF ReadHigh
  <2>3. ~(a > b)
    BY <1>6, <2>1
  <2>4. dating' = "drawing" /\ from' = a /\ to' = b
    BY <2>2, <2>3 DEF Bounded
  <2> QED
    BY <1>6, <1>8, <1>10, <2>1, <2>4
<1>11. CASE /\ ~Overflows(inquiry, inquiry.high, clock)
            /\ inquiry.op \in {"future", "past", "between"} /\ ~inquiry.dated /\ top - f <= Ticks
  <2>1. Bounded(f, f + Ticks)
    BY <1>3, <1>4, <1>11 DEF ReadHigh
  <2>2. ~(f > f + Ticks)
    BY <1>6, Positive
  <2>3. dating' = "drawing" /\ from' = f /\ to' = f + Ticks
    BY <2>1, <2>2 DEF Bounded
  <2> QED
    BY <1>6, <1>8, <1>11, <2>3
<1>12. CASE /\ ~Overflows(inquiry, inquiry.high, clock) /\ inquiry.op # "delta"
            /\ ~(inquiry.op \in {"future", "past", "between"} /\ ~inquiry.dated /\ top - f <= Ticks)
  <2>1. Bounded(f, top)
    BY <1>3, <1>4, <1>12 DEF ReadHigh
  <2>2. CASE f > top
    <3>1. dating' = "failed"
      BY <2>1, <2>2 DEF Bounded, Failed
    <3> QED
      BY <1>6, <1>7, <1>12, <2>2, <3>1
  <2>3. CASE ~(f > top)
    <3>1. dating' = "drawing" /\ from' = f /\ to' = top
      BY <2>1, <2>3 DEF Bounded
    <3>2. f <= top
      BY <1>6, <2>3
    <3> QED
      BY <1>6, <1>8, <1>12, <3>1, <3>2
  <2> QED
    BY <2>2, <2>3
<1> QED
  BY <1>9, <1>10, <1>11, <1>12

\* ... the time that passes between, ...
LEMMA Ticked ==
  ASSUME FutureInv, inquiry.op \in RelativeOps, Tick
  PROVE  FutureInv'
<1>1. RelativeCall(inquiry) /\ clock \in Int /\ inquiry.at <= clock
  BY DEF FutureInv
<1>2. /\ inquiry' = inquiry /\ clock' = clock + 1 /\ dating' = dating /\ from' = from
      /\ dating \in {"asked", "begun"}
  BY DEF Tick
<1>3. PICK next \in Int : next = clock + 1 /\ clock <= next
  BY <1>1
<1>4. dating = "begun" => Started(inquiry, next, from)
  BY <1>1, <1>3, StartedLater DEF FutureInv
<1>5. inquiry.at <= next
  BY <1>1, <1>3 DEF RelativeCall
<1> QED
  BY <1>1, <1>2, <1>3, <1>4, <1>5 DEF FutureInv

\* ... and the draw keep FutureInv.
LEMMA FutureDrawn ==
  ASSUME FutureInv, inquiry.op \in RelativeOps, NEW x \in Int, DrawTime(x)
  PROVE  FutureInv'
<1>1. /\ RelativeCall(inquiry) /\ clock \in Int /\ inquiry.at <= clock
      /\ Drawing(inquiry, clock, from, to)
  BY DEF FutureInv, DrawTime
<1>2. inquiry' = inquiry /\ clock' = clock
  BY DEF DrawTime
<1>3. PICK f \in Int, t \in Int : f = from /\ t = to
  BY <1>1 DEF Drawing
<1>4. x = f \/ (f < x /\ x < t)
  BY <1>3 DEF DrawTime
<1>5. inquiry.op # "birth"
  BY <1>1 DEF RelativeCall, RelativeOps
<1>6. CASE inquiry.op # "delta" /\ (BadYear(x) \/ BadYear(Wall(inquiry.zone, x)))
  <2>1. dating' = "failed"
    BY <1>5, <1>6 DEF DrawTime, Failed
  <2>2. Drawing(inquiry, clock, f, t)
    BY <1>1, <1>3
  <2>3. Failing(inquiry, clock)
    BY <1>1, <1>4, <1>6, <2>2, DrawnYear
  <2> QED
    BY <1>1, <1>2, <2>1, <2>3 DEF FutureInv
<1>7. CASE ~(inquiry.op # "delta" /\ (BadYear(x) \/ BadYear(Wall(inquiry.zone, x))))
  <2>1. dating' = "done" /\ answer' = IF inquiry.dated THEN Midnight(DateAt(x)) ELSE x
    BY <1>5, <1>7 DEF DrawTime
  <2>2. PICK a : a = IF inquiry.dated THEN Midnight(DateAt(x)) ELSE x
    OBVIOUS
  <2>3. Drawing(inquiry, clock, f, t)
    BY <1>1, <1>3
  <2>4. Answered(inquiry, clock, a)
    BY <1>1, <1>4, <2>2, <2>3, DrawnAnswer
  <2> QED
    BY <1>1, <1>2, <2>1, <2>2, <2>4 DEF FutureInv
<1> QED
  BY <1>6, <1>7

\* FutureInv is inductive.
LEMMA FutureNext == FutureInv /\ [DateNext]_dateVars => FutureInv'
<1> SUFFICES ASSUME FutureInv, [DateNext]_dateVars PROVE FutureInv'
  OBVIOUS
<1>1. ASSUME NEW d \in Today, NEW tick \in TimesOfDay, NEW at \in {Midnight(d) + tick},
             RelativeCalls(at)
      PROVE  FutureInv'
  BY <1>1, Moments, RelativeAsks
<1>2. ASSUME inquiry'.op \notin RelativeOps
      PROVE  FutureInv'
  BY <1>2 DEF FutureInv
<1>3. ASSUME NEW at, BirthCalls(at)
      PROVE  inquiry'.op \notin RelativeOps
  BY <1>3 DEF BirthCalls, AskBirth, Called, RelativeOps
<1>4. ASSUME NEW at, ThisCalls(at)
      PROVE  inquiry'.op \notin RelativeOps
  <2>1. ASSUME NEW z, NEW period, NEW before, NEW after, NEW dated,
               AskThis(at, z, period, before, after, dated)
        PROVE  inquiry'.op = "this"
    BY <2>1 DEF AskThis, Called
  <2> QED
    BY <1>4, <2>1 DEF ThisCalls, RelativeOps
<1>5. ASSUME ReadLow \/ ReadHigh \/ Tick
      PROVE  FutureInv'
  <2>1. inquiry' = inquiry
    BY <1>5 DEF ReadLow, ReadHigh, Tick
  <2> QED
    BY <1>2, <1>5, <2>1, LowRead, HighRead, Ticked
<1>6. ASSUME NEW t \in (from..(from + Margin)) \cup ((to - Margin)..to), DrawTime(t)
      PROVE  FutureInv'
  <2>1. t \in Int /\ inquiry' = inquiry
    BY <1>6 DEF DrawTime
  <2> QED
    BY <1>2, <1>6, <2>1, FutureDrawn
<1>7. CASE GotDate
  BY <1>2, <1>7 DEF GotDate, NoInquiry, RelativeOps
<1>8. CASE UNCHANGED dateVars
  BY <1>8 DEF dateVars, FutureInv
<1> QED
  BY <1>1, <1>2, <1>3, <1>4, <1>5, <1>6, <1>7, <1>8, DateSteps

\* A future date or time is after the call, a past one before its return, any other
\* between its bounds to the second, each bound by the clock that reads it, the
\* call's own or the local one, however these go on between the reads; and only
\* bounds in the wrong order and the ends of the calendar are errors
\* (date_time.rs:307-391, lib.rs:1009-1242, 1395-1424).
THEOREM FutureTheorem == DateSpec => []FuturePast
<1>1. DateInit => FutureInv
  BY DEF DateInit, FutureInv, NoInquiry, RelativeOps
<1> QED
  BY <1>1, FutureInvSafe, FutureNext, PTL DEF DateSpec
==============================================================================
